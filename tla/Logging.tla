------------------------------ MODULE Logging -------------------------------
(***************************************************************************)
(* The files of the log and the log of slow queries                        *)
(* (src/src/logging/sinks/rotation.rs, sinks/file.rs, slow_log.rs,         *)
(* slow_query_layer.rs).  Three state machines that share nothing:         *)
(*   - SizeRotatingWriter, used by several threads;                        *)
(*   - the hourly task that compresses and deletes old files, beside the   *)
(*     appender that goes on writing;                                      *)
(*   - SlowQueryTracker::finish and the lock of its configuration.         *)
(* A line of the log is a number of bytes and its writer; what it says is  *)
(* left out.                                                               *)
(***************************************************************************)
EXTENDS Integers, FiniteSetsExt, SequencesExt

CONSTANTS
    LogThreads,    \* threads that write to the log
    LineSizes,     \* lengths of lines
    MaxFileSize,   \* max_size
    MaxLines,      \* bound: lines that a thread writes
    MaxDate,       \* bound: dates that the writing sees
    MaxDay,        \* bound: days that pass
    Retention,     \* retention_days
    MaxLogged,     \* bound: lines that the appender writes
    Trackers,      \* threads that finish slow queries
    Updaters,      \* threads that change the configuration
    Timings,       \* durations
    MaxQueries,    \* bound: queries of a thread
    MaxUpdates     \* bound: changes of the configuration

ASSUME LoggingAssumption ==
    /\ LineSizes \subseteq Nat \ {0} /\ MaxFileSize \in Nat /\ MaxLines \in Nat /\ MaxDay \in Nat /\ MaxDate \in Nat
    /\ Retention \in Nat \ {0} /\ MaxLogged \in Nat /\ Timings \subseteq Nat
    /\ MaxQueries \in Nat /\ MaxUpdates \in Nat

(***************************************************************************)
(* SizeRotatingWriter                                                      *)
(***************************************************************************)
VARIABLES
    naming,      \* FileNaming
    today,       \* the date
    files,       \* file name -> sequence of lines
    current,     \* name of the file that current_file is open on
    size,        \* current_size
    sequence,    \* sequence
    rotations,   \* metrics.rotation_count
    writer,      \* thread -> where it is in write_all, its line, a name it holds
    written      \* lines whose write_all has returned

rotateVars == <<naming, today, files, current, size, sequence, rotations, writer, written>>

LineOf(t, n, len) == [by |-> t, nr |-> n, len |-> len]
Length(lines) == FoldLeft(LAMBDA n, l : n + l.len, 0, lines)
BetweenLines(t) == [at |-> "rest", line |-> LineOf(t, 0, 0), name |-> <<>>]

\* get_next_filename, with the number of the sequence that it takes
NextFilename(seq) ==
    CASE naming = "Simple" -> <<"log">>
      [] naming = "Dated" -> <<"log", today>>
      [] naming = "Sequential" -> <<"log", seq + 1>>
      [] naming = "Full" -> <<"log", today, seq + 1>>

\* SizeRotatingWriter::new makes the first file.
RotateInit ==
    /\ naming \in {"Simple", "Dated", "Sequential", "Full"}
    /\ today = 0
    /\ current = NextFilename(0)
    /\ files = [n \in {current} |-> <<>>]
    /\ size = 0 /\ sequence = 1 /\ rotations = 1
    /\ writer = [t \in LogThreads |-> BetweenLines(t)]
    /\ written = {}

WriterAt(t, p) == writer[t].at = p
WriterGoes(t, p) == writer' = [writer EXCEPT ![t].at = p]

TooLarge(len) == size + len > MaxFileSize

\* The size is looked at and its lock given back.
CheckSize(t) ==
    /\ WriterAt(t, "rest") /\ writer[t].line.nr < MaxLines
    /\ \E len \in LineSizes :
          writer' = [writer EXCEPT ![t].line = LineOf(t, @.nr + 1, len),
                                   ![t].at = IF TooLarge(len) THEN "rotate" ELSE "write"]
    /\ UNCHANGED <<naming, today, files, current, size, sequence, rotations, written>>

TakeNameTwice(t) ==
    /\ WriterAt(t, "rotate")
    /\ writer' = [writer EXCEPT ![t].name = NextFilename(sequence), ![t].at = "create"]
    /\ sequence' = IF size = 0 THEN sequence ELSE sequence + 1
    /\ UNCHANGED <<naming, today, files, current, size, rotations, written>>

TakeName(t) ==
    /\ WriterAt(t, "rotate")
    /\ writer' = [writer EXCEPT ![t].name = NextFilename(sequence), ![t].at = "create"]
    /\ sequence' = sequence + 1
    /\ UNCHANGED <<naming, today, files, current, size, rotations, written>>

\* File::create empties a file of that name.
CreateFile(t) ==
    /\ WriterAt(t, "create")
    /\ files' = [n \in DOMAIN files \cup {writer[t].name} |->
                    IF n = writer[t].name THEN <<>> ELSE files[n]]
    /\ WriterGoes(t, "swap")
    /\ UNCHANGED <<naming, today, current, size, sequence, rotations, written>>

\* Under the file's lock the file is replaced and the size set to zero.
SwapFile(t) ==
    /\ WriterAt(t, "swap")
    /\ current' = writer[t].name
    /\ size' = 0
    /\ rotations' = rotations + 1
    /\ WriterGoes(t, "write")
    /\ UNCHANGED <<naming, today, files, sequence, written>>

\* Under the file's lock the line is written and its length added.
WriteLine(t) ==
    /\ WriterAt(t, "write")
    /\ files' = [files EXCEPT ![current] = Append(@, writer[t].line)]
    /\ size' = size + writer[t].line.len
    /\ written' = written \cup {writer[t].line}
    /\ WriterGoes(t, "rest")
    /\ UNCHANGED <<naming, today, current, sequence, rotations>>

NextDate ==
    /\ today < MaxDate
    /\ today' = today + 1
    /\ UNCHANGED <<naming, files, current, size, sequence, rotations, writer, written>>

RotateNext ==
    \/ \E t \in LogThreads : CheckSize(t) \/ TakeName(t) \/ CreateFile(t) \/ SwapFile(t) \/ WriteLine(t)
    \/ NextDate

Numbered == naming \in {"Sequential", "Full"}

\* With a number in the file's name no rotation loses a line, whatever threads
\* rotate at the same time: each line that write_all has written is in exactly
\* one file, once, and the lines of a thread are in no file in another order.
LinesKept ==
    Numbered =>
       /\ \A l \in written :
             Cardinality({<<n, i>> \in UNION {{n} \X DOMAIN files[n] : n \in DOMAIN files} :
                             files[n][i] = l}) = 1
       /\ \A n \in DOMAIN files : \A i, j \in DOMAIN files[n] :
             (i < j /\ files[n][i].by = files[n][j].by) => files[n][i].nr < files[n][j].nr

\* Threads that looked at the size before another wrote can each add their line
\* to a file that is full: it is at most so much larger than max_size, or than
\* its only line if that is longer.
FilesBounded ==
    Numbered => \A n \in DOMAIN files :
       Length(files[n]) <= Max({MaxFileSize} \cup LineSizes)
                              + (Cardinality(LogThreads) - 1) * Max(LineSizes)

\* current_size is the length of the file that is being written, so that the
\* check before a write is about that file.
SizeExact == Numbered => size = Length(files[current])

\* Writers that rotate at the same time keep every line, in files of bounded
\* size whose size is known (rotation.rs, write_all and rotate).
RotationKeepsLines == LinesKept /\ FilesBounded /\ SizeExact

(***************************************************************************)
(* Old files: the appender and the hourly task                             *)
(***************************************************************************)
VARIABLES
    policy,      \* RotationPolicy; by size it is daily too
    day,         \* time, in days; the task runs between any two
    dir,         \* file name -> lines, each the day it was written, and mtime
    handle,      \* file the appender has open
    gone,        \* the open file was removed: what is written to it is lost
    logged,      \* days of the lines that were written, with a number
    cleaner,        \* file being compressed and what was read of it
    idled        \* the one file of "never" was left alone for over a day

oldVars == <<policy, day, dir, handle, gone, logged, cleaner, idled>>

Plain(d) == <<"zumic.log", d>>   \* of a day; 0 for the one file of "never"
Archive == <<"zumic.log.gz">>
FileFor(d) == Plain(IF policy = "never" THEN 0 ELSE d)
NoCleaning == [file |-> <<>>, lines |-> <<>>, at |-> "idle"]
NewFile(d) == [lines |-> <<>>, mtime |-> d]
FilePut(f, n, x) == [m \in DOMAIN f \cup {n} |-> IF m = n THEN x ELSE f[m]]
FileDrop(f, N) == [m \in DOMAIN f \ N |-> f[m]]

OldInit ==
    /\ policy \in {"daily", "never"}
    /\ day = 1
    /\ handle = FileFor(1)
    /\ dir = [n \in {handle} |-> NewFile(1)]
    /\ gone = FALSE
    /\ logged = {}
    /\ cleaner = NoCleaning
    /\ idled = FALSE

\* The rolling appender opens a file for a new day before it writes.
AppendLine ==
    /\ Cardinality(logged) < MaxLogged
    /\ LET line == <<day, Cardinality(logged)>>
           new == FileFor(day)
           lost == gone /\ new = handle
           old == IF new \in DOMAIN dir THEN dir[new].lines ELSE <<>>
       IN  /\ logged' = logged \cup {line}
           /\ handle' = new
           /\ gone' = lost
           /\ dir' = IF lost THEN dir
                     ELSE FilePut(dir, new, [lines |-> Append(old, line), mtime |-> day])
    /\ UNCHANGED <<policy, day, cleaner, idled>>

Midnight ==
    /\ day < MaxDay
    /\ day' = day + 1
    /\ idled' = (idled \/ (policy = "never" /\ handle \in DOMAIN dir /\ day' - dir[handle].mtime > 1))
    /\ UNCHANGED <<policy, dir, handle, gone, logged, cleaner>>

\* compress_old_logs looks for the extension "log"; the file of a day ends in
\* its date.
Compressible(n) == n = Plain(0) /\ n \in DOMAIN dir /\ day - dir[n].mtime > 1

ReadOld ==
    /\ cleaner.at = "idle"
    /\ \E n \in DOMAIN dir : Compressible(n) /\ cleaner' = [file |-> n, lines |-> dir[n].lines, at |-> "write"]
    /\ UNCHANGED <<policy, day, dir, handle, gone, logged, idled>>

WriteArchive ==
    /\ cleaner.at = "write"
    /\ dir' = FilePut(dir, Archive, [lines |-> cleaner.lines, mtime |-> day])
    /\ cleaner' = [cleaner EXCEPT !.at = "remove"]
    /\ UNCHANGED <<policy, day, handle, gone, logged, idled>>

RemoveOld ==
    /\ cleaner.at = "remove"
    /\ dir' = FileDrop(dir, {cleaner.file})
    /\ gone' = (gone \/ cleaner.file = handle)
    /\ cleaner' = NoCleaning
    /\ UNCHANGED <<policy, day, handle, logged, idled>>

OldFilesSoon == {n \in DOMAIN dir : day - dir[n].mtime >= Retention}

\* apply_retention_policy as the task calls it: by age alone
OldFiles == {n \in DOMAIN dir : day - dir[n].mtime > Retention}

ApplyRetention ==
    /\ cleaner.at = "idle"
    /\ OldFiles # {}
    /\ dir' = FileDrop(dir, OldFiles)
    /\ gone' = (gone \/ handle \in OldFiles)
    /\ UNCHANGED <<policy, day, handle, logged, cleaner, idled>>

\* The process ends at any point and starts again: the appender opens its file
\* for appending.
RestartLog ==
    /\ handle' = FileFor(day)
    /\ dir' = IF handle' \in DOMAIN dir THEN dir ELSE FilePut(dir, handle', NewFile(day))
    /\ gone' = FALSE
    /\ cleaner' = NoCleaning
    /\ UNCHANGED <<policy, day, logged, idled>>

OldNext ==
    \/ AppendLine \/ Midnight \/ ReadOld \/ WriteArchive \/ RemoveOld \/ ApplyRetention \/ RestartLog

\* A line is on disk, in a file or in an archive, for as long as the retention
\* says, whenever the task runs and wherever the process stops; unless the one
\* file of "never" was left alone for more than a day: the task then removes
\* the file that the appender goes on writing to.
RecentKept ==
    ~idled => \A l \in logged :
                 day - l[1] <= Retention => \E n \in DOMAIN dir : Contains(dir[n].lines, l)

(***************************************************************************)
(* Slow queries                                                            *)
(***************************************************************************)
VARIABLES
    slowConfig,  \* [threshold, own: threshold of the command or -1, rate]
    withArgs,    \* queries have arguments to show
    readers,     \* thread -> how often it holds SLOW_LOG_CONFIG for reading
    writing,     \* an updater that waits for the lock or holds it, or "none"
    tracker,     \* thread -> where it is in finish, how long its query took
    total,       \* total_slow_queries
    sampled,     \* sampled_queries
    perCommand,  \* command_counters
    slow,        \* queries that were found to be slow
    updates      \* changes made

slowVars == <<slowConfig, withArgs, readers, writing, tracker, total, sampled, perCommand, slow, updates>>

Rates == {"none", "some", "all"}
SlowCommands == {"GET", "UNKNOWN"}
Resting == [at |-> "rest", command |-> "GET", left |-> MaxQueries]

\* Queries have arguments, or somebody changes the configuration: together
\* they can block each other for ever.
SlowInit ==
    /\ slowConfig = [threshold |-> 1, own |-> -1, rate |-> "all"]
    /\ withArgs \in BOOLEAN
    /\ readers = [t \in Trackers |-> 0]
    /\ writing = "none"
    /\ tracker = [t \in Trackers |-> Resting]
    /\ total = 0 /\ sampled = 0 /\ slow = 0
    /\ perCommand = [c \in {} |-> 0]
    /\ updates = IF withArgs THEN MaxUpdates ELSE 0

TrackerAt(t, p) == tracker[t].at = p
TrackerGoes(t, p) == tracker' = [tracker EXCEPT ![t].at = p]

\* A writer that waits keeps new readers out, the ones that read already too.
ReadLock(t) == writing = "none" /\ readers' = [readers EXCEPT ![t] = @ + 1]
Unlock(t, n) == readers' = [readers EXCEPT ![t] = @ - n]

\* SlowQueryLayer::on_close knows no command and no threshold of its own.
ThresholdOf(c) == IF c = "GET" /\ slowConfig.own >= 0 THEN slowConfig.own ELSE slowConfig.threshold

\* The lock is taken and held; a slow query is recorded or sampled out.
BeginFinish(t) ==
    /\ TrackerAt(t, "rest") /\ tracker[t].left > 0
    /\ ReadLock(t)
    /\ \E d \in Timings, c \in SlowCommands :
          LET isSlow == d > ThresholdOf(c)
          IN  /\ slow' = slow + (IF isSlow THEN 1 ELSE 0)
              /\ \E p \in CASE ~isSlow -> {"release"}
                            [] slowConfig.rate = "all" -> {"record"}
                            [] slowConfig.rate = "none" -> {"sample"}
                            [] OTHER -> {"record", "sample"} :
                    tracker' = [tracker EXCEPT ![t] = [at |-> p, command |-> c, left |-> @.left - 1]]
    /\ UNCHANGED <<slowConfig, withArgs, writing, total, sampled, perCommand, updates>>

RecordSampled(t) ==
    /\ TrackerAt(t, "sample")
    /\ sampled' = sampled + 1
    /\ TrackerGoes(t, "release")
    /\ UNCHANGED <<slowConfig, withArgs, readers, writing, total, perCommand, slow, updates>>

\* record_slow_query: the total, then the command's counter under its lock
RecordTotal(t) ==
    /\ TrackerAt(t, "record")
    /\ total' = total + 1
    /\ TrackerGoes(t, "count")
    /\ UNCHANGED <<slowConfig, withArgs, readers, writing, sampled, perCommand, slow, updates>>

CountedOnce(c) == FilePut(perCommand, c, (IF c \in DOMAIN perCommand THEN perCommand[c] ELSE 0) + 1)

ArgsShown(t) == tracker[t].command = "GET"

HasArgs(t) == withArgs /\ tracker[t].command = "GET"

RecordCounter(t) ==
    /\ TrackerAt(t, "count")
    /\ perCommand' = CountedOnce(tracker[t].command)
    /\ TrackerGoes(t, IF HasArgs(t) THEN "args" ELSE "release")
    /\ UNCHANGED <<slowConfig, withArgs, readers, writing, total, sampled, slow, updates>>

\* with_args takes the lock a second time.
ShowArgs(t) ==
    /\ TrackerAt(t, "args")
    /\ ReadLock(t)
    /\ TrackerGoes(t, "shown")
    /\ UNCHANGED <<slowConfig, withArgs, writing, total, sampled, perCommand, slow, updates>>

EndFinish(t) ==
    /\ tracker[t].at \in {"shown", "release"}
    /\ Unlock(t, IF TrackerAt(t, "shown") THEN 2 ELSE 1)
    /\ TrackerGoes(t, "rest")
    /\ UNCHANGED <<slowConfig, withArgs, writing, total, sampled, perCommand, slow, updates>>

\* update_config and set_command_threshold
WaitToWrite(u) ==
    /\ updates < MaxUpdates /\ writing = "none"
    /\ writing' = u
    /\ UNCHANGED <<slowConfig, withArgs, readers, tracker, total, sampled, perCommand, slow, updates>>

Updated(u, config) ==
    /\ writing = u /\ \A t \in Trackers : readers[t] = 0
    /\ slowConfig' = config
    /\ writing' = "none"
    /\ updates' = updates + 1
    /\ UNCHANGED <<withArgs, readers, tracker, total, sampled, perCommand, slow>>

UpdateConfig(u) ==
    \E th \in Timings, own \in Timings \cup {-1}, r \in Rates :
       Updated(u, [threshold |-> th, own |-> own, rate |-> r])

SetCommandThreshold(u) == \E th \in Timings : Updated(u, [slowConfig EXCEPT !.own = th])

FinishStep(t) ==
    \/ RecordSampled(t) \/ RecordTotal(t) \/ RecordCounter(t) \/ ShowArgs(t) \/ EndFinish(t)

SlowNext ==
    \/ \E t \in Trackers : BeginFinish(t) \/ FinishStep(t)
    \/ \E u \in Updaters : WaitToWrite(u) \/ UpdateConfig(u) \/ SetCommandThreshold(u)

\* Threads run on; nothing makes one begin.
SlowFair ==
    /\ \A t \in Trackers : WF_slowVars(FinishStep(t))
    /\ \A u \in Updaters : WF_slowVars(UpdateConfig(u) \/ SetCommandThreshold(u))

\* Every slow query is counted once: sampled out or in the total; and the
\* counters of the commands add up to the total, but for those under way.
SlowCountsExact ==
    LET under(S) == Cardinality({t \in Trackers : tracker[t].at \in S})
    IN  /\ total + sampled + under({"record", "sample"}) = slow
        /\ MapThenSumSet(LAMBDA c : perCommand[c], DOMAIN perCommand) + under({"count"}) = total

\* finish returns, and so does a change of the configuration: when queries have
\* no arguments to show, or nobody changes the configuration.
FinishReturns ==
    /\ \A t \in Trackers : ~TrackerAt(t, "rest") ~> TrackerAt(t, "rest")
    /\ writing # "none" ~> writing = "none"

\* The log of slow queries counts each of them once, and finishing a query
\* holds nobody up for ever (slow_log.rs).
SlowLogSound == []SlowCountsExact /\ FinishReturns
=============================================================================
