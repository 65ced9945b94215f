--------------------------- MODULE ResourceMonitor ---------------------------
(***************************************************************************)
(* ResourceMonitorScheduler and readProcFs: with every tick of its timer   *)
(* the activity walks through /proc, reads the files stat and statm of     *)
(* each process, and of each thread of the observed ones, through one      *)
(* static buffer, and sends what it found.  Processes and threads come and *)
(* go between any two of these steps.                                      *)
(*                                                                         *)
(* A task is <<p, t>>: thread t of the process with pid p, or the process  *)
(* itself if t = 0.  Every process that starts gets a number of its own,   *)
(* so <<n, t>> tells whose file was read although pids are reused.         *)
(***************************************************************************)
EXTENDS Naturals

CONSTANTS Pids,         \* 1..n: pids in the order of /proc
          Tids,         \* 1..n: the threads of a process
          Configured,   \* setConfiguration: the pids to observe
          Watched,      \* the processes with a name of unresolvedNames
          MaxStarts,    \* bound: processes started
          MaxSamples    \* bound: ticks of the timer

ASSUME MonitorAssumption == /\ Pids \subseteq Nat \ {0}
                            /\ Tids \subseteq Nat \ {0}
                            /\ 1 \in Tids
                            /\ MaxStarts \in Nat
                            /\ Watched \subseteq 1..MaxStarts

VARIABLES
    process,     \* the process with each pid, 0 if there is none
    threads,     \* its threads
    spelling,    \* of each process's name
    started,     \* processes started so far
    since,       \* history: the tasks that exist since the walk began
    scan,        \* what the activity does next
    level,       \* "process" or "thread": which loop it is in
    entry,       \* of each loop: the entry of its directory it is at
    info,        \* of each loop: its statInfo and statmInfo
    gFileDataBuffer,
    observedProcesses,
    report,      \* the entries of resourceInfoMessage
    samples

envVars == <<process, threads, spelling, started>>
rVars == <<envVars, since, scan, level, entry, info, gFileDataBuffer,
           observedProcesses, report, samples>>

-----------------------------------------------------------------------------
Levels == {"process", "thread"}

(* How the name looks to sscanf, which takes it to end at the first ")":   *)
(* without one, with one, or with nothing before it.                       *)
Spellings == {"plain", "bracket", "blank"}

Nobody == <<0, 0>>

(* A number of a file: whose it is, and how often it was multiplied by its *)
(* unit.                                                                   *)
Number(owner) == [of |-> owner, scaled |-> 0]

Scale(number) == [number EXCEPT !.scaled = @ + 1]

NoInfo == [pid |-> 0, name |-> Nobody, spelled |-> "plain",
           time |-> Number(Nobody), rss |-> Number(Nobody)]

Tasks == {<<p, t>> : p \in {q \in Pids : process[q] # 0}, t \in Tids \cup {0}}

Existing == {task \in Tasks : task[2] = 0 \/ task[2] \in threads[task[1]]}

(* entryInfo, statInfo, statmInfo and resourceInfoMessage of an iteration. *)
Locals == /\ entry' = [l \in Levels |-> 0]
          /\ info' = [l \in Levels |-> NoInfo]
          /\ report' = {}

ResourceInit ==
    /\ process = [p \in Pids |-> 0]
    /\ threads = [p \in Pids |-> {}]
    /\ spelling = [n \in 1..MaxStarts |-> "plain"]
    /\ started = 0
    /\ since = {}
    /\ scan = "tick" /\ level = "process"
    /\ entry = [l \in Levels |-> 0]
    /\ info = [l \in Levels |-> NoInfo]
    /\ gFileDataBuffer = [file |-> "none", id |-> 0, of |-> Nobody]
    /\ observedProcesses = Configured
    /\ report = {}
    /\ samples = 0

-----------------------------------------------------------------------------
(* The system.                                                             *)

ProcessStarts(p) ==
    /\ process[p] = 0
    /\ started < MaxStarts
    /\ started' = started + 1
    /\ process' = [process EXCEPT ![p] = started']
    /\ \E spelled \in Spellings, more \in SUBSET Tids :
          /\ spelling' = [spelling EXCEPT ![started'] = spelled]
          /\ threads' = [threads EXCEPT ![p] = more \cup {1}]

ProcessExits(p) ==
    /\ process[p] # 0
    /\ process' = [process EXCEPT ![p] = 0]
    /\ threads' = [threads EXCEPT ![p] = {}]
    /\ UNCHANGED <<spelling, started>>

ThreadExits(p) ==
    /\ \E t \in threads[p] \ {1} : threads' = [threads EXCEPT ![p] = @ \ {t}]
    /\ UNCHANGED <<process, spelling, started>>

System ==
    /\ \E p \in Pids : ProcessStarts(p) \/ ProcessExits(p) \/ ThreadExits(p)
    /\ since' = since \cap Existing'
    /\ UNCHANGED <<scan, level, entry, info, gFileDataBuffer,
                   observedProcesses, report, samples>>

-----------------------------------------------------------------------------
(* The activity.                                                           *)

(* The timer: collectSystemInfo, and collectProcessInfo up to its loop.    *)
Tick ==
    /\ scan = "tick"
    /\ samples < MaxSamples
    /\ samples' = samples + 1
    /\ scan' = "readdir"
    /\ since' = Existing
    /\ UNCHANGED <<envVars, level, entry, info, gFileDataBuffer,
                   observedProcesses, report>>

(* The task that an entry of the current directory stands for.             *)
TaskAt(e) == IF level = "process" THEN <<e, 0>>
                                  ELSE <<info["process"].pid, e>>

Entries == IF level = "process" THEN Pids ELSE Tids

(* readdir does not pass over what existed all the time; it may give what  *)
(* is gone.                                                                *)
NotPassedOver(next) ==
    \A e \in Entries : e > entry[level] /\ e < next => TaskAt(e) \notin since

NextEntry ==
    /\ scan = "readdir"
    /\ \E e \in Entries :
          /\ e > entry[level]
          /\ NotPassedOver(e)
          /\ entry' = [entry EXCEPT ![level] = e]
    /\ scan' = "stat"
    /\ UNCHANGED <<envVars, since, level, info, gFileDataBuffer,
                   observedProcesses, report, samples>>

(* readProcEntry: the buffer keeps what it held if the file is gone.       *)
Read == TaskAt(entry[level]) \in Existing

ReadProcEntry(file) ==
    LET task == TaskAt(entry[level]) IN
    IF Read
      THEN gFileDataBuffer' = [file |-> file, id |-> entry[level],
                               of |-> <<process[task[1]], task[2]>>]
      ELSE UNCHANGED gFileDataBuffer

(* sscanf of whatever the buffer holds: it stops where the text is not     *)
(* that of a stat file or the name ends at a bracket of its own, and the   *)
(* fields after it stay those of the entry before.                         *)
ScanStat(old, buffer) ==
    LET spelled == spelling[buffer.of[1]]
        pid == [old EXCEPT !.pid = buffer.id, !.spelled = spelled]
        name == [pid EXCEPT !.name = buffer.of]
    IN  IF buffer.file # "stat" THEN old
        ELSE IF spelled = "blank" THEN pid
        ELSE IF spelled = "bracket" THEN name
        ELSE [name EXCEPT !.time = Number(buffer.of)]

ScanStatm(old, buffer) ==
    IF buffer.file = "statm" THEN [old EXCEPT !.rss = Number(buffer.of)]
                             ELSE old

(* The first half of readProcFs; the times are scaled, read or not.        *)
ReadStat ==
    /\ scan = "stat"
    /\ ReadProcEntry("stat")
    /\ LET scanned == ScanStat(info[level], gFileDataBuffer')
       IN  info' = [info EXCEPT ![level] = [scanned EXCEPT !.time = Scale(@)]]
    /\ scan' = IF Read THEN "statm" ELSE "statUnread"
    /\ UNCHANGED <<envVars, since, level, entry, observedProcesses, report,
                   samples>>

(* updateObservedProcList: the name, stale or not, is one to be watched.   *)
Observe(fields) ==
    observedProcesses \cup
       IF fields.name[1] \in Watched /\ spelling[fields.name[1]] = "plain"
         THEN {fields.pid} ELSE {}

(* add_process with the threads of an observed process, which come before  *)
(* the next process, or add_threads.                                       *)
Report(fields) ==
    /\ report' = report \cup {[task |-> TaskAt(entry[level]), fields |-> fields]}
    /\ observedProcesses' = IF level = "process" THEN Observe(fields)
                                                 ELSE observedProcesses
    /\ IF level = "process" /\ fields.pid \in observedProcesses'
         THEN level' = "thread" ELSE UNCHANGED level
    /\ info' = [info EXCEPT ![level] = fields]
    /\ UNCHANGED entry

(* Faulty variant: the second file is read in any case, and decides alone. *)
StatForgotten == TRUE

(* result, after the first file.                                           *)
StatRead == scan = "statm"

(* The second half of readProcFs, and what its caller does with the entry. *)
ReadStatm ==
    /\ scan \in {"statm", "statUnread"}
    /\ IF StatRead THEN ReadProcEntry("statm") ELSE UNCHANGED gFileDataBuffer
    /\ LET scanned == ScanStatm(info[level], gFileDataBuffer')
           fields == [scanned EXCEPT !.rss = Scale(@)]
       IN  IF StatRead /\ Read
             THEN Report(fields)
             ELSE /\ info' = [info EXCEPT ![level] = fields]
                  /\ UNCHANGED <<report, observedProcesses, level, entry>>
    /\ scan' = "readdir"
    /\ UNCHANGED <<envVars, since, samples>>

(* dp is NULL, or the directory could not be opened: back to the loop over *)
(* the processes, or on to sendResourceMonitorMessage.                     *)
EndOfDirectory ==
    /\ scan = "readdir"
    /\ \A e \in Entries : e > entry[level] => TaskAt(e) \notin since
    /\ IF level = "thread"
         THEN /\ level' = "process"
              /\ info' = [info EXCEPT !["thread"] = NoInfo]
              /\ entry' = [entry EXCEPT !["thread"] = 0]
              /\ UNCHANGED scan
         ELSE /\ scan' = "send"
              /\ UNCHANGED <<level, info, entry>>
    /\ UNCHANGED <<envVars, since, gFileDataBuffer, observedProcesses, report,
                   samples>>

(* collectContextInfo reads /proc/stat into the same buffer; the local     *)
(* variables end with the iteration.                                       *)
SendResourceMonitorMessage ==
    /\ scan = "send"
    /\ gFileDataBuffer' = [file |-> "cpu", id |-> 0, of |-> Nobody]
    /\ scan' = "tick"
    /\ since' = {}
    /\ Locals
    /\ UNCHANGED <<envVars, level, observedProcesses, samples>>

ResourceNext == \/ System
                \/ Tick
                \/ NextEntry
                \/ ReadStat
                \/ ReadStatm
                \/ EndOfDirectory
                \/ SendResourceMonitorMessage

-----------------------------------------------------------------------------
(* A sample tells what it should: all processes that existed while it was  *)
(* taken are in it, with all such threads of the observed ones, and the    *)
(* times of an entry are those of one process or thread that was there     *)
(* under that id, in milliseconds, with its name, and the memory is one's  *)
(* that was there under that id, in bytes.  This cannot be said of a       *)
(* name with a bracket or without a character: sscanf stops in it, and the *)
(* times are those of the entry before, multiplied again.                  *)
SampleTrue ==
    scan = "send" =>
       /\ \A task \in since :
             task[2] = 0 \/ task[1] \in observedProcesses
             => \E e \in report : e.task = task
       /\ \A e \in report :
             LET f == e.fields IN
             /\ f.pid = IF e.task[2] = 0 THEN e.task[1] ELSE e.task[2]
             /\ f.rss.scaled = 1
             /\ f.rss.of[2] = e.task[2]
             /\ f.spelled = "plain" =>
                   /\ f.time = [of |-> f.name, scaled |-> 1]
                   /\ f.name[2] = e.task[2]
             /\ e.task \in since =>
                   /\ f.rss.of[1] = process[e.task[1]]
                   /\ f.spelled = "plain" => f.name[1] = process[e.task[1]]
=============================================================================
