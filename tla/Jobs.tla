-------------------------------- MODULE Jobs --------------------------------
(***************************************************************************)
(* The commands a process runs for the user (core/src/jobs.rs): the row of *)
(* a job in the database, the task that runs its command and waits for it, *)
(* the two readers that store what the command writes, and the groups of   *)
(* which one job at a time may run.                                        *)
(*                                                                         *)
(* Jobs with a group all have the same one.  Output is counted in lines;   *)
(* redaction, line ends and the moments a reader flushes (200 ms, 16 KiB)  *)
(* are left out: a reader may flush whenever it holds a line.  Waiting for *)
(* one's own child is taken not to fail.                                   *)
(***************************************************************************)
EXTENDS Integers

CONSTANTS
    Jobs,           \* identities of jobs
    JbExclusive,    \* bound: whether a job has the group
    JbWriters,      \* bound: jobs whose commands write something
    JbMaxLines,     \* bound: lines a command writes to a stream
    JbMaxFaults     \* bound: failed writes and reads, the process that dies

ASSUME JobsAssumption ==
  JbExclusive \subseteq BOOLEAN /\ JbMaxLines \in Nat /\ JbMaxFaults \in Nat

VARIABLES
    jbRow,      \* the rows of the jobs
    jbTask,     \* the task of each job, and the call that starts it
    jbCommand,  \* the command of each job: "none", "running", "ok" or "bad"
    jbPipe,     \* its streams
    jbReader,   \* their readers
    jbHeld,     \* running: the group is in the set of the process
    jbFaults    \* bound

jbVars == <<jbRow, jbTask, jbCommand, jbPipe, jbReader, jbHeld, jbFaults>>

Streams == {"stdout", "stderr"}
Ended == {"ok", "bad"}
JobOver == {"succeeded", "failed"}

JobsTypeOK ==
  /\ jbRow \in [Jobs -> [status : {"none", "running"} \cup JobOver, error : BOOLEAN,
                         output : [Streams -> 0..JbMaxLines]]]
  /\ jbTask \in [Jobs -> [at : {"none", "create", "spawn", "wait", "drain", "finish", "broken",
                                "free", "over", "died"}, exclusive : BOOLEAN]]
  /\ jbCommand \in [Jobs -> {"none", "running"} \cup Ended]
  /\ jbPipe \in [Jobs -> [Streams -> [open : BOOLEAN, written : 0..JbMaxLines]]]
  /\ jbReader \in [Jobs -> [Streams -> [at : {"none", "reading", "ended", "failed"},
                                        read : 0..JbMaxLines, held : 0..JbMaxLines]]]
  /\ jbHeld \in BOOLEAN /\ jbFaults \in 0..JbMaxFaults

JobsInit ==
  /\ jbRow = [j \in Jobs |-> [status |-> "none", error |-> FALSE,
                              output |-> [s \in Streams |-> 0]]]
  /\ jbTask = [j \in Jobs |-> [at |-> "none", exclusive |-> FALSE]]
  /\ jbCommand = [j \in Jobs |-> "none"]
  /\ jbPipe = [j \in Jobs |-> [s \in Streams |-> [open |-> FALSE, written |-> 0]]]
  /\ jbReader = [j \in Jobs |-> [s \in Streams |-> [at |-> "none", read |-> 0, held |-> 0]]]
  /\ jbHeld = FALSE /\ jbFaults = 0

JbFault == jbFaults < JbMaxFaults /\ jbFaults' = jbFaults + 1
JbGoes(j, from, to) == jbTask[j].at = from /\ jbTask' = [jbTask EXCEPT ![j].at = to]
-----------------------------------------------------------------------------
(* start_process_job, start_exclusive_process_job.                         *)

\* The group is taken before the row exists; a call that finds it taken ends.
Reserve(j, exclusive) ==
  /\ jbTask[j].at = "none"
  /\ exclusive => ~jbHeld
  /\ jbTask' = [jbTask EXCEPT ![j] = [at |-> "create", exclusive |-> exclusive]]
  /\ jbHeld' = (jbHeld \/ exclusive)
  /\ UNCHANGED <<jbRow, jbCommand, jbPipe, jbReader, jbFaults>>

CreateJob(j) ==
  /\ JbGoes(j, "create", "spawn")
  /\ jbRow' = [jbRow EXCEPT ![j].status = "running"]
  /\ UNCHANGED <<jbCommand, jbPipe, jbReader, jbHeld, jbFaults>>

CreateJobFails(j) ==
  /\ JbGoes(j, "create", "over") /\ JbFault
  /\ jbHeld' = (jbHeld /\ ~jbTask[j].exclusive)
  /\ UNCHANGED <<jbRow, jbCommand, jbPipe, jbReader>>
-----------------------------------------------------------------------------
(* The task, run_process_command.                                          *)

Spawn(j) ==
  /\ JbGoes(j, "spawn", "wait")
  /\ jbCommand' = [jbCommand EXCEPT ![j] = "running"]
  /\ jbPipe' = [jbPipe EXCEPT ![j] = [s \in Streams |-> [open |-> TRUE, written |-> 0]]]
  /\ jbReader' = [jbReader EXCEPT ![j] =
                    [s \in Streams |-> [at |-> "reading", read |-> 0, held |-> 0]]]
  /\ UNCHANGED <<jbRow, jbHeld, jbFaults>>

SpawnFails(j) ==
  /\ JbGoes(j, "spawn", "broken") /\ JbFault
  /\ UNCHANGED <<jbRow, jbCommand, jbPipe, jbReader, jbHeld>>

WaitForCommand(j) ==
  /\ jbCommand[j] \in Ended
  /\ JbGoes(j, "wait", "drain")
  /\ UNCHANGED <<jbRow, jbCommand, jbPipe, jbReader, jbHeld, jbFaults>>

\* Both handles are awaited.  Mutant: the one of stdout alone.
StdoutRead(reader) == reader["stdout"].at \in {"ended", "failed"}
AllRead(reader) == \A s \in Streams : reader[s].at \in {"ended", "failed"}
Drain(j) ==
  /\ AllRead(jbReader[j])
  /\ JbGoes(j, "drain", IF \E s \in Streams : jbReader[j][s].at = "failed" THEN "broken"
                        ELSE "finish")
  /\ UNCHANGED <<jbRow, jbCommand, jbPipe, jbReader, jbHeld, jbFaults>>

FinishJob(j) ==
  /\ JbGoes(j, "finish", "free")
  /\ jbRow' = [jbRow EXCEPT ![j].status = IF jbCommand[j] = "ok" THEN "succeeded" ELSE "failed"]
  /\ UNCHANGED <<jbCommand, jbPipe, jbReader, jbHeld, jbFaults>>

FinishJobFails(j) ==
  /\ JbGoes(j, "finish", "broken") /\ JbFault
  /\ UNCHANGED <<jbRow, jbCommand, jbPipe, jbReader, jbHeld>>

\* The error is appended to the output and the row; both writes may fail, unnoticed.
RecordError(j) ==
  /\ JbGoes(j, "broken", "free")
  /\ jbRow' = [jbRow EXCEPT ![j].status = "failed", ![j].error = TRUE]
  /\ UNCHANGED <<jbCommand, jbPipe, jbReader, jbHeld, jbFaults>>

RecordErrorFails(j) ==
  /\ JbGoes(j, "broken", "free") /\ JbFault
  /\ UNCHANGED <<jbRow, jbCommand, jbPipe, jbReader, jbHeld>>

FreeGroup(j) ==
  /\ JbGoes(j, "free", "over")
  /\ jbHeld' = (jbHeld /\ ~jbTask[j].exclusive)
  /\ UNCHANGED <<jbRow, jbCommand, jbPipe, jbReader, jbFaults>>
-----------------------------------------------------------------------------
(* stream_reader.                                                          *)

Read(j, s) ==
  /\ jbReader[j][s].at = "reading" /\ jbReader[j][s].read < jbPipe[j][s].written
  /\ jbReader' = [jbReader EXCEPT ![j][s] =
                    [at |-> "reading", read |-> @.read + 1, held |-> @.held + 1]]
  /\ UNCHANGED <<jbRow, jbTask, jbCommand, jbPipe, jbHeld, jbFaults>>

Stored(j, s) == [jbRow EXCEPT ![j].output[s] = @ + jbReader[j][s].held]

Flush(j, s) ==
  /\ jbReader[j][s].at = "reading" /\ jbReader[j][s].held > 0
  /\ jbRow' = Stored(j, s)
  /\ jbReader' = [jbReader EXCEPT ![j][s].held = 0]
  /\ UNCHANGED <<jbTask, jbCommand, jbPipe, jbHeld, jbFaults>>

\* The stream has ended: what is held is stored, the end of a line or not.
LastFlush(j, s) ==
  /\ jbReader[j][s].at = "reading" /\ ~jbPipe[j][s].open
  /\ jbReader[j][s].read = jbPipe[j][s].written
  /\ jbRow' = Stored(j, s)
  /\ jbReader' = [jbReader EXCEPT ![j][s] = [at |-> "ended", read |-> @.read, held |-> 0]]
  /\ UNCHANGED <<jbTask, jbCommand, jbPipe, jbHeld, jbFaults>>

\* The stream cannot be read, or what was read cannot be stored.
ReaderFails(j, s) ==
  /\ jbReader[j][s].at = "reading" /\ JbFault
  /\ jbReader' = [jbReader EXCEPT ![j][s].at = "failed"]
  /\ UNCHANGED <<jbRow, jbTask, jbCommand, jbPipe, jbHeld>>
-----------------------------------------------------------------------------
(* The command.  A process it started may keep a stream open after it.     *)

CommandWrites(j, s) ==
  /\ j \in JbWriters /\ jbPipe[j][s].open /\ jbPipe[j][s].written < JbMaxLines
  /\ jbReader[j][s].at = "reading"
  /\ jbPipe' = [jbPipe EXCEPT ![j][s].written = @ + 1]
  /\ UNCHANGED <<jbRow, jbTask, jbCommand, jbReader, jbHeld, jbFaults>>

StreamCloses(j, s) ==
  /\ jbPipe[j][s].open
  /\ jbPipe' = [jbPipe EXCEPT ![j][s].open = FALSE]
  /\ UNCHANGED <<jbRow, jbTask, jbCommand, jbReader, jbHeld, jbFaults>>

CommandEnds(j, how) ==
  /\ jbCommand[j] = "running"
  /\ jbCommand' = [jbCommand EXCEPT ![j] = how]
  /\ UNCHANGED <<jbRow, jbTask, jbPipe, jbReader, jbHeld, jbFaults>>

\* The process dies: rows and commands stay as they are, nothing repairs the former.
ProcessDies ==
  /\ JbFault
  /\ jbTask' = [j \in Jobs |-> IF jbTask[j].at \in {"none", "over"} THEN jbTask[j]
                               ELSE [jbTask[j] EXCEPT !.at = "died"]]
  /\ jbReader' = [j \in Jobs |-> [s \in Streams |->
                    IF jbReader[j][s].at = "reading" THEN [jbReader[j][s] EXCEPT !.at = "failed"]
                    ELSE jbReader[j][s]]]
  /\ jbHeld' = FALSE
  /\ UNCHANGED <<jbRow, jbCommand, jbPipe>>

JobsNext ==
  \/ \E j \in Jobs, exclusive \in JbExclusive : Reserve(j, exclusive)
  \/ \E j \in Jobs :
       \/ CreateJob(j) \/ CreateJobFails(j) \/ Spawn(j) \/ SpawnFails(j)
       \/ WaitForCommand(j) \/ Drain(j) \/ FinishJob(j) \/ FinishJobFails(j)
       \/ RecordError(j) \/ RecordErrorFails(j) \/ FreeGroup(j)
  \/ \E j \in Jobs, s \in Streams :
       \/ Read(j, s) \/ Flush(j, s) \/ LastFlush(j, s) \/ ReaderFails(j, s)
       \/ CommandWrites(j, s) \/ StreamCloses(j, s)
  \/ \E j \in Jobs, how \in Ended : CommandEnds(j, how)
  \/ ProcessDies

JobsSpec == JobsInit /\ [][JobsNext]_jbVars
-----------------------------------------------------------------------------
\* The output of a job that is over is final, for whoever watched the row until then: no reader
\* is left, and unless the row carries an error everything the command wrote is stored and the
\* status is the one its exit had.
OutputIsFinal ==
  \A j \in Jobs : jbRow[j].status \in JobOver =>
    /\ \A s \in Streams : jbReader[j][s].at # "reading"
    /\ ~jbRow[j].error =>
         /\ jbCommand[j] = IF jbRow[j].status = "succeeded" THEN "ok" ELSE "bad"
         /\ \A s \in Streams :
              ~jbPipe[j][s].open /\ jbRow[j].output[s] = jbPipe[j][s].written

\* While the process that started them lives, one command of the group runs at a time, and the
\* group is taken for as long as it runs, whatever failed beside it.
GroupIsHeld ==
  LET running == {j \in Jobs : jbTask[j].exclusive /\ jbTask[j].at # "died"
                               /\ jbCommand[j] = "running"}
  IN /\ running # {} => jbHeld
     /\ \A j, k \in running : j = k

\* A job's row and its group are given up only with the whole of its command behind them.
JobsRunWhole == OutputIsFinal /\ GroupIsHeld
=============================================================================
