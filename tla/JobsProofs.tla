----------------------------- MODULE JobsProofs -----------------------------
(***************************************************************************)
(* A job that is over has its whole output and the exit of its command, or *)
(* an error, and commands of the exclusive group do not overlap: for any   *)
(* number of jobs, streams, lines and failures.                            *)
(*                                                                         *)
(* JobsInv says for each job where its task is and what its command, its   *)
(* readers and its row may be then (TaskInv); that a reader holds what it  *)
(* has read and not stored (ReaderInv), so that one that ended stored all; *)
(* and that the group is taken from before a row of it exists until the    *)
(* task of that row is over (GroupInv).                                    *)
(***************************************************************************)
EXTENDS Jobs, TLAPS

USE JobsAssumption

Statuses == {"none", "running"} \cup JobOver
Stages == {"none", "create", "spawn", "wait", "drain", "finish", "broken", "free", "over", "died"}
Rows == [status : Statuses, error : BOOLEAN, output : [Streams -> 0..JbMaxLines]]
Tasks == [at : Stages, exclusive : BOOLEAN]
Readers == [at : {"none", "reading", "ended", "failed"}, read : 0..JbMaxLines, held : 0..JbMaxLines]
Pipes == [open : BOOLEAN, written : 0..JbMaxLines]

LEMMA Types == JobsTypeOK <=>
  /\ jbRow \in [Jobs -> Rows] /\ jbTask \in [Jobs -> Tasks]
  /\ jbCommand \in [Jobs -> {"none", "running"} \cup Ended]
  /\ jbPipe \in [Jobs -> [Streams -> Pipes]] /\ jbReader \in [Jobs -> [Streams -> Readers]]
  /\ jbHeld \in BOOLEAN /\ jbFaults \in 0..JbMaxFaults
  BY DEF JobsTypeOK, Rows, Tasks, Readers, Pipes, Statuses, Stages

LEMMA TaskGoes ==
  ASSUME JobsTypeOK, NEW j \in Jobs, NEW from, NEW to \in Stages, JbGoes(j, from, to)
  PROVE  /\ jbTask' \in [Jobs -> Tasks]
         /\ jbTask[j].at = from /\ jbTask'[j].at = to
         /\ jbTask'[j].exclusive = jbTask[j].exclusive
         /\ \A k \in Jobs \ {j} : jbTask'[k] = jbTask[k]
  BY Types DEF JbGoes, Tasks

LEMMA RowEnds ==
  ASSUME JobsTypeOK, NEW j \in Jobs, NEW status \in Statuses,
         jbRow' = [jbRow EXCEPT ![j].status = status]
  PROVE  /\ jbRow' \in [Jobs -> Rows]
         /\ jbRow'[j].status = status /\ jbRow'[j].error = jbRow[j].error
         /\ jbRow'[j].output = jbRow[j].output
         /\ \A k \in Jobs \ {j} : jbRow'[k] = jbRow[k]
<1>1. jbRow \in [Jobs -> Rows] /\ jbRow[j] \in Rows
  BY Types
<1>2. [jbRow[j] EXCEPT !.status = status] \in Rows
  BY <1>1 DEF Rows
<1>3. jbRow' = [jbRow EXCEPT ![j] = [jbRow[j] EXCEPT !.status = status]]
  BY <1>1
<1>4. /\ jbRow' \in [Jobs -> Rows] /\ jbRow'[j] = [jbRow[j] EXCEPT !.status = status]
      /\ \A k \in Jobs \ {j} : jbRow'[k] = jbRow[k]
  BY <1>1, <1>2, <1>3
<1> QED
  BY <1>1, <1>4 DEF Rows

LEMMA RowFails ==
  ASSUME JobsTypeOK, NEW j \in Jobs,
         jbRow' = [jbRow EXCEPT ![j].status = "failed", ![j].error = TRUE]
  PROVE  /\ jbRow' \in [Jobs -> Rows]
         /\ jbRow'[j].status = "failed" /\ jbRow'[j].error = TRUE
         /\ jbRow'[j].output = jbRow[j].output
         /\ \A k \in Jobs \ {j} : jbRow'[k] = jbRow[k]
  BY Types DEF Rows, Statuses, JobOver

LEMMA RowStores ==
  ASSUME JobsTypeOK, NEW j \in Jobs, NEW s \in Streams, NEW more \in Nat,
         jbRow[j].output[s] + more \in 0..JbMaxLines,
         jbRow' = [jbRow EXCEPT ![j].output[s] = @ + more]
  PROVE  /\ jbRow' \in [Jobs -> Rows]
         /\ jbRow'[j].status = jbRow[j].status /\ jbRow'[j].error = jbRow[j].error
         /\ jbRow'[j].output[s] = jbRow[j].output[s] + more
         /\ \A t \in Streams \ {s} : jbRow'[j].output[t] = jbRow[j].output[t]
         /\ \A k \in Jobs \ {j} : jbRow'[k] = jbRow[k]
  BY Types DEF Rows

(***************************************************************************)
(* The invariant.                                                          *)
(***************************************************************************)
\* A reader holds what it has read and not yet stored; one that ended has stored it all.
ReaderInv(j, s) ==
  LET reader == jbReader[j][s]
      stored == jbRow[j].output[s]
  IN /\ reader.at = "none" => stored = 0
     /\ reader.at = "reading" => /\ stored + reader.held = reader.read
                                 /\ reader.read <= jbPipe[j][s].written
     /\ reader.at = "ended" => ~jbPipe[j][s].open /\ stored = jbPipe[j][s].written

\* Where a task is tells what its command, its readers and its row may be.
TaskInv(j) ==
  LET at == jbTask[j].at
      reader(s) == jbReader[j][s].at
      status == jbRow[j].status
  IN /\ at \in {"none", "create", "spawn"} =>
          jbCommand[j] = "none" /\ \A s \in Streams : reader(s) = "none"
     /\ at \in {"none", "create"} => status = "none"
     /\ at \in {"none", "create", "spawn"} => ~jbRow[j].error
     /\ at \in {"spawn", "wait", "drain", "finish", "broken"} => status = "running"
     /\ at \in {"drain", "finish"} => jbCommand[j] \in Ended
     /\ at \in {"wait", "drain"} => \A s \in Streams : reader(s) # "none"
     /\ at = "finish" => \A s \in Streams : reader(s) = "ended"
     /\ jbCommand[j] = "running" => at \in {"wait", "died"}
     /\ \A s \in Streams : reader(s) = "reading" => at \in {"wait", "drain"}
     /\ status \in JobOver =>
          /\ at \in {"free", "over", "died"}
          /\ ~jbRow[j].error =>
               /\ jbCommand[j] = IF status = "succeeded" THEN "ok" ELSE "bad"
               /\ \A s \in Streams : reader(s) = "ended"

\* The group is taken by one job at most, from before its row exists until its task is over.
Active(j) == jbTask[j].exclusive /\ jbTask[j].at \notin {"none", "over", "died"}
GroupInv == \A j \in Jobs : Active(j) => jbHeld /\ \A k \in Jobs : Active(k) => k = j

JobInv(j) == TaskInv(j) /\ \A s \in Streams : ReaderInv(j, s)
JobsInv == JobsTypeOK /\ GroupInv /\ \A j \in Jobs : JobInv(j)

(***************************************************************************)
(* What the other steps make of the variables.                             *)
(***************************************************************************)
LEMMA TypesNext == JobsTypeOK' <=>
  /\ jbRow' \in [Jobs -> Rows] /\ jbTask' \in [Jobs -> Tasks]
  /\ jbCommand' \in [Jobs -> {"none", "running"} \cup Ended]
  /\ jbPipe' \in [Jobs -> [Streams -> Pipes]] /\ jbReader' \in [Jobs -> [Streams -> Readers]]
  /\ jbHeld' \in BOOLEAN /\ jbFaults' \in 0..JbMaxFaults
  BY DEF JobsTypeOK, Rows, Tasks, Readers, Pipes, Statuses, Stages

LEMMA FaultCounts == ASSUME JobsTypeOK, JbFault PROVE jbFaults' \in 0..JbMaxFaults
  BY DEF JobsTypeOK, JbFault

\* A step on one stream leaves the readers of the others alone.
LEMMA ReaderGoes ==
  ASSUME JobsTypeOK, NEW j \in Jobs, NEW s \in Streams, NEW reader \in Readers,
         jbReader' = [jbReader EXCEPT ![j][s] = reader]
  PROVE  /\ jbReader' \in [Jobs -> [Streams -> Readers]]
         /\ jbReader'[j][s] = reader
         /\ \A t \in Streams \ {s} : jbReader'[j][t] = jbReader[j][t]
         /\ \A k \in Jobs \ {j} : jbReader'[k] = jbReader[k]
  BY Types

LEMMA PipeGoes ==
  ASSUME JobsTypeOK, NEW j \in Jobs, NEW s \in Streams, NEW pipe \in Pipes,
         jbPipe' = [jbPipe EXCEPT ![j][s] = pipe]
  PROVE  /\ jbPipe' \in [Jobs -> [Streams -> Pipes]]
         /\ jbPipe'[j][s] = pipe
         /\ \A t \in Streams \ {s} : jbPipe'[j][t] = jbPipe[j][t]
         /\ \A k \in Jobs \ {j} : jbPipe'[k] = jbPipe[k]
  BY Types

(***************************************************************************)
(* A step on one job keeps the invariant if it keeps the part of that job  *)
(* and the group.                                                          *)
(***************************************************************************)
LEMMA OneJob ==
  ASSUME JobsInv, NEW j \in Jobs, JobsTypeOK', GroupInv', JobInv(j)',
         \A k \in Jobs \ {j} : /\ jbRow'[k] = jbRow[k] /\ jbTask'[k] = jbTask[k]
                               /\ jbCommand'[k] = jbCommand[k]
                               /\ jbPipe'[k] = jbPipe[k] /\ jbReader'[k] = jbReader[k]
  PROVE  JobsInv'
<1>1. ASSUME NEW k \in Jobs \ {j} PROVE JobInv(k)'
  BY <1>1 DEF JobsInv, JobInv, TaskInv, ReaderInv
<1> QED
  BY <1>1 DEF JobsInv

\* Nobody becomes active, and the group is given up by the active job alone.
LEMMA GroupStays ==
  ASSUME JobsInv, \A k \in Jobs : Active(k)' => Active(k) /\ jbHeld'
  PROVE  GroupInv'
  BY DEF JobsInv, GroupInv

LEMMA TaskStays ==
  ASSUME NEW j \in Jobs, TaskInv(j), jbTask'[j].at = jbTask[j].at,
         jbRow'[j].status = jbRow[j].status, jbRow'[j].error = jbRow[j].error,
         jbCommand'[j] = jbCommand[j],
         \A s \in Streams : jbReader'[j][s].at = jbReader[j][s].at
  PROVE  TaskInv(j)'
  BY DEF TaskInv

(***************************************************************************)
(* start_process_job and the task.                                         *)
(***************************************************************************)
LEMMA ReserveKeeps ==
  ASSUME JobsInv, NEW j \in Jobs, NEW exclusive \in JbExclusive, Reserve(j, exclusive)
  PROVE  JobsInv'
<1>1. exclusive \in BOOLEAN /\ [at |-> "create", exclusive |-> exclusive] \in Tasks
  BY DEF Tasks, Stages
<1>2. /\ jbTask' \in [Jobs -> Tasks]
      /\ jbTask[j].at = "none"
      /\ jbTask'[j].at = "create" /\ jbTask'[j].exclusive = exclusive
      /\ \A k \in Jobs \ {j} : jbTask'[k] = jbTask[k]
  BY <1>1, Types DEF JobsInv, Reserve, Tasks
<1>3. jbHeld' \in BOOLEAN /\ (exclusive => jbHeld' /\ ~jbHeld) /\ (jbHeld => jbHeld')
  BY <1>1 DEF Reserve
<1>4. JobsTypeOK'
  BY <1>2, <1>3, Types, TypesNext DEF JobsInv, Reserve
<1>5. JobInv(j)'
  BY <1>2 DEF JobsInv, JobInv, TaskInv, ReaderInv, Reserve, JobOver
<1>6. GroupInv'
  BY <1>2, <1>3 DEF JobsInv, GroupInv, Active
<1> QED
  BY <1>2, <1>4, <1>5, <1>6, OneJob DEF Reserve

LEMMA CreateJobKeeps ==
  ASSUME JobsInv, NEW j \in Jobs, CreateJob(j)
  PROVE  JobsInv'
<1>1. /\ jbTask' \in [Jobs -> Tasks]
      /\ jbTask[j].at = "create" /\ jbTask'[j].at = "spawn"
      /\ jbTask'[j].exclusive = jbTask[j].exclusive
      /\ \A k \in Jobs \ {j} : jbTask'[k] = jbTask[k]
  BY TaskGoes DEF JobsInv, CreateJob, Stages
<1>2. /\ jbRow' \in [Jobs -> Rows] /\ jbRow'[j].status = "running"
      /\ jbRow'[j].error = jbRow[j].error /\ jbRow'[j].output = jbRow[j].output
      /\ \A k \in Jobs \ {j} : jbRow'[k] = jbRow[k]
  BY RowEnds DEF JobsInv, CreateJob, Statuses
<1>3. JobsTypeOK'
  BY <1>1, <1>2, Types, TypesNext DEF JobsInv, CreateJob
<1>4. JobInv(j)'
  BY <1>1, <1>2 DEF JobsInv, JobInv, TaskInv, ReaderInv, CreateJob, JobOver
<1>5. GroupInv'
  BY <1>1, GroupStays DEF JobsInv, GroupInv, Active, CreateJob
<1> QED
  BY <1>1, <1>2, <1>3, <1>4, <1>5, OneJob DEF CreateJob

\* A job that leaves with its group: the others are not active if it had the group.
LEMMA GroupFreed ==
  ASSUME JobsInv, NEW j \in Jobs, Active(j) \/ ~jbTask[j].exclusive,
         jbHeld' = (jbHeld /\ ~jbTask[j].exclusive),
         jbTask'[j].at = "over",
         \A k \in Jobs \ {j} : jbTask'[k] = jbTask[k]
  PROVE  GroupInv' /\ jbHeld' \in BOOLEAN
  BY DEF JobsInv, GroupInv, Active, JobsTypeOK

LEMMA CreateJobFailsKeeps ==
  ASSUME JobsInv, NEW j \in Jobs, CreateJobFails(j)
  PROVE  JobsInv'
<1>1. /\ jbTask' \in [Jobs -> Tasks]
      /\ jbTask[j].at = "create" /\ jbTask'[j].at = "over"
      /\ jbTask'[j].exclusive = jbTask[j].exclusive
      /\ \A k \in Jobs \ {j} : jbTask'[k] = jbTask[k]
  BY TaskGoes DEF JobsInv, CreateJobFails, Stages
<1>2. GroupInv' /\ jbHeld' \in BOOLEAN
  BY <1>1, GroupFreed DEF CreateJobFails, Active
<1>3. JobsTypeOK'
  BY <1>1, <1>2, FaultCounts, Types, TypesNext DEF JobsInv, CreateJobFails
<1>4. JobInv(j)'
  BY <1>1 DEF JobsInv, JobInv, TaskInv, ReaderInv, CreateJobFails, JobOver
<1> QED
  BY <1>1, <1>2, <1>3, <1>4, OneJob DEF CreateJobFails

LEMMA SpawnKeeps ==
  ASSUME JobsInv, NEW j \in Jobs, Spawn(j)
  PROVE  JobsInv'
<1>1. /\ jbTask' \in [Jobs -> Tasks]
      /\ jbTask[j].at = "spawn" /\ jbTask'[j].at = "wait"
      /\ jbTask'[j].exclusive = jbTask[j].exclusive
      /\ \A k \in Jobs \ {j} : jbTask'[k] = jbTask[k]
  BY TaskGoes DEF JobsInv, Spawn, Stages
<1>2. /\ jbCommand' \in [Jobs -> {"none", "running"} \cup Ended]
      /\ jbCommand'[j] = "running"
      /\ \A k \in Jobs \ {j} : jbCommand'[k] = jbCommand[k]
  BY Types DEF JobsInv, Spawn
<1>3. [open |-> TRUE, written |-> 0] \in Pipes
      /\ [at |-> "reading", read |-> 0, held |-> 0] \in Readers
  BY DEF Pipes, Readers
<1>4. /\ jbPipe' \in [Jobs -> [Streams -> Pipes]]
      /\ jbPipe'[j] = [s \in Streams |-> [open |-> TRUE, written |-> 0]]
      /\ \A k \in Jobs \ {j} : jbPipe'[k] = jbPipe[k]
  BY <1>3, Types DEF JobsInv, Spawn
<1>5. /\ jbReader' \in [Jobs -> [Streams -> Readers]]
      /\ jbReader'[j] = [s \in Streams |-> [at |-> "reading", read |-> 0, held |-> 0]]
      /\ \A k \in Jobs \ {j} : jbReader'[k] = jbReader[k]
  BY <1>3, Types DEF JobsInv, Spawn
<1>6. JobsTypeOK'
  BY <1>1, <1>2, <1>4, <1>5, Types, TypesNext DEF JobsInv, Spawn
<1>7. ASSUME NEW s \in Streams PROVE ReaderInv(j, s)'
  BY <1>1, <1>4, <1>5 DEF JobsInv, JobInv, TaskInv, ReaderInv, Spawn
<1>8. TaskInv(j)'
  BY <1>1, <1>2, <1>5 DEF JobsInv, JobInv, TaskInv, Spawn, JobOver
<1>9. GroupInv'
  BY <1>1, GroupStays DEF JobsInv, GroupInv, Active, Spawn
<1> QED
  BY <1>1, <1>2, <1>4, <1>5, <1>6, <1>7, <1>8, <1>9, OneJob DEF Spawn, JobInv

LEMMA SpawnFailsKeeps ==
  ASSUME JobsInv, NEW j \in Jobs, SpawnFails(j)
  PROVE  JobsInv'
<1>1. /\ jbTask' \in [Jobs -> Tasks]
      /\ jbTask[j].at = "spawn" /\ jbTask'[j].at = "broken"
      /\ jbTask'[j].exclusive = jbTask[j].exclusive
      /\ \A k \in Jobs \ {j} : jbTask'[k] = jbTask[k]
  BY TaskGoes DEF JobsInv, SpawnFails, Stages
<1>2. JobsTypeOK'
  BY <1>1, FaultCounts, Types, TypesNext DEF JobsInv, SpawnFails
<1>3. JobInv(j)'
  BY <1>1 DEF JobsInv, JobInv, TaskInv, ReaderInv, SpawnFails, JobOver
<1>4. GroupInv'
  BY <1>1, GroupStays DEF JobsInv, GroupInv, Active, SpawnFails
<1> QED
  BY <1>1, <1>2, <1>3, <1>4, OneJob DEF SpawnFails

LEMMA WaitForCommandKeeps ==
  ASSUME JobsInv, NEW j \in Jobs, WaitForCommand(j)
  PROVE  JobsInv'
<1>1. /\ jbTask' \in [Jobs -> Tasks]
      /\ jbTask[j].at = "wait" /\ jbTask'[j].at = "drain"
      /\ jbTask'[j].exclusive = jbTask[j].exclusive
      /\ \A k \in Jobs \ {j} : jbTask'[k] = jbTask[k]
  BY TaskGoes DEF JobsInv, WaitForCommand, Stages
<1>2. JobsTypeOK'
  BY <1>1, Types, TypesNext DEF JobsInv, WaitForCommand
<1>3. JobInv(j)'
  BY <1>1 DEF JobsInv, JobInv, TaskInv, ReaderInv, WaitForCommand, JobOver, Ended
<1>4. GroupInv'
  BY <1>1, GroupStays DEF JobsInv, GroupInv, Active, WaitForCommand
<1> QED
  BY <1>1, <1>2, <1>3, <1>4, OneJob DEF WaitForCommand

LEMMA DrainKeeps ==
  ASSUME JobsInv, NEW j \in Jobs, Drain(j)
  PROVE  JobsInv'
<1> DEFINE to == IF \E s \in Streams : jbReader[j][s].at = "failed" THEN "broken" ELSE "finish"
<1>1. /\ jbTask' \in [Jobs -> Tasks]
      /\ jbTask[j].at = "drain" /\ jbTask'[j].at = to
      /\ jbTask'[j].exclusive = jbTask[j].exclusive
      /\ \A k \in Jobs \ {j} : jbTask'[k] = jbTask[k]
  <2>1. to \in Stages
    BY DEF Stages
  <2> QED  BY <2>1, TaskGoes DEF JobsInv, Drain
<1>2. JobsTypeOK'
  BY <1>1, Types, TypesNext DEF JobsInv, Drain
<1>3. JobInv(j)'
  <2>1. /\ to \in {"finish", "broken"}
        /\ to = "finish" => \A s \in Streams : jbReader[j][s].at = "ended"
        /\ \A s \in Streams : jbReader[j][s].at # "reading"
    BY DEF Drain, AllRead
  <2> HIDE DEF to
  <2>2. TaskInv(j)'
    BY <1>1, <2>1 DEF JobsInv, JobInv, TaskInv, Drain, JobOver, Ended
  <2> QED
    BY <2>2 DEF JobsInv, JobInv, ReaderInv, Drain
<1>4. GroupInv'
  BY <1>1, GroupStays DEF JobsInv, GroupInv, Active, Drain
<1> QED
  BY <1>1, <1>2, <1>3, <1>4, OneJob DEF Drain

LEMMA FinishJobKeeps ==
  ASSUME JobsInv, NEW j \in Jobs, FinishJob(j)
  PROVE  JobsInv'
<1> DEFINE status == IF jbCommand[j] = "ok" THEN "succeeded" ELSE "failed"
<1>1. /\ jbTask' \in [Jobs -> Tasks]
      /\ jbTask[j].at = "finish" /\ jbTask'[j].at = "free"
      /\ jbTask'[j].exclusive = jbTask[j].exclusive
      /\ \A k \in Jobs \ {j} : jbTask'[k] = jbTask[k]
  BY TaskGoes DEF JobsInv, FinishJob, Stages
<1>2. /\ jbRow' \in [Jobs -> Rows] /\ jbRow'[j].status = status
      /\ jbRow'[j].error = jbRow[j].error /\ jbRow'[j].output = jbRow[j].output
      /\ \A k \in Jobs \ {j} : jbRow'[k] = jbRow[k]
  <2>1. status \in Statuses
    BY DEF Statuses, JobOver
  <2>2. jbRow' = [jbRow EXCEPT ![j].status = status]
    BY DEF FinishJob
  <2> HIDE DEF status
  <2> QED  BY <2>1, <2>2, RowEnds DEF JobsInv
<1>3. JobsTypeOK'
  BY <1>1, <1>2, Types, TypesNext DEF JobsInv, FinishJob
<1>4. JobInv(j)'
  BY <1>1, <1>2 DEF JobsInv, JobInv, TaskInv, ReaderInv, FinishJob, JobOver, Ended
<1>5. GroupInv'
  BY <1>1, GroupStays DEF JobsInv, GroupInv, Active, FinishJob
<1> QED
  BY <1>1, <1>2, <1>3, <1>4, <1>5, OneJob DEF FinishJob

LEMMA FinishJobFailsKeeps ==
  ASSUME JobsInv, NEW j \in Jobs, FinishJobFails(j)
  PROVE  JobsInv'
<1>1. /\ jbTask' \in [Jobs -> Tasks]
      /\ jbTask[j].at = "finish" /\ jbTask'[j].at = "broken"
      /\ jbTask'[j].exclusive = jbTask[j].exclusive
      /\ \A k \in Jobs \ {j} : jbTask'[k] = jbTask[k]
  BY TaskGoes DEF JobsInv, FinishJobFails, Stages
<1>2. JobsTypeOK'
  BY <1>1, FaultCounts, Types, TypesNext DEF JobsInv, FinishJobFails
<1>3. JobInv(j)'
  BY <1>1 DEF JobsInv, JobInv, TaskInv, ReaderInv, FinishJobFails, JobOver
<1>4. GroupInv'
  BY <1>1, GroupStays DEF JobsInv, GroupInv, Active, FinishJobFails
<1> QED
  BY <1>1, <1>2, <1>3, <1>4, OneJob DEF FinishJobFails

LEMMA RecordErrorKeeps ==
  ASSUME JobsInv, NEW j \in Jobs, RecordError(j)
  PROVE  JobsInv'
<1>1. /\ jbTask' \in [Jobs -> Tasks]
      /\ jbTask[j].at = "broken" /\ jbTask'[j].at = "free"
      /\ jbTask'[j].exclusive = jbTask[j].exclusive
      /\ \A k \in Jobs \ {j} : jbTask'[k] = jbTask[k]
  BY TaskGoes DEF JobsInv, RecordError, Stages
<1>2. /\ jbRow' \in [Jobs -> Rows] /\ jbRow'[j].status = "failed" /\ jbRow'[j].error = TRUE
      /\ jbRow'[j].output = jbRow[j].output
      /\ \A k \in Jobs \ {j} : jbRow'[k] = jbRow[k]
  BY RowFails DEF JobsInv, RecordError
<1>3. JobsTypeOK'
  BY <1>1, <1>2, Types, TypesNext DEF JobsInv, RecordError
<1>4. JobInv(j)'
  BY <1>1, <1>2 DEF JobsInv, JobInv, TaskInv, ReaderInv, RecordError, JobOver
<1>5. GroupInv'
  BY <1>1, GroupStays DEF JobsInv, GroupInv, Active, RecordError
<1> QED
  BY <1>1, <1>2, <1>3, <1>4, <1>5, OneJob DEF RecordError

LEMMA RecordErrorFailsKeeps ==
  ASSUME JobsInv, NEW j \in Jobs, RecordErrorFails(j)
  PROVE  JobsInv'
<1>1. /\ jbTask' \in [Jobs -> Tasks]
      /\ jbTask[j].at = "broken" /\ jbTask'[j].at = "free"
      /\ jbTask'[j].exclusive = jbTask[j].exclusive
      /\ \A k \in Jobs \ {j} : jbTask'[k] = jbTask[k]
  BY TaskGoes DEF JobsInv, RecordErrorFails, Stages
<1>2. JobsTypeOK'
  BY <1>1, FaultCounts, Types, TypesNext DEF JobsInv, RecordErrorFails
<1>3. JobInv(j)'
  BY <1>1 DEF JobsInv, JobInv, TaskInv, ReaderInv, RecordErrorFails, JobOver
<1>4. GroupInv'
  BY <1>1, GroupStays DEF JobsInv, GroupInv, Active, RecordErrorFails
<1> QED
  BY <1>1, <1>2, <1>3, <1>4, OneJob DEF RecordErrorFails

LEMMA FreeGroupKeeps ==
  ASSUME JobsInv, NEW j \in Jobs, FreeGroup(j)
  PROVE  JobsInv'
<1>1. /\ jbTask' \in [Jobs -> Tasks]
      /\ jbTask[j].at = "free" /\ jbTask'[j].at = "over"
      /\ jbTask'[j].exclusive = jbTask[j].exclusive
      /\ \A k \in Jobs \ {j} : jbTask'[k] = jbTask[k]
  BY TaskGoes DEF JobsInv, FreeGroup, Stages
<1>2. GroupInv' /\ jbHeld' \in BOOLEAN
  BY <1>1, GroupFreed DEF FreeGroup, Active
<1>3. JobsTypeOK'
  BY <1>1, <1>2, Types, TypesNext DEF JobsInv, FreeGroup
<1>4. JobInv(j)'
  BY <1>1 DEF JobsInv, JobInv, TaskInv, ReaderInv, FreeGroup, JobOver
<1> QED
  BY <1>1, <1>2, <1>3, <1>4, OneJob DEF FreeGroup

(***************************************************************************)
(* The readers and the command.                                            *)
(***************************************************************************)
LEMMA ReadKeeps ==
  ASSUME JobsInv, NEW j \in Jobs, NEW s \in Streams, Read(j, s)
  PROVE  JobsInv'
<1> DEFINE old == jbReader[j][s]
           reader == [at |-> "reading", read |-> old.read + 1, held |-> old.held + 1]
<1>1. /\ old \in Readers /\ old.at = "reading"
      /\ old.read < jbPipe[j][s].written /\ jbPipe[j][s].written \in 0..JbMaxLines
      /\ jbRow[j].output[s] \in 0..JbMaxLines
      /\ jbRow[j].output[s] + old.held = old.read
      /\ old.read \in Nat /\ old.held \in Nat
  BY Types DEF JobsInv, JobInv, ReaderInv, Read, Pipes, Rows, Readers
<1>2. /\ reader \in Readers /\ reader.at = "reading"
      /\ reader.read = old.read + 1 /\ reader.held = old.held + 1
  BY <1>1 DEF Readers
<1>3. jbReader' = [jbReader EXCEPT ![j][s] = reader]
  BY DEF Read
<1>4. /\ jbReader' \in [Jobs -> [Streams -> Readers]]
      /\ jbReader'[j][s] = reader
      /\ \A t \in Streams \ {s} : jbReader'[j][t] = jbReader[j][t]
      /\ \A k \in Jobs \ {j} : jbReader'[k] = jbReader[k]
  BY <1>2, <1>3, ReaderGoes DEF JobsInv
<1> HIDE DEF reader
<1>5. JobsTypeOK'
  BY <1>4, Types, TypesNext DEF JobsInv, Read
<1>6. ReaderInv(j, s)'
  <2> HIDE DEF old
  <2> QED  BY <1>1, <1>2, <1>4 DEF ReaderInv, Read
<1>7. \A t \in Streams \ {s} : ReaderInv(j, t)'
  BY <1>4 DEF JobsInv, JobInv, ReaderInv, Read
<1>8. TaskInv(j)'
  <2>1. \A t \in Streams : jbReader'[j][t].at = jbReader[j][t].at
    BY <1>1, <1>2, <1>4
  <2> QED
    BY <2>1, TaskStays DEF JobsInv, JobInv, Read
<1>9. GroupInv'
  BY GroupStays DEF JobsInv, GroupInv, Active, Read
<1> QED
  BY <1>4, <1>5, <1>6, <1>7, <1>8, <1>9, OneJob DEF Read, JobInv

\* A reader stores what it holds, and goes on or ends.
LEMMA StoredRow ==
  ASSUME JobsInv, NEW j \in Jobs, NEW s \in Streams,
         jbReader[j][s].at = "reading", jbRow' = Stored(j, s)
  PROVE  /\ jbRow' \in [Jobs -> Rows]
         /\ jbRow'[j].status = jbRow[j].status /\ jbRow'[j].error = jbRow[j].error
         /\ jbRow'[j].output[s] = jbReader[j][s].read
         /\ \A t \in Streams \ {s} : jbRow'[j].output[t] = jbRow[j].output[t]
         /\ \A k \in Jobs \ {j} : jbRow'[k] = jbRow[k]
         /\ jbReader[j][s].read \in 0..JbMaxLines
         /\ jbReader[j][s].read <= jbPipe[j][s].written
         /\ jbPipe[j][s].written \in 0..JbMaxLines
<1> DEFINE more == jbReader[j][s].held
<1>1. /\ more \in Nat /\ jbReader[j][s].read \in 0..JbMaxLines
      /\ jbPipe[j][s].written \in 0..JbMaxLines
      /\ jbRow[j].output[s] \in 0..JbMaxLines
  BY Types DEF JobsInv, Readers, Rows, Pipes
<1>2. /\ jbRow[j].output[s] + more = jbReader[j][s].read
      /\ jbReader[j][s].read <= jbPipe[j][s].written
  BY DEF JobsInv, JobInv, ReaderInv
<1>3. jbRow' = [jbRow EXCEPT ![j].output[s] = @ + more]
  BY DEF Stored
<1> HIDE DEF more
<1>4. jbRow[j].output[s] + more \in 0..JbMaxLines
  BY <1>1, <1>2
<1> QED
  <2>1. JobsTypeOK
    BY DEF JobsInv
  <2>2. /\ jbRow' \in [Jobs -> Rows]
        /\ jbRow'[j].status = jbRow[j].status /\ jbRow'[j].error = jbRow[j].error
        /\ jbRow'[j].output[s] = jbRow[j].output[s] + more
        /\ \A t \in Streams \ {s} : jbRow'[j].output[t] = jbRow[j].output[t]
        /\ \A k \in Jobs \ {j} : jbRow'[k] = jbRow[k]
    BY <1>1, <1>3, <1>4, <2>1, RowStores
  <2> QED
    BY <1>1, <1>2, <2>2

LEMMA FlushKeeps ==
  ASSUME JobsInv, NEW j \in Jobs, NEW s \in Streams, Flush(j, s)
  PROVE  JobsInv'
<1> DEFINE old == jbReader[j][s]
           reader == [old EXCEPT !.held = 0]
<1>1. /\ jbRow' \in [Jobs -> Rows]
      /\ jbRow'[j].status = jbRow[j].status /\ jbRow'[j].error = jbRow[j].error
      /\ jbRow'[j].output[s] = old.read
      /\ \A t \in Streams \ {s} : jbRow'[j].output[t] = jbRow[j].output[t]
      /\ \A k \in Jobs \ {j} : jbRow'[k] = jbRow[k]
      /\ old.read \in 0..JbMaxLines /\ old.read <= jbPipe[j][s].written
      /\ old \in Readers /\ old.at = "reading"
  BY StoredRow, Types DEF JobsInv, Flush
<1>2. /\ reader \in Readers /\ reader.at = "reading"
      /\ reader.read = old.read /\ reader.held = 0
  BY <1>1 DEF Readers
<1>3. jbReader' = [jbReader EXCEPT ![j][s] = reader]
  BY Types DEF JobsInv, Flush
<1>4. /\ jbReader' \in [Jobs -> [Streams -> Readers]]
      /\ jbReader'[j][s] = reader
      /\ \A t \in Streams \ {s} : jbReader'[j][t] = jbReader[j][t]
      /\ \A k \in Jobs \ {j} : jbReader'[k] = jbReader[k]
  BY <1>2, <1>3, ReaderGoes DEF JobsInv
<1> HIDE DEF reader
<1>5. JobsTypeOK'
  BY <1>1, <1>4, Types, TypesNext DEF JobsInv, Flush
<1>6. ReaderInv(j, s)'
  <2>1. old.read \in Nat
    BY <1>1 DEF JobsAssumption
  <2>2. jbPipe' = jbPipe
    BY DEF Flush
  <2> HIDE DEF old
  <2> QED  BY <1>1, <1>2, <1>4, <2>1, <2>2 DEF ReaderInv
<1>7. \A t \in Streams \ {s} : ReaderInv(j, t)'
  BY <1>1, <1>4 DEF JobsInv, JobInv, ReaderInv, Flush
<1>8. TaskInv(j)'
  <2>1. \A t \in Streams : jbReader'[j][t].at = jbReader[j][t].at
    BY <1>1, <1>2, <1>4
  <2> QED
    BY <1>1, <2>1, TaskStays DEF JobsInv, JobInv, Flush
<1>9. GroupInv'
  BY GroupStays DEF JobsInv, GroupInv, Active, Flush
<1> QED
  BY <1>1, <1>4, <1>5, <1>6, <1>7, <1>8, <1>9, OneJob DEF Flush, JobInv

\* A reader that was reading has left it: what its task relied on still holds.
LEMMA ReaderLeaves ==
  ASSUME JobsInv, NEW j \in Jobs, NEW s \in Streams, jbReader[j][s].at = "reading",
         jbTask'[j].at = jbTask[j].at,
         jbRow'[j].status = jbRow[j].status, jbRow'[j].error = jbRow[j].error,
         jbCommand'[j] = jbCommand[j],
         jbReader'[j][s].at \in {"ended", "failed"},
         \A t \in Streams \ {s} : jbReader'[j][t] = jbReader[j][t]
  PROVE  TaskInv(j)'
<1>1. jbTask[j].at \in {"wait", "drain"} /\ jbRow[j].status = "running"
  BY DEF JobsInv, JobInv, TaskInv
<1> QED
  BY <1>1 DEF JobsInv, JobInv, TaskInv, JobOver

LEMMA LastFlushKeeps ==
  ASSUME JobsInv, NEW j \in Jobs, NEW s \in Streams, LastFlush(j, s)
  PROVE  JobsInv'
<1> DEFINE old == jbReader[j][s]
           reader == [at |-> "ended", read |-> old.read, held |-> 0]
<1>1. /\ jbRow' \in [Jobs -> Rows]
      /\ jbRow'[j].status = jbRow[j].status /\ jbRow'[j].error = jbRow[j].error
      /\ jbRow'[j].output[s] = old.read
      /\ \A t \in Streams \ {s} : jbRow'[j].output[t] = jbRow[j].output[t]
      /\ \A k \in Jobs \ {j} : jbRow'[k] = jbRow[k]
      /\ old.read \in 0..JbMaxLines /\ old.read = jbPipe[j][s].written
      /\ ~jbPipe[j][s].open /\ old.at = "reading"
  BY StoredRow DEF LastFlush
<1>2. reader \in Readers /\ reader.at = "ended"
  BY <1>1 DEF Readers
<1>3. jbReader' = [jbReader EXCEPT ![j][s] = reader]
  BY DEF LastFlush
<1>4. /\ jbReader' \in [Jobs -> [Streams -> Readers]]
      /\ jbReader'[j][s] = reader
      /\ \A t \in Streams \ {s} : jbReader'[j][t] = jbReader[j][t]
      /\ \A k \in Jobs \ {j} : jbReader'[k] = jbReader[k]
  BY <1>2, <1>3, ReaderGoes DEF JobsInv
<1> HIDE DEF reader
<1>5. JobsTypeOK'
  BY <1>1, <1>4, Types, TypesNext DEF JobsInv, LastFlush
<1>6. ReaderInv(j, s)'
  <2> HIDE DEF old
  <2> QED  BY <1>1, <1>2, <1>4 DEF ReaderInv, LastFlush
<1>7. \A t \in Streams \ {s} : ReaderInv(j, t)'
  BY <1>1, <1>4 DEF JobsInv, JobInv, ReaderInv, LastFlush
<1>8. TaskInv(j)'
  BY <1>1, <1>2, <1>4, ReaderLeaves DEF LastFlush
<1>9. GroupInv'
  BY GroupStays DEF JobsInv, GroupInv, Active, LastFlush
<1> QED
  BY <1>1, <1>4, <1>5, <1>6, <1>7, <1>8, <1>9, OneJob DEF LastFlush, JobInv

LEMMA ReaderFailsKeeps ==
  ASSUME JobsInv, NEW j \in Jobs, NEW s \in Streams, ReaderFails(j, s)
  PROVE  JobsInv'
<1> DEFINE old == jbReader[j][s]
           reader == [old EXCEPT !.at = "failed"]
<1>1. old \in Readers /\ old.at = "reading"
  BY Types DEF JobsInv, ReaderFails
<1>2. reader \in Readers /\ reader.at = "failed"
  BY <1>1 DEF Readers
<1>3. jbReader' = [jbReader EXCEPT ![j][s] = reader]
  BY Types DEF JobsInv, ReaderFails
<1>4. /\ jbReader' \in [Jobs -> [Streams -> Readers]]
      /\ jbReader'[j][s] = reader
      /\ \A t \in Streams \ {s} : jbReader'[j][t] = jbReader[j][t]
      /\ \A k \in Jobs \ {j} : jbReader'[k] = jbReader[k]
  BY <1>2, <1>3, ReaderGoes DEF JobsInv
<1> HIDE DEF reader
<1>5. JobsTypeOK'
  BY <1>4, FaultCounts, Types, TypesNext DEF JobsInv, ReaderFails
<1>6. ReaderInv(j, s)'
  BY <1>2, <1>4 DEF ReaderInv
<1>7. \A t \in Streams \ {s} : ReaderInv(j, t)'
  BY <1>4 DEF JobsInv, JobInv, ReaderInv, ReaderFails
<1>8. TaskInv(j)'
  BY <1>1, <1>2, <1>4, ReaderLeaves DEF ReaderFails
<1>9. GroupInv'
  BY GroupStays DEF JobsInv, GroupInv, Active, ReaderFails
<1> QED
  BY <1>4, <1>5, <1>6, <1>7, <1>8, <1>9, OneJob DEF ReaderFails, JobInv

LEMMA CommandWritesKeeps ==
  ASSUME JobsInv, NEW j \in Jobs, NEW s \in Streams, CommandWrites(j, s)
  PROVE  JobsInv'
<1> DEFINE old == jbPipe[j][s]
           pipe == [old EXCEPT !.written = @ + 1]
<1>1. /\ old \in Pipes /\ old.written < JbMaxLines /\ jbReader[j][s].at = "reading"
      /\ jbReader[j][s].read \in Nat /\ jbReader[j][s].read <= old.written
      /\ old.written \in Nat /\ jbRow[j].output[s] + jbReader[j][s].held = jbReader[j][s].read
  BY Types DEF JobsInv, JobInv, ReaderInv, CommandWrites, Readers, Pipes
<1>2. pipe \in Pipes /\ pipe.written = old.written + 1
  BY <1>1 DEF Pipes
<1>3. jbPipe' = [jbPipe EXCEPT ![j][s] = pipe]
  BY Types DEF JobsInv, CommandWrites
<1>4. /\ jbPipe' \in [Jobs -> [Streams -> Pipes]]
      /\ jbPipe'[j][s] = pipe
      /\ \A t \in Streams \ {s} : jbPipe'[j][t] = jbPipe[j][t]
      /\ \A k \in Jobs \ {j} : jbPipe'[k] = jbPipe[k]
  BY <1>2, <1>3, PipeGoes DEF JobsInv
<1> HIDE DEF pipe
<1>5. JobsTypeOK'
  BY <1>4, Types, TypesNext DEF JobsInv, CommandWrites
<1>6. ReaderInv(j, s)'
  <2>1. jbRow' = jbRow /\ jbReader' = jbReader
    BY DEF CommandWrites
  <2> HIDE DEF old
  <2> QED  BY <1>1, <1>2, <1>4, <2>1 DEF ReaderInv
<1>7. \A t \in Streams \ {s} : ReaderInv(j, t)'
  BY <1>4 DEF JobsInv, JobInv, ReaderInv, CommandWrites
<1>8. TaskInv(j)'
  BY TaskStays DEF JobsInv, JobInv, CommandWrites
<1>9. GroupInv'
  BY GroupStays DEF JobsInv, GroupInv, Active, CommandWrites
<1> QED
  BY <1>4, <1>5, <1>6, <1>7, <1>8, <1>9, OneJob DEF CommandWrites, JobInv

LEMMA StreamClosesKeeps ==
  ASSUME JobsInv, NEW j \in Jobs, NEW s \in Streams, StreamCloses(j, s)
  PROVE  JobsInv'
<1> DEFINE old == jbPipe[j][s]
           pipe == [old EXCEPT !.open = FALSE]
<1>1. old \in Pipes
  BY Types DEF JobsInv
<1>2. pipe \in Pipes /\ pipe.written = old.written /\ ~pipe.open
  BY <1>1 DEF Pipes
<1>3. jbPipe' = [jbPipe EXCEPT ![j][s] = pipe]
  BY Types DEF JobsInv, StreamCloses
<1>4. /\ jbPipe' \in [Jobs -> [Streams -> Pipes]]
      /\ jbPipe'[j][s] = pipe
      /\ \A t \in Streams \ {s} : jbPipe'[j][t] = jbPipe[j][t]
      /\ \A k \in Jobs \ {j} : jbPipe'[k] = jbPipe[k]
  BY <1>2, <1>3, PipeGoes DEF JobsInv
<1> HIDE DEF pipe
<1>5. JobsTypeOK'
  BY <1>4, Types, TypesNext DEF JobsInv, StreamCloses
<1>6. \A t \in Streams : ReaderInv(j, t)'
  BY <1>2, <1>4 DEF JobsInv, JobInv, ReaderInv, StreamCloses
<1>7. TaskInv(j)'
  BY TaskStays DEF JobsInv, JobInv, StreamCloses
<1>8. GroupInv'
  BY GroupStays DEF JobsInv, GroupInv, Active, StreamCloses
<1> QED
  BY <1>4, <1>5, <1>6, <1>7, <1>8, OneJob DEF StreamCloses, JobInv

LEMMA CommandEndsKeeps ==
  ASSUME JobsInv, NEW j \in Jobs, NEW how \in Ended, CommandEnds(j, how)
  PROVE  JobsInv'
<1>1. /\ jbCommand' \in [Jobs -> {"none", "running"} \cup Ended]
      /\ jbCommand[j] = "running" /\ jbCommand'[j] = how
      /\ \A k \in Jobs \ {j} : jbCommand'[k] = jbCommand[k]
  BY Types DEF JobsInv, CommandEnds
<1>2. JobsTypeOK'
  BY <1>1, Types, TypesNext DEF JobsInv, CommandEnds
<1>3. TaskInv(j)'
  BY <1>1 DEF JobsInv, JobInv, TaskInv, CommandEnds, Ended, JobOver
<1>4. \A s \in Streams : ReaderInv(j, s)'
  BY DEF JobsInv, JobInv, ReaderInv, CommandEnds
<1>5. GroupInv'
  BY GroupStays DEF JobsInv, GroupInv, Active, CommandEnds
<1> QED
  BY <1>1, <1>2, <1>3, <1>4, <1>5, OneJob DEF CommandEnds, JobInv

LEMMA ProcessDiesKeeps ==
  ASSUME JobsInv, ProcessDies
  PROVE  JobsInv'
<1>1. ASSUME NEW j \in Jobs
      PROVE  /\ jbTask'[j] \in Tasks /\ jbTask'[j].exclusive = jbTask[j].exclusive
             /\ IF jbTask[j].at \in {"none", "over"} THEN jbTask'[j].at = jbTask[j].at
                ELSE jbTask'[j].at = "died"
  <2>1. jbTask[j] \in Tasks
    BY Types DEF JobsInv
  <2>2. jbTask'[j] = IF jbTask[j].at \in {"none", "over"} THEN jbTask[j]
                     ELSE [jbTask[j] EXCEPT !.at = "died"]
    BY DEF ProcessDies
  <2> QED
    BY <2>1, <2>2 DEF Tasks, Stages
<1>2. ASSUME NEW j \in Jobs, NEW s \in Streams
      PROVE  /\ jbReader'[j][s] \in Readers
             /\ IF jbReader[j][s].at = "reading" THEN jbReader'[j][s].at = "failed"
                ELSE jbReader'[j][s] = jbReader[j][s]
  <2>1. jbReader[j][s] \in Readers
    BY Types DEF JobsInv
  <2>2. jbReader'[j][s] = IF jbReader[j][s].at = "reading"
                          THEN [jbReader[j][s] EXCEPT !.at = "failed"] ELSE jbReader[j][s]
    BY DEF ProcessDies
  <2> QED
    BY <2>1, <2>2 DEF Readers
<1>3. /\ jbRow' = jbRow /\ jbCommand' = jbCommand /\ jbPipe' = jbPipe
      /\ jbHeld' = FALSE /\ jbFaults' \in 0..JbMaxFaults
  BY FaultCounts DEF JobsInv, ProcessDies
<1>4. JobsTypeOK'
  <2>1. jbTask' \in [Jobs -> Tasks]
    <3>1. jbTask' = [j \in Jobs |-> jbTask'[j]]
      BY DEF ProcessDies
    <3> QED  BY <1>1, <3>1
  <2>2. jbReader' \in [Jobs -> [Streams -> Readers]]
    <3>1. jbReader' = [j \in Jobs |-> [s \in Streams |-> jbReader'[j][s]]]
      BY DEF ProcessDies
    <3> QED  BY <1>2, <3>1
  <2> QED
    BY <1>3, <2>1, <2>2, Types, TypesNext DEF JobsInv
<1>5. ASSUME NEW j \in Jobs PROVE JobInv(j)'
  <2>1. TaskInv(j)'
    <3>1. TaskInv(j)
      BY DEF JobsInv, JobInv
    <3>2. CASE jbTask[j].at \in {"none", "over"}
      BY <1>1, <1>2, <1>3, <3>1, <3>2 DEF TaskInv, JobOver
    <3>3. CASE jbTask[j].at \notin {"none", "over"}
      BY <1>1, <1>2, <1>3, <3>1, <3>3 DEF TaskInv, JobOver
    <3> QED  BY <3>2, <3>3
  <2>2. \A s \in Streams : ReaderInv(j, s)'
    BY <1>2, <1>3 DEF JobsInv, JobInv, ReaderInv
  <2> QED  BY <2>1, <2>2 DEF JobInv
<1>6. GroupInv'
  BY <1>1 DEF GroupInv, Active
<1> QED
  BY <1>4, <1>5, <1>6 DEF JobsInv

(***************************************************************************)
(* The theorems.                                                           *)
(***************************************************************************)
LEMMA JobsInvInit == JobsInit => JobsInv
<1> SUFFICES ASSUME JobsInit PROVE JobsInv
  OBVIOUS
<1>1. /\ [status |-> "none", error |-> FALSE, output |-> [s \in Streams |-> 0]] \in Rows
      /\ [at |-> "none", exclusive |-> FALSE] \in Tasks
      /\ [open |-> FALSE, written |-> 0] \in Pipes
      /\ [at |-> "none", read |-> 0, held |-> 0] \in Readers
  BY DEF Rows, Tasks, Pipes, Readers, Statuses, Stages, JobsAssumption
<1>2. JobsTypeOK
  <2>1. jbRow \in [Jobs -> Rows] /\ jbTask \in [Jobs -> Tasks]
    BY <1>1, Zenon DEF JobsInit
  <2>2. /\ jbPipe \in [Jobs -> [Streams -> Pipes]]
        /\ jbReader \in [Jobs -> [Streams -> Readers]]
    BY <1>1, Zenon DEF JobsInit
  <2>3. jbCommand \in [Jobs -> {"none", "running"} \cup Ended] /\ jbHeld \in BOOLEAN
    BY Zenon DEF JobsInit
  <2>4. jbFaults \in 0..JbMaxFaults
    BY DEF JobsInit, JobsAssumption
  <2> QED
    BY <2>1, <2>2, <2>3, <2>4, Types
<1>3. ASSUME NEW j \in Jobs PROVE JobInv(j) /\ ~Active(j)
  BY DEF JobsInit, JobInv, TaskInv, ReaderInv, Active, JobOver
<1> QED
  BY <1>2, <1>3 DEF JobsInv, GroupInv

LEMMA JobsInvStep == JobsInv /\ [JobsNext]_jbVars => JobsInv'
<1> SUFFICES ASSUME JobsInv, [JobsNext]_jbVars PROVE JobsInv'
  OBVIOUS
<1>1. ASSUME NEW j \in Jobs, NEW exclusive \in JbExclusive, Reserve(j, exclusive) PROVE JobsInv'
  BY <1>1, ReserveKeeps
<1>2. ASSUME NEW j \in Jobs,
             \/ CreateJob(j) \/ CreateJobFails(j) \/ Spawn(j) \/ SpawnFails(j)
             \/ WaitForCommand(j) \/ Drain(j) \/ FinishJob(j) \/ FinishJobFails(j)
             \/ RecordError(j) \/ RecordErrorFails(j) \/ FreeGroup(j)
      PROVE  JobsInv'
  BY <1>2, CreateJobKeeps, CreateJobFailsKeeps, SpawnKeeps, SpawnFailsKeeps,
     WaitForCommandKeeps, DrainKeeps, FinishJobKeeps, FinishJobFailsKeeps, RecordErrorKeeps,
     RecordErrorFailsKeeps, FreeGroupKeeps
<1>3. ASSUME NEW j \in Jobs, NEW s \in Streams,
             \/ Read(j, s) \/ Flush(j, s) \/ LastFlush(j, s) \/ ReaderFails(j, s)
             \/ CommandWrites(j, s) \/ StreamCloses(j, s)
      PROVE  JobsInv'
  BY <1>3, ReadKeeps, FlushKeeps, LastFlushKeeps, ReaderFailsKeeps, CommandWritesKeeps,
     StreamClosesKeeps
<1>4. ASSUME NEW j \in Jobs, NEW how \in Ended, CommandEnds(j, how) PROVE JobsInv'
  BY <1>4, CommandEndsKeeps
<1>5. CASE ProcessDies
  BY <1>5, ProcessDiesKeeps
<1>6. CASE UNCHANGED jbVars
  BY <1>6 DEF jbVars, JobsInv, JobsTypeOK, GroupInv, Active, JobInv, TaskInv, ReaderInv
<1> QED
  BY <1>1, <1>2, <1>3, <1>4, <1>5, <1>6 DEF JobsNext

LEMMA InvGivesWhole == JobsInv => JobsRunWhole
<1> SUFFICES ASSUME JobsInv PROVE JobsRunWhole
  OBVIOUS
<1>1. ASSUME NEW j \in Jobs, jbRow[j].status \in JobOver
      PROVE  /\ \A s \in Streams : jbReader[j][s].at # "reading"
             /\ ~jbRow[j].error =>
                  /\ jbCommand[j] = IF jbRow[j].status = "succeeded" THEN "ok" ELSE "bad"
                  /\ \A s \in Streams :
                       ~jbPipe[j][s].open /\ jbRow[j].output[s] = jbPipe[j][s].written
  <2>1. jbTask[j].at \in {"free", "over", "died"}
    BY <1>1 DEF JobsInv, JobInv, TaskInv
  <2>2. \A s \in Streams : jbReader[j][s].at # "reading"
    BY <2>1 DEF JobsInv, JobInv, TaskInv
  <2>3. ASSUME ~jbRow[j].error
        PROVE  /\ jbCommand[j] = IF jbRow[j].status = "succeeded" THEN "ok" ELSE "bad"
               /\ \A s \in Streams : jbReader[j][s].at = "ended"
    BY <1>1, <2>3 DEF JobsInv, JobInv, TaskInv
  <2> QED
    BY <2>2, <2>3 DEF JobsInv, JobInv, ReaderInv
<1>2. ASSUME NEW j \in Jobs, jbTask[j].exclusive, jbTask[j].at # "died", jbCommand[j] = "running"
      PROVE  Active(j)
  BY <1>2 DEF JobsInv, JobInv, TaskInv, Active
<1>3. GroupIsHeld
  BY <1>2 DEF GroupIsHeld, JobsInv, GroupInv
<1> QED
  BY <1>1, <1>3 DEF JobsRunWhole, OutputIsFinal

\* Every state of Jobs has its type.
THEOREM JobsHaveType == JobsSpec => []JobsTypeOK
<1>1. JobsInv => JobsTypeOK
  BY DEF JobsInv
<1> QED
  BY <1>1, JobsInvInit, JobsInvStep, PTL DEF JobsSpec

\* A job that is over has the whole output and the exit of its command, or an error, and one
\* command of the group runs at a time (run_process_command, ExclusiveJobGuard).
THEOREM JobsAreRunWhole == JobsSpec => []JobsRunWhole
  BY JobsInvInit, JobsInvStep, InvGivesWhole, PTL DEF JobsSpec
=============================================================================
