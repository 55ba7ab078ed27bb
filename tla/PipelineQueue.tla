--------------------------- MODULE PipelineQueue ---------------------------
(***************************************************************************)
(* The pipeline orchestrator: a process-local, single-flight FIFO service  *)
(* of discovery runs, with the job row and the batch row each run keeps    *)
(* in the database (core/pipeline/orchestrator.ts, store.ts,               *)
(* core/jobs/recorder.ts).                                                 *)
(*                                                                         *)
(* One action is one turn of the event loop: the code between two awaits.  *)
(* A run is known by the number it got when it was submitted, so the       *)
(* queued runs, taken by ascending number, are the FIFO queue.             *)
(***************************************************************************)
EXTENDS Naturals, FiniteSets

CONSTANTS
  Users,        \* users that may submit and cancel runs
  Admins,       \* users for which cancel is called with canStopOthers
  Outcomes,     \* what a database write can do: "ok"; "failed"; or "lost", when it
                \* commits and the reply is an error
  NoUser,       \* the owner of a run nobody submitted yet
  MaxRuns,      \* bound: how many submissions are accepted
  MaxBoots      \* bound: how many times the process restarts

ASSUME QueueAssumption ==
  /\ Admins \subseteq Users
  /\ NoUser \notin Users
  /\ Outcomes \subseteq {"ok", "failed", "lost"} /\ "ok" \in Outcomes
  /\ MaxRuns \in Nat
  /\ MaxBoots \in Nat

Runs == 1 .. MaxRuns

VARIABLES
  submitted,    \* how many runs were submitted so far
  owner,        \* the user each run belongs to
  pc,           \* what each run awaits, or how it ended
  aborted,      \* runs whose abort controller was triggered
  running, active, cur, committed,  \* the fields of the orchestrator
  job,          \* status of the job_runs row of each run
  batch,        \* status of the recommendation_batches row of each run
  born,         \* which boot each run started in (started_at, created_at)
  boot,         \* the current boot
  sweep,        \* where the start-up sweep of interrupted rows stands
  lostJob,      \* runs that do not know their job row, or could not close it
  lostBatch     \* runs that do not know their batch row, or could not close it

memory == <<running, active, cur, committed>>
rows   == <<job, batch, lostJob, lostBatch>>
server == <<boot, sweep>>
vars   == <<submitted, owner, pc, aborted, memory, rows, born, server>>

-----------------------------------------------------------------------------
(* What a run awaits, in the order of the code. *)

\* "stage" is any of collect, analyze, discover, resolve, score and filter: they
\* differ in what they read and each ends in a checkpoint.  "stopBatch" and
\* "failBatch" are the catch block of store() after an abort and after an error.
LiveSteps == {"jobStart", "stage", "insertBatch", "save", "completeBatch", "stopBatch",
              "failBatch", "autoApprove", "complete", "cancelJob", "failJob"}

Results   == {"completed", "cancelled", "failed"}
Steps     == LiveSteps \cup Results \cup {"none", "queued", "dropped", "dead"}
JobStatus == {"none", "running", "completed", "failed", "cancelled", "stuck"}
BatchStatus == {"none", "running", "completed", "failed"}

Applied(out) == out \in {"ok", "lost"}

Live(r)  == pc[r] \in LiveSteps
Queue    == {r \in Runs : pc[r] = "queued"}

\* mutant: the queue is drained from the wrong end
NewestHeads == {r \in Queue : \A s \in Queue : s <= r}
\* queue.shift()
Heads == {r \in Queue : \A s \in Queue : r <= s}

TypeOK ==
  /\ submitted \in 0 .. MaxRuns
  /\ owner \in [Runs -> Users \cup {NoUser}]
  /\ pc \in [Runs -> Steps]
  /\ aborted \subseteq Runs
  /\ running \in BOOLEAN /\ committed \in BOOLEAN
  /\ active \in Runs \cup {0} /\ cur \in Users \cup {NoUser}
  /\ job \in [Runs -> JobStatus] /\ batch \in [Runs -> BatchStatus]
  /\ born \in [Runs -> 0 .. MaxBoots] /\ boot \in 0 .. MaxBoots
  /\ sweep \in {"jobs", "batches", "idle"}
  /\ lostJob \subseteq Runs /\ lostBatch \subseteq Runs

Init ==
  /\ submitted = 0
  /\ owner = [r \in Runs |-> NoUser]
  /\ pc = [r \in Runs |-> "none"]
  /\ aborted = {}
  /\ running = FALSE /\ active = 0 /\ cur = NoUser /\ committed = FALSE
  /\ job = [r \in Runs |-> "none"] /\ batch = [r \in Runs |-> "none"]
  /\ born = [r \in Runs |-> 0] /\ boot = 0
  /\ sweep = "idle"       \* the first boot finds no rows to sweep
  /\ lostJob = {} /\ lostBatch = {}

-----------------------------------------------------------------------------
(* Starting and ending runs. *)

\* the synchronous prologue of run(): the fields are set before any await
Occupy(r, u) ==
  /\ running' = TRUE
  /\ active' = r
  /\ cur' = u
  /\ committed' = FALSE

\* run() of the new run number r, called while nothing runs
Launch(r, u) ==
  /\ owner' = [owner EXCEPT ![r] = u]
  /\ pc' = [pc EXCEPT ![r] = "jobStart"]
  /\ born' = [born EXCEPT ![r] = boot]
  /\ Occupy(r, u)

\* mutant: the finally block forgets drainQueue
FinishWithoutDrain(r, result) ==
  /\ pc' = [pc EXCEPT ![r] = result]
  /\ running' = FALSE /\ active' = 0 /\ cur' = NoUser
  /\ committed' = FALSE
  /\ UNCHANGED born

\* the finally block and drainQueue: free the slot, start the oldest queued run
Finish(r, result) ==
  IF active # r
  THEN /\ pc' = [pc EXCEPT ![r] = result]
       /\ UNCHANGED <<memory, born>>
  ELSE \/ /\ Queue = {}
          /\ pc' = [pc EXCEPT ![r] = result]
          /\ running' = FALSE /\ active' = 0 /\ cur' = NoUser
          /\ committed' = FALSE
          /\ UNCHANGED born
       \/ \E n \in Heads :
            /\ pc' = [pc EXCEPT ![r] = result, ![n] = "jobStart"]
            /\ born' = [born EXCEPT ![n] = boot]
            /\ Occupy(n, owner[n])

\* move on to another await of the same run
Goto(r, step) ==
  /\ pc' = [pc EXCEPT ![r] = step]
  /\ UNCHANGED <<memory, born>>

\* jobId is not null
KnowsJob(r) == job[r] # "none" /\ r \notin lostJob

\* the catch block for a cancellation: record it if the job row is known
UnwindCancelled(r) == IF KnowsJob(r) THEN Goto(r, "cancelJob") ELSE Finish(r, "cancelled")

\* the catch block for any other error
UnwindFailed(r) == IF KnowsJob(r) THEN Goto(r, "failJob") ELSE Finish(r, "failed")

\* ckpt(): the next step is taken only if the run is not aborted
Checkpoint(r, step) == IF r \in aborted THEN UnwindCancelled(r) ELSE Goto(r, step)

\* ckpt() and the commitment to complete, after which cancel() is declined
Commit(r) ==
  IF r \in aborted THEN UnwindCancelled(r)
  ELSE IF KnowsJob(r)
       THEN /\ pc' = [pc EXCEPT ![r] = "complete"]
            /\ committed' = TRUE
            /\ UNCHANGED <<running, active, cur, born>>
       ELSE Finish(r, "completed")

-----------------------------------------------------------------------------
(* Callers: enqueue(), run() and cancel(). *)

\* enqueue() (POST /pipeline/run, the schedule): start, or wait behind the
\* active run; a user who runs or waits already gets 'duplicate'
Enqueue(u) ==
  /\ submitted < MaxRuns
  /\ submitted' = submitted + 1
  /\ LET r == submitted + 1 IN
       IF ~running
       THEN Launch(r, u)
       ELSE /\ cur # u
            /\ \A q \in Queue : owner[q] # u
            /\ owner' = [owner EXCEPT ![r] = u]
            /\ pc' = [pc EXCEPT ![r] = "queued"]
            /\ UNCHANGED <<memory, born>>
  /\ UNCHANGED <<aborted, rows, server>>

\* mutant: run() does not refuse while another run is active
RunNowUnguarded(u) ==
  /\ submitted < MaxRuns
  /\ submitted' = submitted + 1
  /\ Launch(submitted + 1, u)
  /\ UNCHANGED <<aborted, rows, server>>

\* run() called directly for a discovery mode: it throws when a run is active
RunNow(u) ==
  /\ submitted < MaxRuns
  /\ ~running
  /\ submitted' = submitted + 1
  /\ Launch(submitted + 1, u)
  /\ UNCHANGED <<aborted, rows, server>>

\* mutant: cancel() accepts although the run has committed to complete
CancelAfterCommit(u) ==
  /\ pc' = [r \in Runs |-> IF r \in Queue /\ owner[r] = u THEN "dropped" ELSE pc[r]]
  /\ aborted' = IF running /\ (u \in Admins \/ cur = u)
                THEN aborted \cup {active} ELSE aborted
  /\ <<pc', aborted'>> # <<pc, aborted>>
  /\ UNCHANGED <<submitted, owner, memory, rows, born, server>>

\* cancel(): the caller's queued runs go; the active run is aborted for its
\* owner or an admin unless it has committed to complete
Cancel(u) ==
  /\ pc' = [r \in Runs |-> IF r \in Queue /\ owner[r] = u THEN "dropped" ELSE pc[r]]
  /\ aborted' = IF /\ running
                   /\ u \in Admins \/ cur = u
                   /\ ~committed
                THEN aborted \cup {active}
                ELSE aborted
  /\ <<pc', aborted'>> # <<pc, aborted>>
  /\ UNCHANGED <<submitted, owner, memory, rows, born, server>>

-----------------------------------------------------------------------------
(* The steps of one run. *)

\* jobRecorder.start is best effort: a failure leaves the run without a row it
\* knows of, and the run goes on
JobStart(r) ==
  /\ pc[r] = "jobStart"
  /\ \E out \in Outcomes :
       /\ job' = IF Applied(out) THEN [job EXCEPT ![r] = "running"] ELSE job
       /\ lostJob' = IF out = "lost" THEN lostJob \cup {r} ELSE lostJob
  /\ Goto(r, "stage")
  /\ UNCHANGED <<submitted, owner, aborted, batch, lostBatch, server>>

\* collect to filter: the stage ends in a checkpoint, or throws
Stage(r) ==
  /\ pc[r] = "stage"
  /\ Checkpoint(r, "insertBatch") \/ UnwindFailed(r)
  /\ UNCHANGED <<submitted, owner, aborted, rows, server>>

\* store() inserts the batch row; a failure here is not cleaned up
InsertBatch(r) ==
  /\ pc[r] = "insertBatch"
  /\ \E out \in Outcomes :
       /\ batch' = IF Applied(out) THEN [batch EXCEPT ![r] = "running"] ELSE batch
       /\ lostBatch' = IF out = "lost" THEN lostBatch \cup {r} ELSE lostBatch
       /\ IF out = "ok"
          THEN Goto(r, IF r \in aborted THEN "stopBatch" ELSE "save")
          ELSE UnwindFailed(r)
  /\ UNCHANGED <<submitted, owner, aborted, job, lostJob, server>>

\* mutant: an abort in the loop leaves store() without marking the batch
SaveWithoutCleanup(r) ==
  /\ pc[r] = "save"
  /\ IF r \in aborted THEN UnwindCancelled(r) ELSE Goto(r, "completeBatch")
  /\ UNCHANGED <<submitted, owner, aborted, rows, server>>

\* the chunks and single rows of store(): errors of single rows are counted,
\* an abort, or an error seen while aborted, leaves the loop
Save(r) ==
  /\ pc[r] = "save"
  /\ \/ Goto(r, IF r \in aborted THEN "stopBatch" ELSE "completeBatch")
     \/ r \in aborted /\ Goto(r, "failBatch")
  /\ UNCHANGED <<submitted, owner, aborted, rows, server>>

\* completeBatch, then the checkpoint and the optional auto-approval
CompleteBatch(r) ==
  /\ pc[r] = "completeBatch"
  /\ \E out \in Outcomes :
       /\ batch' = IF Applied(out) THEN [batch EXCEPT ![r] = "completed"] ELSE batch
       /\ IF out = "ok"
          THEN Checkpoint(r, "autoApprove") \/ Commit(r)
          ELSE Goto(r, "failBatch")
  /\ UNCHANGED <<submitted, owner, aborted, job, lostJob, lostBatch, server>>

\* the catch block of store(): mark the batch failed and rethrow; a cancelled
\* run whose batch cannot be marked fails with an aggregate error
FailBatch(r) ==
  /\ pc[r] \in {"stopBatch", "failBatch"}
  /\ \E out \in Outcomes :
       /\ batch' = IF Applied(out) THEN [batch EXCEPT ![r] = "failed"] ELSE batch
       /\ lostBatch' = IF out = "failed" THEN lostBatch \cup {r} ELSE lostBatch
       /\ IF pc[r] = "stopBatch" /\ out = "ok" THEN UnwindCancelled(r) ELSE UnwindFailed(r)
  /\ UNCHANGED <<submitted, owner, aborted, job, lostJob, server>>

\* autoApprove returns, observes the abort, or throws
AutoApprove(r) ==
  /\ pc[r] = "autoApprove"
  /\ Commit(r) \/ UnwindFailed(r)
  /\ UNCHANGED <<submitted, owner, aborted, rows, server>>

\* jobRecorder.complete; an error after the commitment still fails the run
Complete(r) ==
  /\ pc[r] = "complete"
  /\ \E out \in Outcomes :
       /\ job' = IF Applied(out) THEN [job EXCEPT ![r] = "completed"] ELSE job
       /\ IF out = "ok" THEN Finish(r, "completed") ELSE Goto(r, "failJob")
  /\ UNCHANGED <<submitted, owner, aborted, batch, lostJob, lostBatch, server>>

\* jobRecorder.cancel; an error there turns the cancellation into a failure
CancelJob(r) ==
  /\ pc[r] = "cancelJob"
  /\ \E out \in Outcomes :
       /\ job' = IF Applied(out) THEN [job EXCEPT ![r] = "cancelled"] ELSE job
       /\ IF out = "ok" THEN Finish(r, "cancelled") ELSE Goto(r, "failJob")
  /\ UNCHANGED <<submitted, owner, aborted, batch, lostJob, lostBatch, server>>

\* recordFailureSafely swallows its own error
FailJob(r) ==
  /\ pc[r] = "failJob"
  /\ \E out \in Outcomes :
       /\ job' = IF Applied(out) THEN [job EXCEPT ![r] = "failed"] ELSE job
       /\ lostJob' = IF out = "failed" THEN lostJob \cup {r} ELSE lostJob
  /\ Finish(r, "failed")
  /\ UNCHANGED <<submitted, owner, aborted, batch, lostBatch, server>>

RunStep(r) ==
  \/ JobStart(r) \/ Stage(r) \/ InsertBatch(r) \/ Save(r) \/ CompleteBatch(r)
  \/ FailBatch(r) \/ AutoApprove(r) \/ Complete(r) \/ CancelJob(r) \/ FailJob(r)

\* the active run takes a step
Advance == \E r \in Runs : RunStep(r)

-----------------------------------------------------------------------------
(* The rest of the process: crash and reboot, the sweep and the detector. *)

\* the process dies and boots again: the orchestrator's fields and its queue
\* are gone, the rows stay
Restart ==
  /\ boot < MaxBoots
  /\ boot' = boot + 1
  /\ sweep' = "jobs"
  /\ pc' = [r \in Runs |-> IF Live(r) \/ r \in Queue THEN "dead" ELSE pc[r]]
  /\ running' = FALSE /\ active' = 0 /\ cur' = NoUser /\ committed' = FALSE
  /\ UNCHANGED <<submitted, owner, aborted, rows, born>>

\* mutant: the sweep takes every running row
InterruptedAnyAge(status, r) == status[r] = "running"
\* rows an earlier process left running: started before this boot
Interrupted(status, r) == status[r] = "running" /\ born[r] < boot

\* markInterruptedJobs, first update; it runs while new runs may start
SweepJobs ==
  /\ sweep = "jobs"
  /\ job' = [r \in Runs |-> IF Interrupted(job, r) THEN "failed" ELSE job[r]]
  /\ sweep' = "batches"
  /\ UNCHANGED <<submitted, owner, pc, aborted, memory, batch,
                 lostJob, lostBatch, born, boot>>

\* markInterruptedJobs, second update
SweepBatches ==
  /\ sweep = "batches"
  /\ batch' = [r \in Runs |-> IF Interrupted(batch, r) THEN "failed" ELSE batch[r]]
  /\ sweep' = "idle"
  /\ UNCHANGED <<submitted, owner, pc, aborted, memory, job,
                 lostJob, lostBatch, born, boot>>

\* the sweep's error is logged and the sweep is not retried
SweepFails ==
  /\ sweep # "idle"
  /\ sweep' = "idle"
  /\ UNCHANGED <<submitted, owner, pc, aborted, memory, rows, born, boot>>

\* markStuck, at boot and every five minutes: any job row running for too long,
\* whether or not its run is still alive
MarkStuck(r) ==
  /\ job[r] = "running"
  /\ job' = [job EXCEPT ![r] = "stuck"]
  /\ UNCHANGED <<submitted, owner, pc, aborted, memory, batch,
                 lostJob, lostBatch, born, server>>

Next ==
  \/ \E u \in Users : Enqueue(u) \/ RunNow(u) \/ Cancel(u)
  \/ \E r \in Runs : RunStep(r) \/ MarkStuck(r)
  \/ Restart \/ SweepJobs \/ SweepBatches \/ SweepFails

Spec == Init /\ [][Next]_vars

\* the await of the active run ends: clients and providers have timeouts
FairSpec == Spec /\ WF_vars(Advance)

-----------------------------------------------------------------------------
(* Properties. *)

\* At most one run is between its start and its end, and it is the one the
\* orchestrator's fields describe: run() refuses and enqueue() parks while a
\* run is active, and the slot is freed only by the run that holds it.
SingleFlight ==
  /\ \A r \in Runs : Live(r) => r = active
  /\ running <=> active # 0
  /\ running => Live(active) /\ owner[active] = cur

\* A queued run always has an active run that will drain it: no submission is
\* left behind an idle orchestrator.
QueueHasServer == Queue # {} => running

\* A user has at most one run that waits or works, however the submissions and
\* cancellations of several users interleave.
OneRunPerUser ==
  \A r, s \in Runs :
    (r # s /\ {pc[r], pc[s]} \subseteq LiveSteps \cup {"queued"}) => owner[r] # owner[s]

\* A run submitted later never starts before a run that still waits, neither
\* through drainQueue nor through a direct run().
NoOvertaking ==
  \A q \in Queue : \A s \in Runs : s > q => pc[s] \in {"none", "queued", "dropped"}

\* Once cancel() has answered that the run is stopping, the run does not
\* complete and its job row is never recorded as completed.
CancelHonoured ==
  \A r \in aborted : pc[r] # "completed" /\ job[r] # "completed"

\* A run that ended left its rows in the state it ended in, whatever failed on
\* the way and whatever the detector did meanwhile, unless the closing write
\* itself was lost: the job row tells the result, and no batch stays running.
RowsSettled ==
  \A r \in Runs : pc[r] \in Results =>
    /\ r \notin lostJob => job[r] \in {"none", pc[r]}
    /\ r \notin lostBatch => batch[r] # "running"
    /\ pc[r] = "completed" => batch[r] = "completed"

\* The late start-up sweep never fails the rows of a run of this process.
SweepSparesLiveRuns ==
  [][\A r \in Runs : Live(r) =>
       /\ (job[r] = "running" /\ job'[r] = "failed") => pc[r] = "failJob"
       /\ (batch[r] = "running" /\ batch'[r] = "failed") => pc[r] \in {"stopBatch", "failBatch"}]_vars

\* Every queued run leaves the queue: it starts, or its user cancels it, or the
\* process restarts.
QueueDrains == \A r \in Runs : pc[r] = "queued" ~> pc[r] # "queued"

-----------------------------------------------------------------------------
(* What callers may rely on. *)

Phase == IF ~running THEN "idle"
         ELSE IF committed THEN "committed"
         ELSE IF active \in aborted THEN "stopping"
         ELSE "working"

Waiting == {[place |-> r, user |-> owner[r]] : r \in Queue}

Service == INSTANCE RunService WITH
             holder <- cur, phase <- Phase, waiting <- Waiting, Places <- Runs

\* The orchestrator implements the fair FIFO service that RunService promises to
\* the routes and the schedule: one holder, first come first served, a stop that
\* is final and a commitment that is final.
ImplementsRunService == Service!FairSpec
=============================================================================
