------------------------ MODULE PipelineQueueProofs ------------------------
(* Proofs about PipelineQueue for any users, runs, restarts and outcomes. *)
EXTENDS PipelineQueue, TLAPS

\* run numbers are handed out in order, and a run keeps nothing before it starts
Numbering ==
  \A r \in Runs :
    /\ r > submitted => pc[r] = "none"
    /\ pc[r] \in {"none", "queued", "jobStart"} => job[r] = "none"
    /\ pc[r] \in {"none", "queued"} => r \notin aborted
    /\ Live(r) => born[r] = boot

\* the window between the commitment and the end of a run
CommitWindow ==
  /\ committed => running /\ active \notin aborted /\ pc[active] \in {"complete", "failJob"}
  /\ \A r \in Runs : Live(r) /\ (pc[r] = "complete" \/ job[r] = "completed") => committed

\* the inductive invariant
IInv ==
  /\ TypeOK /\ SingleFlight /\ QueueHasServer /\ OneRunPerUser
  /\ NoOvertaking /\ CancelHonoured /\ Numbering /\ CommitWindow

\* In the beginning there is no row and no run.
LEMMA InitIInv == Init => IInv
<1> SUFFICES ASSUME Init PROVE IInv
  OBVIOUS
<1>1. TypeOK
  <2>1. 0 \in 0 .. MaxRuns /\ 0 \in 0 .. MaxBoots
    BY QueueAssumption
  <2>2. "none" \in Steps /\ "none" \in JobStatus /\ "none" \in BatchStatus
    BY DEF Steps, JobStatus, BatchStatus
  <2> QED BY <2>1, <2>2 DEF Init, TypeOK
<1>2. \A r \in Runs : ~Live(r) /\ pc[r] = "none"
  BY DEF Init, Live, LiveSteps
<1>3. Queue = {}
  BY <1>2 DEF Queue
<1>4. SingleFlight /\ QueueHasServer /\ OneRunPerUser /\ NoOvertaking
  BY <1>2, <1>3 DEF Init, SingleFlight, QueueHasServer, OneRunPerUser, NoOvertaking, LiveSteps
<1>5. CancelHonoured /\ Numbering /\ CommitWindow
  BY <1>2 DEF Init, CancelHonoured, Numbering, CommitWindow, Live
<1> QED BY <1>1, <1>4, <1>5 DEF IInv

\* A run moves on to another await; it may commit to complete on the way.
Moves(r) ==
  \E step \in LiveSteps \ {"jobStart"} :
    /\ pc' = [pc EXCEPT ![r] = step]
    /\ UNCHANGED <<running, active, cur, born>>
    /\ \/ committed' = committed /\ step # "complete"
       \/ committed' = TRUE /\ step = "complete" /\ r \notin aborted
    /\ committed => step = "failJob"

\* A run ends; only a run that was not aborted ends as completed.
Ends(r) == \E result \in Results : Finish(r, result) /\ (result = "completed" => r \notin aborted)

\* Every way a step leaves its await is a move or an end.
LEMMA ContinuationShape ==
  ASSUME IInv, NEW r \in Runs, Live(r)
  PROVE  /\ \A step \in LiveSteps \ {"jobStart", "complete"} :
              Goto(r, step) /\ (committed => step = "failJob") => Moves(r)
         /\ ~committed /\ UnwindCancelled(r) => Moves(r) \/ Ends(r)
         /\ UnwindFailed(r) => Moves(r) \/ Ends(r)
         /\ \A step \in LiveSteps \ {"jobStart", "complete"} :
              ~committed /\ Checkpoint(r, step) => Moves(r) \/ Ends(r)
         /\ ~committed /\ Commit(r) => Moves(r) \/ Ends(r)
<1>1. \A step \in LiveSteps \ {"jobStart", "complete"} :
        Goto(r, step) /\ (committed => step = "failJob") => Moves(r)
  BY DEF Goto, memory, Moves
<1>2. {"cancelJob", "failJob"} \subseteq LiveSteps \ {"jobStart", "complete"}
  BY DEF LiveSteps
<1>3. ~committed /\ UnwindCancelled(r) => Moves(r) \/ Ends(r)
  BY <1>1, <1>2 DEF UnwindCancelled, Ends, Results
<1>4. UnwindFailed(r) => Moves(r) \/ Ends(r)
  BY <1>1, <1>2 DEF UnwindFailed, Ends, Results
<1>5. \A step \in LiveSteps \ {"jobStart", "complete"} :
        ~committed /\ Checkpoint(r, step) => Moves(r) \/ Ends(r)
  BY <1>1, <1>3 DEF Checkpoint
<1>6. ~committed /\ Commit(r) => Moves(r) \/ Ends(r)
  BY <1>3 DEF Commit, Moves, Ends, Results, LiveSteps
<1> QED BY <1>1, <1>3, <1>4, <1>5, <1>6

\* The shape of every step of a run: the run that steps is the active one, it
\* moves on or ends, and it touches the rows of no other run.
LEMMA RunStepShape ==
  ASSUME IInv, NEW r \in Runs, RunStep(r)
  PROVE  /\ Live(r) /\ r = active
         /\ UNCHANGED <<submitted, owner, aborted, boot, sweep>>
         /\ job' \in [Runs -> JobStatus] /\ batch' \in [Runs -> BatchStatus]
         /\ lostJob' \subseteq Runs /\ lostBatch' \subseteq Runs
         /\ \A s \in Runs \ {r} : job'[s] = job[s]
         /\ job'[r] = "completed" /\ job[r] # "completed" => pc[r] = "complete"
         /\ Moves(r) \/ Ends(r)
<1> DEFINE Framed == /\ UNCHANGED <<submitted, owner, aborted, boot, sweep>>
                     /\ job' \in [Runs -> JobStatus] /\ batch' \in [Runs -> BatchStatus]
                     /\ lostJob' \subseteq Runs /\ lostBatch' \subseteq Runs
                     /\ \A s \in Runs \ {r} : job'[s] = job[s]
                     /\ job'[r] = "completed" /\ job[r] # "completed" => pc[r] = "complete"
<1>1. Live(r) /\ r = active
  BY DEF RunStep, JobStart, Stage, InsertBatch, Save, CompleteBatch, FailBatch, AutoApprove,
         Complete, CancelJob, FailJob, Live, LiveSteps, IInv, SingleFlight
<1>2. committed => pc[r] \in {"complete", "failJob"}
  BY <1>1 DEF IInv, CommitWindow
<1>3. TypeOK
  BY DEF IInv
<1>4. "stage" \in LiveSteps /\ "insertBatch" \in LiveSteps /\ "save" \in LiveSteps
      /\ "stopBatch" \in LiveSteps /\ "failBatch" \in LiveSteps /\ "completeBatch" \in LiveSteps
      /\ "autoApprove" \in LiveSteps /\ "failJob" \in LiveSteps
  BY DEF LiveSteps
<1> USE <1>1, <1>2, <1>3, <1>4, ContinuationShape
<1>5. CASE JobStart(r)
  <2>1. Framed BY <1>5 DEF JobStart, TypeOK, JobStatus, server
  <2>2. Moves(r) BY <1>5 DEF JobStart
  <2> QED BY <2>1, <2>2
<1>6. CASE Stage(r)
  <2>1. Framed BY <1>6 DEF Stage, TypeOK, rows, server
  <2>2. Moves(r) \/ Ends(r) BY <1>6 DEF Stage
  <2> QED BY <2>1, <2>2
<1>7. CASE InsertBatch(r)
  <2>1. Framed BY <1>7 DEF InsertBatch, TypeOK, BatchStatus, server
  <2>2. Moves(r) \/ Ends(r) BY <1>7 DEF InsertBatch
  <2> QED BY <2>1, <2>2
<1>8. CASE Save(r)
  <2>1. Framed BY <1>8 DEF Save, TypeOK, rows, server
  <2>2. Moves(r) BY <1>8 DEF Save
  <2> QED BY <2>1, <2>2
<1>9. CASE CompleteBatch(r)
  <2>1. Framed BY <1>9 DEF CompleteBatch, TypeOK, BatchStatus, server
  <2>2. Moves(r) \/ Ends(r) BY <1>9 DEF CompleteBatch
  <2> QED BY <2>1, <2>2
<1>10. CASE FailBatch(r)
  <2>1. Framed BY <1>10 DEF FailBatch, TypeOK, BatchStatus, server
  <2>2. Moves(r) \/ Ends(r) BY <1>10 DEF FailBatch
  <2> QED BY <2>1, <2>2
<1>11. CASE AutoApprove(r)
  <2>1. Framed BY <1>11 DEF AutoApprove, TypeOK, rows, server
  <2>2. Moves(r) \/ Ends(r) BY <1>11 DEF AutoApprove
  <2> QED BY <2>1, <2>2
<1>12. CASE Complete(r)
  <2>1. Framed BY <1>12 DEF Complete, TypeOK, JobStatus, server
  <2>2. r \notin aborted
    BY <1>12 DEF Complete, IInv, CommitWindow
  <2>3. Moves(r) \/ Ends(r) BY <1>12, <2>2 DEF Complete, Ends, Results
  <2> QED BY <2>1, <2>3
<1>13. CASE CancelJob(r)
  <2>1. Framed BY <1>13 DEF CancelJob, TypeOK, JobStatus, server
  <2>2. Moves(r) \/ Ends(r) BY <1>13 DEF CancelJob, Ends, Results
  <2> QED BY <2>1, <2>2
<1>14. CASE FailJob(r)
  <2>1. Framed BY <1>14 DEF FailJob, TypeOK, JobStatus, server
  <2>2. Ends(r) BY <1>14 DEF FailJob, Ends, Results
  <2> QED BY <2>1, <2>2
<1> QED BY <1>5, <1>6, <1>7, <1>8, <1>9, <1>10, <1>11, <1>12, <1>13, <1>14 DEF RunStep

\* A run that moves on keeps the invariant.
LEMMA MovesIInv == ASSUME IInv, NEW r \in Runs, RunStep(r), Moves(r) PROVE IInv'
<1>1. PICK step \in LiveSteps \ {"jobStart"} :
        /\ pc' = [pc EXCEPT ![r] = step]
        /\ UNCHANGED <<running, active, cur, born>>
        /\ \/ committed' = committed /\ step # "complete"
           \/ committed' = TRUE /\ step = "complete" /\ r \notin aborted
        /\ committed => step = "failJob"
  BY DEF Moves
<1>2. /\ Live(r) /\ r = active
      /\ UNCHANGED <<submitted, owner, aborted, boot, sweep>>
      /\ job' \in [Runs -> JobStatus] /\ batch' \in [Runs -> BatchStatus]
      /\ lostJob' \subseteq Runs /\ lostBatch' \subseteq Runs
      /\ \A s \in Runs \ {r} : job'[s] = job[s]
      /\ job'[r] = "completed" /\ job[r] # "completed" => pc[r] = "complete"
  BY RunStepShape
<1>3. TypeOK
  BY DEF IInv
<1>4. /\ pc'[r] = step
      /\ \A s \in Runs \ {r} : pc'[s] = pc[s]
      /\ step \in LiveSteps /\ step \notin {"none", "queued", "dropped", "jobStart"} \cup Results
  BY <1>1, <1>3 DEF TypeOK, LiveSteps, Results
<1>5. \A s \in Runs : Live(s)' <=> Live(s)
  BY <1>2, <1>4 DEF Live
<1>6. Queue' = Queue
  BY <1>2, <1>4 DEF Queue, Live, LiveSteps
<1>7. TypeOK'
  BY <1>1, <1>2, <1>3, <1>4 DEF TypeOK, Steps
<1>8. SingleFlight' /\ QueueHasServer'
  BY <1>1, <1>2, <1>5, <1>6 DEF IInv, SingleFlight, QueueHasServer
<1>9. OneRunPerUser'
  BY <1>2, <1>4 DEF IInv, OneRunPerUser, Live
<1>10. NoOvertaking'
  <2> SUFFICES ASSUME NEW q \in Queue, NEW s \in Runs, s > q
               PROVE  pc'[s] \in {"none", "queued", "dropped"}
    BY <1>6 DEF NoOvertaking
  <2>1. pc[s] \in {"none", "queued", "dropped"}
    BY DEF IInv, NoOvertaking
  <2> QED BY <2>1, <1>2, <1>4 DEF Live, LiveSteps
<1>11. CancelHonoured'
  <2>1. pc'[r] # "completed"
    BY <1>4 DEF Results
  <2>2. r \in aborted => job'[r] # "completed"
    BY <1>2 DEF IInv, CancelHonoured, CommitWindow
  <2> QED BY <2>1, <2>2, <1>2, <1>3, <1>4 DEF IInv, CancelHonoured, TypeOK
<1>12. Numbering'
  BY <1>1, <1>2, <1>4, <1>5 DEF IInv, Numbering, Live, LiveSteps
<1>13. CommitWindow'
  <2>1. running' /\ active' = r
    BY <1>1, <1>2 DEF IInv, SingleFlight, Runs
  <2>2. committed' => r \notin aborted' /\ pc'[r] \in {"complete", "failJob"}
    BY <1>1, <1>2, <1>3, <1>4 DEF IInv, CommitWindow, TypeOK
  <2>3. ASSUME NEW s \in Runs, Live(s)', pc'[s] = "complete" \/ job'[s] = "completed"
        PROVE  committed'
    <3>1. s = r
      BY <2>3, <1>2, <1>5 DEF IInv, SingleFlight
    <3>2. CASE committed' = TRUE
      BY <3>2
    <3>3. CASE committed' = committed /\ step # "complete"
      BY <3>1, <3>3, <2>3, <1>2, <1>4 DEF IInv, CommitWindow
    <3> QED BY <3>2, <3>3, <1>1
  <2> QED BY <2>1, <2>2, <2>3 DEF CommitWindow
<1> QED BY <1>7, <1>8, <1>9, <1>10, <1>11, <1>12, <1>13 DEF IInv

\* A run that ends frees the slot or hands it to the oldest queued run.
LEMMA EndsIInv == ASSUME IInv, NEW r \in Runs, RunStep(r), Ends(r) PROVE IInv'
<1>1. PICK result \in Results : Finish(r, result) /\ (result = "completed" => r \notin aborted)
  BY DEF Ends
<1>2. /\ Live(r) /\ r = active
      /\ UNCHANGED <<submitted, owner, aborted, boot, sweep>>
      /\ job' \in [Runs -> JobStatus] /\ batch' \in [Runs -> BatchStatus]
      /\ lostJob' \subseteq Runs /\ lostBatch' \subseteq Runs
      /\ \A s \in Runs \ {r} : job'[s] = job[s]
      /\ job'[r] = "completed" /\ job[r] # "completed" => pc[r] = "complete"
  BY RunStepShape
<1>3. TypeOK /\ SingleFlight
  BY DEF IInv
<1>4. result \in Steps /\ result \notin LiveSteps \cup {"none", "queued", "dropped"}
  BY DEF Results, Steps, LiveSteps
<1>5. r \in aborted => job'[r] # "completed" /\ result # "completed"
  BY <1>1, <1>2 DEF IInv, CancelHonoured, CommitWindow
<1>6. CASE /\ Queue = {} /\ pc' = [pc EXCEPT ![r] = result] /\ UNCHANGED born
           /\ running' = FALSE /\ active' = 0 /\ cur' = NoUser /\ committed' = FALSE
  <2>1. pc'[r] = result /\ \A s \in Runs \ {r} : pc'[s] = pc[s]
    BY <1>3, <1>6 DEF TypeOK
  <2>2. \A s \in Runs : ~Live(s)'
    BY <2>1, <1>2, <1>3, <1>4 DEF Live, SingleFlight
  <2>3. Queue' = {}
    BY <2>1, <1>4, <1>6 DEF Queue
  <2>4. TypeOK'
    BY <1>2, <1>3, <1>4, <1>6 DEF TypeOK
  <2>5. SingleFlight' /\ QueueHasServer' /\ NoOvertaking'
    BY <2>2, <2>3, <1>6 DEF SingleFlight, QueueHasServer, NoOvertaking
  <2>6. OneRunPerUser'
    BY <2>2, <2>3 DEF OneRunPerUser, Live, Queue
  <2>7. CancelHonoured'
    BY <2>1, <1>2, <1>3, <1>5 DEF IInv, CancelHonoured, TypeOK
  <2>8. Numbering'
    BY <2>1, <2>2, <1>2, <1>4 DEF IInv, Numbering, Live, LiveSteps
  <2>9. CommitWindow'
    BY <2>2, <1>6 DEF CommitWindow
  <2> QED BY <2>4, <2>5, <2>6, <2>7, <2>8, <2>9 DEF IInv
<1>7. ASSUME NEW n \in Heads,
             pc' = [pc EXCEPT ![r] = result, ![n] = "jobStart"],
             born' = [born EXCEPT ![n] = boot],
             Occupy(n, owner[n])
      PROVE  IInv'
  <2>1. n \in Runs /\ n # r /\ pc[n] = "queued" /\ n \in Queue
    BY <1>2, <1>7 DEF Heads, Queue, Live, LiveSteps
  <2>2. /\ pc'[r] = result /\ pc'[n] = "jobStart"
        /\ \A s \in Runs \ {r, n} : pc'[s] = pc[s]
    BY <1>3, <1>7, <2>1 DEF TypeOK
  <2>3. running' = TRUE /\ active' = n /\ cur' = owner[n] /\ committed' = FALSE
    BY <1>7 DEF Occupy
  <2>4. \A s \in Runs : Live(s)' <=> s = n
    BY <2>1, <2>2, <1>2, <1>3, <1>4 DEF Live, SingleFlight, LiveSteps
  <2>5. Queue' = Queue \ {n}
    BY <2>1, <2>2, <1>2, <1>4 DEF Queue, Live, LiveSteps
  <2>6. TypeOK'
    <3>1. result \in Steps /\ "jobStart" \in Steps
      BY <1>4 DEF Steps, LiveSteps
    <3>2. boot \in 0 .. MaxBoots /\ n \in Runs /\ owner[n] \in Users \cup {NoUser}
      BY <1>3, <2>1 DEF TypeOK
    <3>3. pc' \in [Runs -> Steps] /\ born' \in [Runs -> 0 .. MaxBoots]
      BY <1>3, <1>7, <3>1, <3>2 DEF TypeOK
    <3> QED BY <1>2, <1>3, <2>3, <3>2, <3>3 DEF TypeOK
  <2>7. SingleFlight' /\ QueueHasServer'
    <3>1. n # 0
      BY <2>1 DEF Runs
    <3> QED BY <1>2, <2>1, <2>3, <2>4, <3>1 DEF SingleFlight, QueueHasServer
  <2>8. OneRunPerUser'
    <3>1. \A s \in Runs : pc'[s] \in LiveSteps \cup {"queued"} => pc[s] \in LiveSteps \cup {"queued"}
      BY <2>1, <2>2, <1>4
    <3> QED BY <1>2, <3>1 DEF IInv, OneRunPerUser
  <2>9. NoOvertaking'
    <3> SUFFICES ASSUME NEW q \in Queue \ {n}, NEW s \in Runs, s > q
                 PROVE  pc'[s] \in {"none", "queued", "dropped"}
      BY <2>5 DEF NoOvertaking
    <3>1. n <= q /\ n \in Nat /\ q \in Nat /\ s \in Nat
      BY <1>7, <2>1 DEF Heads, Queue, Runs
    <3>2. s # n
      BY <3>1
    <3>3. pc[s] \in {"none", "queued", "dropped"}
      BY DEF IInv, NoOvertaking
    <3>4. s # r
      BY <3>3, <1>2 DEF Live, LiveSteps
    <3> QED BY <3>2, <3>3, <3>4, <2>2
  <2>10. CancelHonoured'
    BY <2>1, <2>2, <1>2, <1>3, <1>5 DEF IInv, CancelHonoured, Numbering, TypeOK
  <2>11. Numbering'
    <3>1. born'[n] = boot
      BY <1>3, <1>7, <2>1 DEF TypeOK
    <3>2. n \notin aborted /\ job'[n] = "none" /\ ~(n > submitted)
      BY <1>2, <2>1 DEF IInv, Numbering
    <3>3. ~(r > submitted)
      BY <1>2 DEF IInv, Numbering, Live, LiveSteps
    <3> QED BY <3>1, <3>2, <3>3, <2>2, <2>4, <1>2, <1>4 DEF IInv, Numbering, LiveSteps
  <2>12. CommitWindow'
    BY <1>2, <2>1, <2>2, <2>3, <2>4 DEF CommitWindow, IInv, Numbering
  <2> QED BY <2>6, <2>7, <2>8, <2>9, <2>10, <2>11, <2>12 DEF IInv
<1> QED BY <1>1, <1>2, <1>6, <1>7 DEF Finish

\* The callers keep the invariant: a submission takes a fresh number.
LEMMA LaunchIInv ==
  ASSUME IInv, NEW u \in Users, submitted < MaxRuns, ~running,
         submitted' = submitted + 1, Launch(submitted + 1, u),
         UNCHANGED <<aborted, rows, server>>
  PROVE  IInv'
<1> DEFINE n == submitted + 1
<1>1. TypeOK /\ SingleFlight /\ Numbering
  BY DEF IInv
<1>2. n \in Runs /\ n # 0 /\ n > submitted /\ submitted' \in 0 .. MaxRuns
      /\ \A s \in Runs : s > submitted' => s > submitted
  BY <1>1, QueueAssumption DEF TypeOK, Runs
<1>3. pc[n] = "none" /\ job[n] = "none" /\ n \notin aborted
  BY <1>1, <1>2 DEF Numbering
<1>4. /\ pc' = [pc EXCEPT ![n] = "jobStart"] /\ owner' = [owner EXCEPT ![n] = u]
      /\ born' = [born EXCEPT ![n] = boot]
      /\ running' = TRUE /\ active' = n /\ cur' = u /\ committed' = FALSE
  BY DEF Launch, Occupy
<1>5. /\ pc'[n] = "jobStart" /\ owner'[n] = u /\ born'[n] = boot
      /\ \A s \in Runs \ {n} : pc'[s] = pc[s] /\ owner'[s] = owner[s] /\ born'[s] = born[s]
  BY <1>1, <1>2, <1>4 DEF TypeOK
<1>6. /\ UNCHANGED <<aborted, boot, sweep, job, batch, lostJob, lostBatch>>
  BY DEF rows, server
<1>7. \A s \in Runs : ~Live(s)
  BY <1>1 DEF SingleFlight, Runs
<1>8. Queue = {}
  BY DEF IInv, QueueHasServer
<1>9. \A s \in Runs : Live(s)' <=> s = n
  BY <1>2, <1>5, <1>7 DEF Live, LiveSteps
<1>10. Queue' = {}
  BY <1>5, <1>8 DEF Queue
<1>11. TypeOK'
  <2>1. "jobStart" \in Steps
    BY DEF Steps, LiveSteps
  <2>2. boot \in 0 .. MaxBoots
    BY <1>1 DEF TypeOK
  <2>3. pc' \in [Runs -> Steps] /\ owner' \in [Runs -> Users \cup {NoUser}]
        /\ born' \in [Runs -> 0 .. MaxBoots]
    BY <1>1, <1>2, <1>4, <2>1, <2>2 DEF TypeOK
  <2> QED BY <1>1, <1>2, <1>4, <1>6, <2>3 DEF TypeOK
<1>12. SingleFlight' /\ QueueHasServer' /\ NoOvertaking'
  BY <1>2, <1>4, <1>5, <1>9, <1>10 DEF SingleFlight, QueueHasServer, NoOvertaking
<1>13. OneRunPerUser'
  BY <1>9, <1>10 DEF OneRunPerUser, Live, Queue
<1>14. CancelHonoured'
  BY <1>1, <1>5, <1>6 DEF IInv, CancelHonoured, TypeOK
<1>15. Numbering'
  BY <1>2, <1>3, <1>5, <1>6, <1>9 DEF IInv, Numbering
<1>16. CommitWindow'
  BY <1>2, <1>3, <1>4, <1>5, <1>6, <1>9 DEF CommitWindow
<1> QED BY <1>11, <1>12, <1>13, <1>14, <1>15, <1>16 DEF IInv

\* A request starts a run, is queued, or is refused as the second of its user.
LEMMA EnqueueIInv == ASSUME IInv, NEW u \in Users, Enqueue(u) PROVE IInv'
<1>1. CASE ~running
  BY <1>1, LaunchIInv DEF Enqueue
<1>2. CASE running
  <2> DEFINE n == submitted + 1
  <2>1. TypeOK /\ SingleFlight /\ Numbering
    BY DEF IInv
  <2>2. /\ n \in Runs /\ n > submitted /\ submitted' \in 0 .. MaxRuns
        /\ \A s \in Runs : (s > submitted' => s > submitted) /\ (s > n => s > submitted)
    BY <2>1, QueueAssumption DEF Enqueue, TypeOK, Runs
  <2>3. pc[n] = "none" /\ job[n] = "none" /\ n \notin aborted
    BY <2>1, <2>2 DEF Numbering
  <2>4. /\ cur # u /\ \A q \in Queue : owner[q] # u
        /\ owner' = [owner EXCEPT ![n] = u] /\ pc' = [pc EXCEPT ![n] = "queued"]
        /\ submitted' = n
        /\ UNCHANGED <<running, active, cur, committed, born, aborted, boot, sweep, job, batch,
                       lostJob, lostBatch>>
    BY <1>2 DEF Enqueue, memory, rows, server
  <2>5. /\ pc'[n] = "queued" /\ owner'[n] = u
        /\ \A s \in Runs \ {n} : pc'[s] = pc[s] /\ owner'[s] = owner[s]
    BY <2>1, <2>2, <2>4 DEF TypeOK
  <2>6. \A s \in Runs : Live(s)' <=> Live(s)
    BY <2>3, <2>5 DEF Live, LiveSteps
  <2>7. Queue' = Queue \cup {n}
    BY <2>2, <2>5 DEF Queue
  <2>8. n # active /\ ~Live(n)
    BY <1>2, <2>1, <2>3 DEF SingleFlight, Live, LiveSteps
  <2>9. TypeOK'
    <3>1. pc' \in [Runs -> Steps] /\ owner' \in [Runs -> Users \cup {NoUser}]
      BY <2>1, <2>2, <2>4 DEF TypeOK, Steps
    <3> QED BY <2>1, <2>2, <2>4, <3>1 DEF TypeOK
  <2>10. SingleFlight' /\ QueueHasServer'
    BY <1>2, <2>1, <2>4, <2>5, <2>6, <2>8 DEF SingleFlight, QueueHasServer, TypeOK, Runs
  <2>11. OneRunPerUser'
    <3>1. \A s \in Runs \ {n} : pc[s] \in LiveSteps \cup {"queued"} => owner[s] # u
      BY <1>2, <2>1, <2>4 DEF SingleFlight, Live, Queue
    <3> QED BY <3>1, <2>5 DEF IInv, OneRunPerUser
  <2>12. NoOvertaking'
    <3>1. \A s \in Runs : s > n => pc'[s] = "none"
      <4> SUFFICES ASSUME NEW s \in Runs, s > n PROVE pc'[s] = "none"
        OBVIOUS
      <4>1. s > submitted /\ s # n
        BY <2>1, <2>2 DEF Runs, TypeOK
      <4> QED BY <4>1, <2>1, <2>5 DEF Numbering
    <3> QED BY <3>1, <2>5, <2>7 DEF IInv, NoOvertaking
  <2>13. CancelHonoured'
    BY <2>1, <2>4, <2>5 DEF IInv, CancelHonoured, TypeOK
  <2>14. Numbering'
    BY <2>2, <2>3, <2>4, <2>5, <2>6 DEF IInv, Numbering
  <2>15. CommitWindow'
    BY <1>2, <2>1, <2>3, <2>4, <2>5, <2>6, <2>8 DEF IInv, CommitWindow, TypeOK
  <2> QED BY <2>9, <2>10, <2>11, <2>12, <2>13, <2>14, <2>15 DEF IInv
<1> QED BY <1>1, <1>2

\* A cancellation takes a row out of the queue, or sets the flag of the run.
LEMMA CancelIInv == ASSUME IInv, NEW u \in Users, Cancel(u) PROVE IInv'
<1>1. TypeOK /\ SingleFlight
  BY DEF IInv
<1>2. \A r \in Runs : pc'[r] = pc[r] \/ (pc[r] = "queued" /\ pc'[r] = "dropped")
  BY DEF Cancel, Queue
<1>3. \A r \in Runs : Live(r)' <=> Live(r)
  BY <1>2 DEF Live, LiveSteps
<1>4. Queue' \subseteq Queue
  BY <1>2 DEF Queue
<1>5. UNCHANGED <<submitted, owner, running, active, cur, committed, born, boot, sweep, job,
                  batch, lostJob, lostBatch>>
  BY DEF Cancel, memory, rows, server
<1>6. \/ aborted' = aborted
      \/ running /\ ~committed /\ aborted' = aborted \cup {active}
  BY DEF Cancel
<1>7. running => active \in Runs /\ Live(active)
  BY <1>1 DEF TypeOK, SingleFlight
<1>8. TypeOK'
  <2>1. pc' \in [Runs -> Steps]
    BY <1>1 DEF Cancel, TypeOK, Steps
  <2> QED BY <1>1, <1>5, <1>6, <1>7, <2>1 DEF TypeOK
<1>9. SingleFlight' /\ QueueHasServer'
  BY <1>1, <1>3, <1>4, <1>5, <1>7 DEF IInv, SingleFlight, QueueHasServer
<1>10. OneRunPerUser' /\ NoOvertaking'
  BY <1>2, <1>4, <1>5 DEF IInv, OneRunPerUser, NoOvertaking, LiveSteps
<1>11. CancelHonoured'
  <2>1. running /\ ~committed => pc[active] # "completed" /\ job[active] # "completed"
    BY <1>7 DEF IInv, CommitWindow, Live, LiveSteps
  <2>2. \A r \in aborted' : r \in Runs /\ pc[r] # "completed" /\ job[r] # "completed"
    BY <2>1, <1>1, <1>6, <1>7 DEF IInv, CancelHonoured, TypeOK
  <2> QED BY <2>2, <1>2, <1>5 DEF CancelHonoured
<1>12. Numbering'
  BY <1>2, <1>3, <1>5, <1>6, <1>7 DEF IInv, Numbering, Live, LiveSteps
<1>13. CommitWindow'
  BY <1>1, <1>2, <1>3, <1>5, <1>6, <1>7 DEF IInv, CommitWindow, TypeOK
<1> QED BY <1>8, <1>9, <1>10, <1>11, <1>12, <1>13 DEF IInv

\* The process-wide actions keep the invariant.
LEMMA RestartIInv == ASSUME IInv, Restart PROVE IInv'
<1>1. TypeOK
  BY DEF IInv
<1>2. \A r \in Runs :
        IF Live(r) \/ pc[r] = "queued" THEN pc'[r] = "dead" ELSE pc'[r] = pc[r]
  BY DEF Restart, Live, Queue
<1>3. \A r \in Runs : ~Live(r)'
  BY <1>2 DEF Live, LiveSteps
<1>4. Queue' = {}
  BY <1>2 DEF Queue
<1>5. UNCHANGED <<submitted, owner, aborted, job, batch, lostJob, lostBatch, born>>
      /\ running' = FALSE /\ active' = 0 /\ cur' = NoUser /\ committed' = FALSE
      /\ boot' = boot + 1 /\ boot < MaxBoots /\ sweep' = "jobs"
  BY DEF Restart, rows
<1>6. TypeOK'
  <2>1. pc' \in [Runs -> Steps]
    BY <1>1 DEF Restart, TypeOK, Steps
  <2>2. boot' \in 0 .. MaxBoots
    BY <1>1, <1>5, QueueAssumption DEF TypeOK
  <2> QED BY <1>1, <1>5, <2>1, <2>2 DEF TypeOK
<1>7. SingleFlight' /\ QueueHasServer' /\ NoOvertaking' /\ CommitWindow'
  BY <1>3, <1>4, <1>5 DEF SingleFlight, QueueHasServer, NoOvertaking, CommitWindow
<1>8. OneRunPerUser'
  BY <1>3, <1>4 DEF OneRunPerUser, Live, Queue
<1>9. CancelHonoured'
  BY <1>1, <1>2, <1>5 DEF IInv, CancelHonoured, TypeOK
<1>10. Numbering'
  BY <1>2, <1>3, <1>5 DEF IInv, Numbering, Live, LiveSteps
<1> QED BY <1>6, <1>7, <1>8, <1>9, <1>10 DEF IInv

\* a row that changes behind the back of a run was running and is not completed
LEMMA BackgroundIInv ==
  ASSUME IInv,
         UNCHANGED <<submitted, owner, pc, aborted, running, active, cur, committed, born, boot>>,
         job' \in [Runs -> JobStatus], batch' \in [Runs -> BatchStatus],
         sweep' \in {"jobs", "batches", "idle"}, UNCHANGED <<lostJob, lostBatch>>,
         \A r \in Runs : job'[r] = job[r] \/ (job[r] = "running" /\ job'[r] # "completed")
  PROVE  IInv'
<1>1. TypeOK'
  BY DEF IInv, TypeOK
<1>2. SingleFlight' /\ QueueHasServer' /\ OneRunPerUser' /\ NoOvertaking'
  BY DEF IInv, SingleFlight, QueueHasServer, OneRunPerUser, NoOvertaking, Queue, Live
<1>3. CancelHonoured'
  BY DEF IInv, CancelHonoured, TypeOK
<1>4. Numbering'
  BY DEF IInv, Numbering, Live
<1>5. CommitWindow'
  BY DEF IInv, CommitWindow, Live
<1> QED BY <1>1, <1>2, <1>3, <1>4, <1>5 DEF IInv

\* Together: every step keeps the invariant.
LEMMA NextIInv == IInv /\ [Next]_vars => IInv'
<1> SUFFICES ASSUME IInv, [Next]_vars PROVE IInv'
  OBVIOUS
<1>1. ASSUME NEW u \in Users, Enqueue(u) PROVE IInv'
  BY <1>1, EnqueueIInv
<1>2. ASSUME NEW u \in Users, RunNow(u) PROVE IInv'
  BY <1>2, LaunchIInv DEF RunNow
<1>3. ASSUME NEW u \in Users, Cancel(u) PROVE IInv'
  BY <1>3, CancelIInv
<1>4. ASSUME NEW r \in Runs, RunStep(r) PROVE IInv'
  BY <1>4, RunStepShape, MovesIInv, EndsIInv
<1>5. ASSUME NEW r \in Runs, MarkStuck(r) PROVE IInv'
  BY <1>5, BackgroundIInv DEF MarkStuck, IInv, TypeOK, JobStatus, memory, server
<1>6. CASE Restart
  BY <1>6, RestartIInv
<1>7. CASE SweepJobs
  <2>1. job' \in [Runs -> JobStatus]
    BY <1>7 DEF SweepJobs, IInv, TypeOK, JobStatus
  <2> QED BY <1>7, <2>1, BackgroundIInv DEF SweepJobs, Interrupted, IInv, TypeOK, memory
<1>8. CASE SweepBatches
  <2>1. batch' \in [Runs -> BatchStatus]
    BY <1>8 DEF SweepBatches, IInv, TypeOK, BatchStatus
  <2> QED BY <1>8, <2>1, BackgroundIInv DEF SweepBatches, IInv, TypeOK, memory
<1>9. CASE SweepFails
  BY <1>9, BackgroundIInv DEF SweepFails, IInv, TypeOK, memory, rows
<1>10. CASE UNCHANGED vars
  BY <1>10, BackgroundIInv DEF vars, memory, rows, server, IInv, TypeOK
<1> QED BY <1>1, <1>2, <1>3, <1>4, <1>5, <1>6, <1>7, <1>8, <1>9, <1>10 DEF Next

\* The inductive invariant of the queue, the rows and the run under way.
THEOREM Invariance == Spec => []IInv
BY InitIInv, NextIInv, PTL DEF Spec

\* Type correctness of the orchestrator, its rows and the sweep.
THEOREM TypeCorrect == Spec => []TypeOK
<1>1. IInv => TypeOK
  BY DEF IInv
<1> QED BY Invariance, <1>1, PTL

\* One run at a time, whatever users submit and however runs fail and restart.
THEOREM SingleFlightHolds == Spec => []SingleFlight
<1>1. IInv => SingleFlight
  BY DEF IInv
<1> QED BY Invariance, <1>1, PTL

\* No queued run is left without a run that drains the queue, no user holds two
\* places, and nobody overtakes a waiting run.
THEOREM FairQueue == Spec => [](QueueHasServer /\ OneRunPerUser /\ NoOvertaking)
<1>1. IInv => QueueHasServer /\ OneRunPerUser /\ NoOvertaking
  BY DEF IInv
<1> QED BY Invariance, <1>1, PTL

\* A run whose cancellation was accepted never completes.
THEOREM CancelIsFinal == Spec => []CancelHonoured
<1>1. IInv => CancelHonoured
  BY DEF IInv
<1> QED BY Invariance, <1>1, PTL

\* The late sweep of interrupted rows spares the runs of this process.
THEOREM SweepIsSafe == Spec => SweepSparesLiveRuns
<1> DEFINE Spared == \A r \in Runs : Live(r) =>
       /\ (job[r] = "running" /\ job'[r] = "failed") => pc[r] = "failJob"
       /\ (batch[r] = "running" /\ batch'[r] = "failed") => pc[r] \in {"stopBatch", "failBatch"}
<1>1. IInv /\ [Next]_vars => [Spared]_vars
  <2> SUFFICES ASSUME IInv, Next, NEW r \in Runs, Live(r)
               PROVE  /\ (job[r] = "running" /\ job'[r] = "failed") => pc[r] = "failJob"
                      /\ (batch[r] = "running" /\ batch'[r] = "failed")
                           => pc[r] \in {"stopBatch", "failBatch"}
    OBVIOUS
  <2>1. born[r] = boot /\ boot \in Nat /\ TypeOK
    BY DEF IInv, Numbering, TypeOK
  <2>2. ASSUME NEW u \in Users, Enqueue(u) \/ RunNow(u) \/ Cancel(u)
        PROVE  UNCHANGED <<job, batch>>
    BY <2>2 DEF Enqueue, RunNow, Cancel, rows
  <2>3. ASSUME NEW s \in Runs, MarkStuck(s)
        PROVE  UNCHANGED batch /\ job'[r] \in {job[r], "stuck"}
    BY <2>1, <2>3 DEF MarkStuck, TypeOK
  <2>4. ASSUME NEW s \in Runs, RunStep(s)
        PROVE  /\ (job[r] = "running" /\ job'[r] = "failed") => pc[r] = "failJob"
               /\ (batch[r] = "running" /\ batch'[r] = "failed")
                    => pc[r] \in {"stopBatch", "failBatch"}
    <3>1. s = r
      BY <2>4, RunStepShape DEF IInv, SingleFlight
    <3> QED BY <3>1, <2>1, <2>4 DEF RunStep, JobStart, Stage, InsertBatch, Save, CompleteBatch,
               FailBatch, AutoApprove, Complete, CancelJob, FailJob, rows, TypeOK
  <2>5. Restart \/ SweepFails => UNCHANGED <<job, batch>>
    BY DEF Restart, SweepFails, rows
  <2>6. SweepJobs => UNCHANGED batch /\ job'[r] = job[r]
    BY <2>1 DEF SweepJobs, Interrupted
  <2>7. SweepBatches => UNCHANGED job /\ batch'[r] = batch[r]
    BY <2>1 DEF SweepBatches, Interrupted
  <2> QED BY <2>2, <2>3, <2>4, <2>5, <2>6, <2>7 DEF Next
<1> QED BY Invariance, <1>1, PTL DEF Spec, SweepSparesLiveRuns

-----------------------------------------------------------------------------
(* The rows of a run that ended. *)

\* what the batch row holds while its run is on the way
BatchPhase ==
  \A r \in Runs :
    /\ pc[r] \in {"none", "queued", "jobStart", "stage", "insertBatch"} => batch[r] = "none"
    /\ pc[r] \in {"autoApprove", "complete"} => batch[r] = "completed"
    /\ pc[r] \in {"cancelJob", "failJob"} => r \in lostBatch \/ batch[r] # "running"

RowsInv == BatchPhase /\ RowsSettled

\* ending a run moves no other run except the one that starts
LEMMA FinishShape ==
  ASSUME TypeOK, NEW r \in Runs, pc[r] # "queued", NEW result, Finish(r, result)
  PROVE  /\ pc'[r] = result
         /\ \A s \in Runs \ {r} : pc'[s] = pc[s] \/ (pc[s] = "queued" /\ pc'[s] = "jobStart")
BY DEF Finish, Heads, Queue, TypeOK

\* The rows of the run that steps satisfy the invariant afterwards.
LEMMA OwnRows ==
  ASSUME IInv, RowsInv, NEW r \in Runs, RunStep(r)
  PROVE  /\ pc'[r] \notin {"none", "queued", "jobStart"}
         /\ pc'[r] \in {"stage", "insertBatch"} => batch'[r] = "none"
         /\ pc'[r] \in {"autoApprove", "complete"} => batch'[r] = "completed"
         /\ pc'[r] \in {"cancelJob", "failJob"} => r \in lostBatch' \/ batch'[r] # "running"
         /\ pc'[r] \in Results =>
              /\ r \notin lostJob' => job'[r] \in {"none", pc'[r]}
              /\ r \notin lostBatch' => batch'[r] # "running"
              /\ pc'[r] = "completed" => batch'[r] = "completed"
<1> DEFINE OK == /\ pc'[r] \notin {"none", "queued", "jobStart"}
                 /\ pc'[r] \in {"stage", "insertBatch"} => batch'[r] = "none"
                 /\ pc'[r] \in {"autoApprove", "complete"} => batch'[r] = "completed"
                 /\ pc'[r] \in {"cancelJob", "failJob"} => r \in lostBatch' \/ batch'[r] # "running"
                 /\ pc'[r] \in Results =>
                      /\ r \notin lostJob' => job'[r] \in {"none", pc'[r]}
                      /\ r \notin lostBatch' => batch'[r] # "running"
                      /\ pc'[r] = "completed" => batch'[r] = "completed"
<1>1. TypeOK /\ pc[r] # "queued" /\ r \in Runs
  BY RunStepShape DEF IInv, Live, LiveSteps
<1>2. /\ \A step : Goto(r, step) => pc'[r] = step
      /\ \A result : Finish(r, result) => pc'[r] = result
  BY <1>1, FinishShape DEF Goto, TypeOK
<1>3. /\ UnwindCancelled(r) =>
           pc'[r] = "cancelJob" \/ (pc'[r] = "cancelled" /\ (job[r] = "none" \/ r \in lostJob))
      /\ UnwindFailed(r) =>
           pc'[r] = "failJob" \/ (pc'[r] = "failed" /\ (job[r] = "none" \/ r \in lostJob))
  BY <1>2 DEF UnwindCancelled, UnwindFailed, KnowsJob
<1>4. /\ \A step : Checkpoint(r, step) => pc'[r] = step \/ UnwindCancelled(r)
      /\ Commit(r) => \/ UnwindCancelled(r)
                      \/ pc'[r] = "complete"
                      \/ pc'[r] = "completed" /\ (job[r] = "none" \/ r \in lostJob)
  BY <1>1, <1>2 DEF Checkpoint, Commit, KnowsJob, TypeOK
<1> USE <1>1, <1>2, <1>3, <1>4 DEF RowsInv, BatchPhase, Results
<1>5. CASE JobStart(r)
  BY <1>5 DEF JobStart
<1>6. CASE Stage(r)
  BY <1>6 DEF Stage, rows
<1>7. CASE InsertBatch(r)
  BY <1>7 DEF InsertBatch, TypeOK, Applied
<1>8. CASE Save(r)
  BY <1>8 DEF Save
<1>9. CASE CompleteBatch(r)
  BY <1>9 DEF CompleteBatch, TypeOK, Applied
<1>10. CASE FailBatch(r)
  BY <1>10, QueueAssumption DEF FailBatch, TypeOK, Applied
<1>11. CASE AutoApprove(r)
  BY <1>11 DEF AutoApprove, rows
<1>12. CASE Complete(r)
  BY <1>12 DEF Complete, TypeOK, Applied
<1>13. CASE CancelJob(r)
  BY <1>13 DEF CancelJob, TypeOK, Applied
<1>14. CASE FailJob(r)
  BY <1>14, QueueAssumption DEF FailJob, TypeOK, Applied
<1> QED BY <1>5, <1>6, <1>7, <1>8, <1>9, <1>10, <1>11, <1>12, <1>13, <1>14 DEF RunStep

\* Rows that nobody but the sweep and the detector touches keep the invariant.
LEMMA OtherRows ==
  ASSUME IInv, RowsInv, NEW r \in Runs,
         pc'[r] \in {pc[r], "dropped", "dead"} \/ (pc[r] = "queued" /\ pc'[r] = "jobStart")
           \/ (pc[r] = "none" /\ pc'[r] \in {"queued", "jobStart"}),
         (r \in lostJob') <=> (r \in lostJob), (r \in lostBatch') <=> (r \in lostBatch),
         job'[r] = job[r] \/ (job[r] = "running" /\ job'[r] \in {"failed", "stuck"}),
         batch'[r] = batch[r] \/ (batch[r] = "running" /\ batch'[r] = "failed")
  PROVE  /\ pc'[r] \in {"none", "queued", "jobStart", "stage", "insertBatch"} => batch'[r] = "none"
         /\ pc'[r] \in {"autoApprove", "complete"} => batch'[r] = "completed"
         /\ pc'[r] \in {"cancelJob", "failJob"} => r \in lostBatch' \/ batch'[r] # "running"
         /\ pc'[r] \in Results =>
              /\ r \notin lostJob' => job'[r] \in {"none", pc'[r]}
              /\ r \notin lostBatch' => batch'[r] # "running"
              /\ pc'[r] = "completed" => batch'[r] = "completed"
BY DEF RowsInv, BatchPhase, RowsSettled, Results

\* A step keeps what holds of the rows and their runs.
LEMMA RowsStep == IInv /\ RowsInv /\ [Next]_vars => RowsInv'
<1> SUFFICES ASSUME IInv, RowsInv, [Next]_vars PROVE RowsInv'
  OBVIOUS
<1>1. TypeOK
  BY DEF IInv
<1>2. ASSUME NEW r \in Runs, RunStep(r) PROVE RowsInv'
  <2>1. \A s \in Runs \ {r} :
          /\ job'[s] = job[s]
          /\ batch'[s] = batch[s]
          /\ (s \in lostJob') <=> (s \in lostJob)
          /\ (s \in lostBatch') <=> (s \in lostBatch)
    <3>1. CASE JobStart(r)
      BY <3>1, <1>1 DEF JobStart, TypeOK
    <3>2. CASE Stage(r) \/ Save(r) \/ AutoApprove(r)
      BY <3>2 DEF Stage, Save, AutoApprove, rows
    <3>3. CASE InsertBatch(r)
      BY <3>3, <1>1 DEF InsertBatch, TypeOK
    <3>4. CASE CompleteBatch(r)
      BY <3>4, <1>1 DEF CompleteBatch, TypeOK
    <3>5. CASE FailBatch(r)
      BY <3>5, <1>1 DEF FailBatch, TypeOK
    <3>6. CASE Complete(r) \/ CancelJob(r)
      BY <3>6, <1>1 DEF Complete, CancelJob, TypeOK
    <3>7. CASE FailJob(r)
      BY <3>7, <1>1 DEF FailJob, TypeOK
    <3> QED BY <1>2, <3>1, <3>2, <3>3, <3>4, <3>5, <3>6, <3>7 DEF RunStep
  <2>2. pc[r] # "queued"
    BY <1>2, RunStepShape DEF Live, LiveSteps
  <2>3. \A s \in Runs \ {r} : pc'[s] = pc[s] \/ (pc[s] = "queued" /\ pc'[s] = "jobStart")
    <3>1. CASE Moves(r)
      BY <3>1, <1>1 DEF Moves, TypeOK
    <3>2. CASE Ends(r)
      BY <3>2, <1>1, <2>2, FinishShape DEF Ends
    <3> QED BY <3>1, <3>2, <1>2, RunStepShape
  <2> DEFINE Own(s) ==
        /\ pc'[s] \in {"none", "queued", "jobStart", "stage", "insertBatch"} => batch'[s] = "none"
        /\ pc'[s] \in {"autoApprove", "complete"} => batch'[s] = "completed"
        /\ pc'[s] \in {"cancelJob", "failJob"} => s \in lostBatch' \/ batch'[s] # "running"
        /\ pc'[s] \in Results =>
             /\ s \notin lostJob' => job'[s] \in {"none", pc'[s]}
             /\ s \notin lostBatch' => batch'[s] # "running"
             /\ pc'[s] = "completed" => batch'[s] = "completed"
  <2>4. Own(r)
    BY <1>2, OwnRows
  <2>5. \A s \in Runs \ {r} : Own(s)
    <3> SUFFICES ASSUME NEW s \in Runs \ {r} PROVE Own(s)
      OBVIOUS
    <3> QED BY <2>1, <2>3, OtherRows
  <2> HIDE DEF Own
  <2>6. \A s \in Runs : Own(s)
    BY <2>4, <2>5
  <2> QED BY <2>6 DEF Own, RowsInv, BatchPhase, RowsSettled
<1>3. ASSUME ~(\E r \in Runs : RunStep(r)) PROVE RowsInv'
  <2>1. \A r \in Runs :
          \/ pc'[r] \in {pc[r], "dropped", "dead"}
          \/ pc[r] = "queued" /\ pc'[r] = "jobStart"
          \/ pc[r] = "none" /\ pc'[r] \in {"queued", "jobStart"}
    <3>1. ASSUME NEW u \in Users, Enqueue(u) \/ RunNow(u)
          PROVE  \A r \in Runs : \/ pc'[r] = pc[r]
                                 \/ pc[r] = "none" /\ pc'[r] \in {"queued", "jobStart"}
      <4>1. submitted + 1 \in Runs /\ submitted + 1 > submitted
        BY <1>1, <3>1, QueueAssumption DEF Enqueue, RunNow, TypeOK, Runs
      <4>2. pc[submitted + 1] = "none"
        BY <4>1 DEF IInv, Numbering
      <4> QED BY <1>1, <3>1, <4>1, <4>2 DEF Enqueue, RunNow, Launch, TypeOK
    <3>2. ASSUME NEW u \in Users, Cancel(u)
          PROVE  \A r \in Runs : pc'[r] \in {pc[r], "dropped"}
      BY <3>2 DEF Cancel
    <3>3. Restart => \A r \in Runs : pc'[r] \in {pc[r], "dead"}
      BY DEF Restart
    <3>4. (\E r \in Runs : MarkStuck(r)) \/ SweepJobs \/ SweepBatches \/ SweepFails \/ UNCHANGED vars
            => pc' = pc
      BY DEF MarkStuck, SweepJobs, SweepBatches, SweepFails, vars
    <3> QED BY <1>3, <3>1, <3>2, <3>3, <3>4 DEF Next
  <2>2. UNCHANGED <<lostJob, lostBatch>>
    BY <1>3 DEF Next, Enqueue, RunNow, Cancel, MarkStuck, Restart, SweepJobs, SweepBatches,
       SweepFails, vars, rows
  <2>3. \A r \in Runs :
          /\ job'[r] = job[r] \/ (job[r] = "running" /\ job'[r] \in {"failed", "stuck"})
          /\ batch'[r] = batch[r] \/ (batch[r] = "running" /\ batch'[r] = "failed")
    BY <1>1, <1>3 DEF Next, Enqueue, RunNow, Cancel, MarkStuck, Restart, SweepJobs, SweepBatches,
       SweepFails, vars, rows, Interrupted, TypeOK
  <2> QED BY <2>1, <2>2, <2>3, OtherRows DEF RowsInv, BatchPhase, RowsSettled
<1> QED BY <1>2, <1>3

\* A run that ended left its rows in the state it ended in, whichever writes
\* failed on the way, unless the closing write itself was lost.
THEOREM RowsAreSettled == Spec => []RowsSettled
<1>1. Init => RowsInv
  BY DEF Init, RowsInv, BatchPhase, RowsSettled, Results
<1>2. RowsInv => RowsSettled
  BY DEF RowsInv
<1> QED BY <1>1, <1>2, RowsStep, Invariance, PTL DEF Spec

-----------------------------------------------------------------------------
(* The orchestrator implements RunService. *)

\* The service starts empty.
LEMMA InitServes == Init => Service!Init
BY DEF Init, Service!Init, Phase, Waiting, Queue

\* Nothing the callers can see changes.
Unseen == UNCHANGED <<cur, Phase, Waiting>>

\* Who waits depends on the queue and its owners only.
LEMMA SameWaiting ==
  ASSUME Queue' = Queue, \A q \in Queue : owner'[q] = owner[q]
  PROVE  Waiting' = Waiting
BY DEF Waiting

\* The step of a run that moves on is a commitment or is not seen.
LEMMA MovesServes ==
  ASSUME IInv, NEW r \in Runs, RunStep(r), Moves(r)
  PROVE  Service!Commit \/ Unseen
<1>1. PICK step \in LiveSteps \ {"jobStart"} :
        /\ pc' = [pc EXCEPT ![r] = step]
        /\ UNCHANGED <<running, active, cur, born>>
        /\ \/ committed' = committed /\ step # "complete"
           \/ committed' = TRUE /\ step = "complete" /\ r \notin aborted
        /\ committed => step = "failJob"
  BY DEF Moves
<1>2. Live(r) /\ r = active /\ UNCHANGED <<owner, aborted>>
  BY RunStepShape
<1>3. Queue' = Queue
  BY <1>1, <1>2 DEF Queue, Live, LiveSteps, IInv, TypeOK
<1>4. Waiting' = Waiting
  BY <1>2, <1>3, SameWaiting
<1>5. running /\ running'
  BY <1>1, <1>2 DEF IInv, SingleFlight, Runs
<1>6. CASE committed' = committed
  BY <1>1, <1>2, <1>4, <1>6 DEF Unseen, Phase
<1>7. CASE committed' = TRUE /\ ~committed /\ r \notin aborted
  <2>1. Phase = "working" /\ Phase' = "committed"
    BY <1>2, <1>5, <1>7 DEF Phase
  <2> QED BY <2>1, <1>1, <1>4 DEF Service!Commit
<1>8. committed \in BOOLEAN /\ (committed => step # "complete")
  BY <1>1 DEF IInv, TypeOK
<1> QED BY <1>1, <1>6, <1>7, <1>8

\* The end of a run hands the service to the one who waits longest.
LEMMA EndsServes ==
  ASSUME IInv, NEW r \in Runs, RunStep(r), Ends(r)
  PROVE  Service!Leave
<1>1. PICK result \in Results : Finish(r, result)
  BY DEF Ends
<1>2. Live(r) /\ r = active /\ UNCHANGED <<owner, aborted>>
  BY RunStepShape
<1>3. TypeOK /\ running
  BY <1>2 DEF IInv, SingleFlight, Runs
<1>4. Phase # "idle"
  BY <1>3 DEF Phase
<1>5. result \notin {"queued", "jobStart"} /\ r \notin Queue
  BY <1>2 DEF Results, Queue, Live, LiveSteps
<1>6. CASE /\ Queue = {} /\ pc' = [pc EXCEPT ![r] = result]
           /\ running' = FALSE /\ cur' = NoUser
  <2>1. Queue' = {}
    BY <1>3, <1>5, <1>6 DEF Queue, TypeOK
  <2>2. Waiting = {} /\ Waiting' = {}
    BY <1>6, <2>1 DEF Waiting
  <2>3. Phase' = "idle"
    BY <1>6 DEF Phase
  <2> QED BY <1>4, <1>6, <2>2, <2>3 DEF Service!Leave
<1>7. ASSUME NEW n \in Heads, pc' = [pc EXCEPT ![r] = result, ![n] = "jobStart"], Occupy(n, owner[n])
      PROVE  Service!Leave
  <2> DEFINE w == [place |-> n, user |-> owner[n]]
  <2>1. n \in Queue /\ n \in Runs /\ n # r /\ \A s \in Queue : n <= s
    BY <1>5, <1>7 DEF Heads, Queue
  <2>2. Queue' = Queue \ {n}
    BY <1>3, <1>5, <1>7, <2>1 DEF Queue, TypeOK
  <2>3. Waiting' = Waiting \ {w}
    BY <1>2, <2>1, <2>2 DEF Waiting
  <2>4. w \in Waiting /\ \A v \in Waiting : w.place <= v.place
    BY <2>1 DEF Waiting
  <2>5. n \notin aborted
    BY <2>1 DEF IInv, Numbering, Queue
  <2>6. Phase' = "working" /\ cur' = w.user
    BY <1>2, <1>7, <2>5 DEF Phase, Occupy
  <2> QED BY <1>4, <2>3, <2>4, <2>6 DEF Service!Leave
<1> QED BY <1>1, <1>2, <1>6, <1>7 DEF Finish

\* A run that starts at once takes an idle service.
LEMMA LaunchServes ==
  ASSUME IInv, NEW u \in Users, submitted < MaxRuns, ~running, Launch(submitted + 1, u),
         UNCHANGED aborted
  PROVE  Service!Submit(u)
<1> DEFINE n == submitted + 1
<1>1. TypeOK /\ Numbering /\ Queue = {}
  BY DEF IInv, QueueHasServer
<1>2. n \in Runs /\ n > submitted
  BY <1>1, QueueAssumption DEF TypeOK, Runs
<1>3. n \notin aborted
  BY <1>1, <1>2 DEF Numbering
<1>4. pc' = [pc EXCEPT ![n] = "jobStart"] /\ running' /\ active' = n /\ cur' = u /\ ~committed'
  BY DEF Launch, Occupy
<1>5. Queue' = {}
  BY <1>1, <1>4 DEF Queue, TypeOK
<1>6. Waiting' = Waiting
  BY <1>1, <1>5, SameWaiting
<1>7. Phase = "idle" /\ Phase' = "working"
  BY <1>3, <1>4 DEF Phase
<1> QED BY <1>4, <1>6, <1>7 DEF Service!Submit

\* A run that has to wait takes the last place.
LEMMA EnqueueServes ==
  ASSUME IInv, NEW u \in Users, Enqueue(u)
  PROVE  Service!Submit(u)
<1>1. CASE ~running
  BY <1>1, LaunchServes DEF Enqueue
<1>2. CASE running
  <2> DEFINE n == submitted + 1
  <2>1. TypeOK /\ Numbering
    BY DEF IInv
  <2>2. n \in Runs /\ n > submitted
    BY <2>1, QueueAssumption DEF Enqueue, TypeOK, Runs
  <2>3. /\ cur # u /\ \A q \in Queue : owner[q] # u
        /\ owner' = [owner EXCEPT ![n] = u] /\ pc' = [pc EXCEPT ![n] = "queued"]
        /\ UNCHANGED <<running, active, cur, committed, aborted>>
    BY <1>2 DEF Enqueue, memory
  <2>4. \A q \in Queue : q < n /\ q # n
    <3> SUFFICES ASSUME NEW q \in Queue PROVE q < n
      BY <2>1 DEF Queue, Runs
    <3>1. q \in Nat /\ submitted \in Nat /\ ~(q > submitted)
      BY <2>1 DEF Queue, Numbering, Runs, TypeOK
    <3> QED BY <3>1
  <2>5. Queue' = Queue \cup {n}
    BY <2>1, <2>2, <2>3 DEF Queue, TypeOK
  <2>6. owner'[n] = u /\ \A q \in Queue : owner'[q] = owner[q]
    BY <2>1, <2>2, <2>3, <2>4 DEF TypeOK, Queue
  <2>7. Waiting' = Waiting \cup {[place |-> n, user |-> u]}
    BY <2>5, <2>6 DEF Waiting
  <2>8. \A w \in Waiting : w.user # u /\ w.place < n
    BY <2>3, <2>4 DEF Waiting
  <2>9. Phase # "idle" /\ Phase' = Phase
    BY <1>2, <2>3 DEF Phase
  <2> QED BY <2>2, <2>3, <2>7, <2>8, <2>9 DEF Service!Submit
<1> QED BY <1>1, <1>2

\* A cancellation gives up the user's place and stops the run at work.
LEMMA CancelServes ==
  ASSUME IInv, NEW u \in Users, Cancel(u)
  PROVE  Service!Cancel(u)
<1>1. UNCHANGED <<owner, running, active, cur, committed>>
  BY DEF Cancel, memory
<1>2. Queue' = {q \in Queue : owner[q] # u}
  BY DEF Cancel, Queue
<1>3. Waiting' = {w \in Waiting : w.user # u}
  BY <1>1, <1>2 DEF Waiting
<1>4. Phase' = IF Phase = "working" /\ (cur = u \/ u \in Admins) THEN "stopping" ELSE Phase
  <2>1. CASE ~running \/ committed
    BY <1>1, <2>1 DEF Phase
  <2>2. CASE running /\ ~committed /\ (u \in Admins \/ cur = u)
    <3>1. active \in aborted'
      BY <2>2 DEF Cancel
    <3> QED BY <1>1, <2>2, <3>1 DEF Phase
  <2>3. CASE running /\ ~committed /\ ~(u \in Admins \/ cur = u)
    <3>1. aborted' = aborted
      BY <2>3 DEF Cancel
    <3> QED BY <1>1, <2>3, <3>1 DEF Phase
  <2> QED BY <2>1, <2>2, <2>3 DEF IInv, TypeOK
<1> QED BY <1>1, <1>3, <1>4 DEF Service!Cancel

\* Every step of the orchestrator is a step of the service, or is not seen.
LEMMA StepServes ==
  ASSUME IInv, [Next]_vars
  PROVE  Service!Next \/ Unseen
<1>1. ASSUME NEW u \in Users, Enqueue(u) PROVE Service!Next
  BY <1>1, EnqueueServes DEF Service!Next
<1>2. ASSUME NEW u \in Users, RunNow(u) PROVE Service!Next
  BY <1>2, LaunchServes DEF RunNow, Service!Next
<1>3. ASSUME NEW u \in Users, Cancel(u) PROVE Service!Next
  BY <1>3, CancelServes DEF Service!Next
<1>4. ASSUME NEW r \in Runs, RunStep(r) PROVE Service!Next \/ Unseen
  BY <1>4, RunStepShape, MovesServes, EndsServes DEF Service!Next
<1>5. CASE Restart
  <2>1. Queue' = {}
    BY <1>5 DEF Restart, Queue
  <2>2. Waiting' = {}
    BY <2>1 DEF Waiting
  <2>3. Phase' = "idle" /\ cur' = NoUser
    BY <1>5 DEF Restart, Phase
  <2> QED BY <2>2, <2>3 DEF Service!Restart, Service!Next
<1>6. ASSUME UNCHANGED <<owner, pc, aborted, memory>> PROVE Unseen
  <2>1. Queue' = Queue
    BY <1>6 DEF Queue
  <2>2. Waiting' = Waiting
    BY <1>6, <2>1, SameWaiting
  <2> QED BY <1>6, <2>2 DEF Unseen, Phase, memory
<1>7. ASSUME NEW r \in Runs, MarkStuck(r) PROVE Unseen
  BY <1>6, <1>7 DEF MarkStuck
<1>8. SweepJobs \/ SweepBatches \/ SweepFails \/ UNCHANGED vars => Unseen
  BY <1>6 DEF SweepJobs, SweepBatches, SweepFails, vars
<1> QED BY <1>1, <1>2, <1>3, <1>4, <1>5, <1>7, <1>8 DEF Next

\* The orchestrator implements the service: whatever users submit and cancel, whichever
\* writes fail and whenever the process restarts, callers see one holder, first come first
\* served, and stops and commitments that are final.
THEOREM ImplementsService == Spec => Service!Spec
<1>1. IInv /\ [Next]_vars => [Service!Next]_<<cur, Phase, Waiting>>
  BY StepServes DEF Unseen
<1> QED BY InitServes, Invariance, <1>1, PTL DEF Spec, Service!Spec, Service!service

-----------------------------------------------------------------------------
(* Every run ends and the oldest queued run starts, from fairness alone.      *)
(*                                                                            *)
(* The provers know no ENABLED, so fairness is stated with the guard a step   *)
(* really has: while the orchestrator runs, its active run has a step to take.*)

\* the await of the active run ends: the orchestrator is idle again and again, or
\* its runs keep taking steps
AwaitsEnd == []<>~running \/ []<><<Advance>>_vars

\* Weak fairness of the steps of runs says just that, when an active run always has
\* a step to take.
LEMMA FairnessInGuards ==
  ASSUME FairSpec, [](running => ENABLED <<Advance>>_vars)
  PROVE  Spec /\ AwaitsEnd
BY PTL DEF AwaitsEnd, FairSpec

\* how far a run is from its end, in awaits
Level(r) ==
  IF pc[r] = "jobStart" THEN 8
  ELSE IF pc[r] = "stage" THEN 7
  ELSE IF pc[r] = "insertBatch" THEN 6
  ELSE IF pc[r] = "save" THEN 5
  ELSE IF pc[r] = "completeBatch" THEN 4
  ELSE IF pc[r] \in {"autoApprove", "stopBatch", "failBatch"} THEN 3
  ELSE IF pc[r] \in {"complete", "cancelJob"} THEN 2
  ELSE 1

\* A level is a number from one to eight.
LEMMA Levels ==
  ASSUME NEW r \in Runs
  PROVE  Level(r) \in 1 .. 8
BY DEF Level

\* A run that moves from an await to another is nearer to its end.
LEMMA GotoLowers ==
  ASSUME TypeOK, NEW r \in Runs, NEW step, Goto(r, step)
  PROVE  pc'[r] = step
BY DEF Goto, TypeOK

\* The end of a run ends it.
LEMMA FinishEnds ==
  ASSUME IInv, NEW r \in Runs, Live(r), NEW result \in Results, Finish(r, result)
  PROVE  pc'[r] = result
BY DEF Finish, Heads, Queue, TypeOK, IInv, Live, LiveSteps

\* A checkpoint, the commit and the error handling lead to the places named here only.
LEMMA UnwindGoes ==
  ASSUME IInv, NEW r \in Runs, Live(r)
  PROVE  /\ UnwindCancelled(r) => pc'[r] \in {"cancelJob"} \cup Results
         /\ UnwindFailed(r) => pc'[r] \in {"failJob"} \cup Results
         /\ \A step : Checkpoint(r, step) => pc'[r] \in {step, "cancelJob"} \cup Results
         /\ Commit(r) => pc'[r] \in {"complete", "cancelJob"} \cup Results
<1>1. TypeOK /\ Results = {"completed", "cancelled", "failed"}
  BY DEF IInv, Results
<1>2. UnwindCancelled(r) => pc'[r] \in {"cancelJob"} \cup Results
  BY <1>1, GotoLowers, FinishEnds DEF UnwindCancelled
<1>3. UnwindFailed(r) => pc'[r] \in {"failJob"} \cup Results
  BY <1>1, GotoLowers, FinishEnds DEF UnwindFailed
<1>4. \A step : Checkpoint(r, step) => pc'[r] \in {step, "cancelJob"} \cup Results
  BY <1>1, <1>2, GotoLowers DEF Checkpoint
<1>5. Commit(r) => pc'[r] \in {"complete", "cancelJob"} \cup Results
  BY <1>1, <1>2, FinishEnds DEF Commit, TypeOK
<1> QED BY <1>2, <1>3, <1>4, <1>5

\* No step of a run takes it back: it is nearer to its end, or it has ended.
LEMMA StepsDescend ==
  ASSUME IInv, NEW r \in Runs, RunStep(r)
  PROVE  Live(r) /\ r = active /\ (~Live(r)' \/ Level(r)' < Level(r))
<1>1. Live(r) /\ r = active /\ TypeOK
  BY RunStepShape DEF IInv
<1> DEFINE Lower == pc'[r] \in Results \/ Level(r)' < Level(r)
<1>2. pc'[r] \in Results => ~Live(r)'
  BY DEF Results, Live, LiveSteps
<1> SUFFICES Lower
  BY <1>1, <1>2
<1> USE DEF Level
<1>3. CASE JobStart(r)
  <2>1. pc[r] = "jobStart" /\ pc'[r] = "stage" BY <1>1, <1>3, GotoLowers DEF JobStart
  <2> QED BY <2>1
<1>4. CASE Stage(r)
  <2>1. pc[r] = "stage" /\ pc'[r] \in {"insertBatch", "cancelJob", "failJob"} \cup Results
    BY <1>1, <1>4, UnwindGoes DEF Stage
  <2> QED BY <2>1
<1>5. CASE InsertBatch(r)
  <2>1. pc[r] = "insertBatch" /\ pc'[r] \in {"stopBatch", "save", "failJob"} \cup Results
    BY <1>1, <1>5, UnwindGoes, GotoLowers DEF InsertBatch
  <2> QED BY <2>1
<1>6. CASE Save(r)
  <2>1. pc[r] = "save" /\ pc'[r] \in {"stopBatch", "completeBatch", "failBatch"}
    BY <1>1, <1>6, GotoLowers DEF Save
  <2> QED BY <2>1
<1>7. CASE CompleteBatch(r)
  <2>1. pc[r] = "completeBatch"
        /\ pc'[r] \in {"autoApprove", "complete", "cancelJob", "failBatch"} \cup Results
    BY <1>1, <1>7, UnwindGoes, GotoLowers DEF CompleteBatch
  <2> QED BY <2>1
<1>8. CASE FailBatch(r)
  <2>1. pc[r] \in {"stopBatch", "failBatch"} /\ pc'[r] \in {"cancelJob", "failJob"} \cup Results
    BY <1>1, <1>8, UnwindGoes DEF FailBatch
  <2> QED BY <2>1
<1>9. CASE AutoApprove(r)
  <2>1. pc[r] = "autoApprove" /\ pc'[r] \in {"complete", "cancelJob", "failJob"} \cup Results
    BY <1>1, <1>9, UnwindGoes DEF AutoApprove
  <2> QED BY <2>1
<1>10. CASE Complete(r)
  <2>1. pc[r] = "complete" /\ pc'[r] \in {"failJob"} \cup Results
    BY <1>1, <1>10, FinishEnds, GotoLowers DEF Complete, Results
  <2> QED BY <2>1
<1>11. CASE CancelJob(r)
  <2>1. pc[r] = "cancelJob" /\ pc'[r] \in {"failJob"} \cup Results
    BY <1>1, <1>11, FinishEnds, GotoLowers DEF CancelJob, Results
  <2> QED BY <2>1
<1>12. CASE FailJob(r)
  <2>1. pc'[r] \in Results
    BY <1>1, <1>12, FinishEnds DEF FailJob, Results
  <2> QED BY <2>1
<1> QED BY <1>3, <1>4, <1>5, <1>6, <1>7, <1>8, <1>9, <1>10, <1>11, <1>12 DEF RunStep

\* the run has not ended and is at most k awaits from its end
Within(r, k) == Live(r) /\ Level(r) <= k

\* a run that is at most k awaits from its end comes to be at most j from it
Descends(r, k, j) == Within(r, k) ~> (Within(r, j) \/ ~Live(r))

\* A step of the process that is not a step of a run leaves a live run where it is, or
\* the process restarts and the run is dead.
LEMMA OthersKeep ==
  ASSUME IInv, [Next]_vars, ~Advance, NEW r \in Runs, Live(r)
  PROVE  \/ pc'[r] = pc[r] /\ active' = active /\ running' = running
         \/ Restart /\ ~Live(r)' /\ ~running'
<1>1. TypeOK /\ Numbering /\ running /\ r = active
  BY DEF IInv, SingleFlight, Runs
<1>2. pc[r] # "queued" /\ ~(r > submitted)
  BY <1>1 DEF Live, LiveSteps, Numbering
<1>3. ASSUME NEW u \in Users, Enqueue(u) PROVE pc'[r] = pc[r] /\ UNCHANGED memory
  <2>1. r # submitted + 1
    BY <1>1, <1>2 DEF Runs, TypeOK
  <2> QED BY <1>1, <1>3, <2>1 DEF Enqueue, TypeOK
<1>4. \A u \in Users : ~RunNow(u)
  BY <1>1 DEF RunNow
<1>5. ASSUME NEW u \in Users, Cancel(u) PROVE pc'[r] = pc[r] /\ UNCHANGED memory
  BY <1>2, <1>5 DEF Cancel, Queue
<1>6. CASE Restart
  <2>1. pc'[r] = "dead" /\ ~running'
    BY <1>6 DEF Restart
  <2> QED BY <1>6, <2>1 DEF Live, LiveSteps
<1>7. ASSUME \/ \E s \in Runs : MarkStuck(s)
             \/ SweepJobs \/ SweepBatches \/ SweepFails \/ UNCHANGED vars
      PROVE  pc' = pc /\ UNCHANGED memory
  BY <1>7 DEF MarkStuck, SweepJobs, SweepBatches, SweepFails, vars
<1> QED BY <1>3, <1>4, <1>5, <1>6, <1>7 DEF Next, Advance, memory

\* A live run comes no further from its end, and the steps of runs bring it nearer.
LEMMA RunApproaches ==
  ASSUME IInv, NEW r \in Runs, NEW k \in Nat, Within(r, k + 1)
  PROVE  /\ [Next]_vars => Within(r, k + 1)' \/ ~Live(r)'
         /\ Advance => Within(r, k)' \/ ~Live(r)'
<1>1. Live(r) /\ Level(r) <= k + 1 /\ r = active /\ Level(r) \in Nat
  BY Levels DEF Within, IInv, SingleFlight
<1>2. Advance => Within(r, k)' \/ ~Live(r)'
  <2> SUFFICES ASSUME NEW s \in Runs, RunStep(s), Live(r)' PROVE Within(r, k)'
    BY DEF Advance
  <2>1. s = r /\ Level(r)' < Level(r)
    BY <1>1, StepsDescend
  <2>2. Level(r)' \in Nat
    BY DEF Level
  <2> QED BY <1>1, <2>1, <2>2 DEF Within
<1>3. Within(r, k)' => Within(r, k + 1)'
  <2>1. Level(r)' \in Nat
    BY DEF Level
  <2> QED BY <2>1 DEF Within
<1>4. ASSUME [Next]_vars, ~Advance, Live(r)' PROVE Within(r, k + 1)'
  <2>1. pc'[r] = pc[r]
    BY <1>1, <1>4, OthersKeep
  <2>2. Level(r)' = Level(r)
    BY <2>1 DEF Level
  <2> QED BY <1>1, <1>4, <2>2 DEF Within
<1> QED BY <1>2, <1>3, <1>4

\* Every run that has started ends, whatever users submit and cancel, whichever writes
\* fail and whenever the process restarts, as long as the awaits of runs end: no branch
\* of the pipeline, of its error handling or of its cancellation leads back or parks the
\* run for good.
THEOREM EveryRunEnds == Spec /\ AwaitsEnd => \A r \in Runs : Live(r) ~> ~Live(r)
<1> SUFFICES ASSUME NEW r \in Runs PROVE Spec /\ AwaitsEnd => (Live(r) ~> ~Live(r))
  OBVIOUS
<1>1. Live(r) => Within(r, 8)
  BY Levels DEF Within
<1>2. ~Within(r, 0)
  BY Levels DEF Within
<1>3. IInv => (Live(r) => running)
  BY DEF IInv, SingleFlight, Runs
<1>4. ASSUME NEW j \in Nat, NEW k \in Nat, k = j + 1
      PROVE  Spec /\ AwaitsEnd => Descends(r, k, j)
  <2>1. /\ IInv /\ [Next]_vars /\ Within(r, k) => Within(r, k)' \/ ~Live(r)'
        /\ IInv /\ <<Advance>>_vars /\ Within(r, k) => Within(r, j)' \/ ~Live(r)'
    BY <1>4, RunApproaches
  <2>2. Within(r, k) => Live(r)
    BY DEF Within
  <2> QED BY <1>3, <2>1, <2>2, Invariance, PTL DEF Spec, AwaitsEnd, Descends
<1>5. Spec /\ AwaitsEnd => Descends(r, 8, 7)
  <2>1. 8 \in Nat /\ 7 \in Nat /\ 8 = 7 + 1
    OBVIOUS
  <2> QED BY <1>4, <2>1
<1>6. Spec /\ AwaitsEnd => Descends(r, 7, 6)
  <2>1. 7 \in Nat /\ 6 \in Nat /\ 7 = 6 + 1
    OBVIOUS
  <2> QED BY <1>4, <2>1
<1>7. Spec /\ AwaitsEnd => Descends(r, 6, 5)
  <2>1. 6 \in Nat /\ 5 \in Nat /\ 6 = 5 + 1
    OBVIOUS
  <2> QED BY <1>4, <2>1
<1>8. Spec /\ AwaitsEnd => Descends(r, 5, 4)
  <2>1. 5 \in Nat /\ 4 \in Nat /\ 5 = 4 + 1
    OBVIOUS
  <2> QED BY <1>4, <2>1
<1>9. Spec /\ AwaitsEnd => Descends(r, 4, 3)
  <2>1. 4 \in Nat /\ 3 \in Nat /\ 4 = 3 + 1
    OBVIOUS
  <2> QED BY <1>4, <2>1
<1>10. Spec /\ AwaitsEnd => Descends(r, 3, 2)
  <2>1. 3 \in Nat /\ 2 \in Nat /\ 3 = 2 + 1
    OBVIOUS
  <2> QED BY <1>4, <2>1
<1>11. Spec /\ AwaitsEnd => Descends(r, 2, 1)
  <2>1. 2 \in Nat /\ 1 \in Nat /\ 2 = 1 + 1
    OBVIOUS
  <2> QED BY <1>4, <2>1
<1>12. Spec /\ AwaitsEnd => Descends(r, 1, 0)
  <2>1. 1 \in Nat /\ 0 \in Nat /\ 1 = 0 + 1
    OBVIOUS
  <2> QED BY <1>4, <2>1
<1> QED BY <1>1, <1>2, <1>5, <1>6, <1>7, <1>8, <1>9, <1>10, <1>11, <1>12, PTL
        DEF Descends

\* While the orchestrator runs, some run is live.
LEMMA ActiveIsLive ==
  ASSUME IInv, running
  PROVE  active \in Runs /\ Live(active)
BY DEF IInv, SingleFlight, TypeOK

\* the active run is at most k awaits from its end
Busy(k) == running /\ Level(active) <= k

\* The run under way is at some level, up to the eighth and above none.
LEMMA ActiveLevel ==
  ASSUME IInv, running
  PROVE  Level(active) \in Nat /\ Busy(8) /\ ~Busy(0)
<1>1. Level(active) \in 1 .. 8
  BY ActiveIsLive, Levels
<1> QED BY <1>1 DEF Busy

\* A step of a run that is not its end keeps the orchestrator on that run.
LEMMA MovesKeep ==
  ASSUME IInv, NEW r \in Runs, RunStep(r), Moves(r)
  PROVE  r = active /\ active' = active /\ running' /\ Live(r)'
<1>1. r = active /\ Live(r) /\ TypeOK /\ active' = active /\ running' = running
  BY RunStepShape DEF Moves, IInv
<1>2. Live(r)'
  BY <1>1 DEF Moves, TypeOK, Live
<1>3. running
  BY <1>1 DEF IInv, SingleFlight, Runs
<1> QED BY <1>1, <1>2, <1>3

\* The active run comes no further from its end until it hands the service on or the
\* process restarts, and the steps of runs bring it nearer.
LEMMA BusyApproaches ==
  ASSUME IInv, NEW j \in Nat, NEW k \in Nat, k = j + 1, Busy(k)
  PROVE  /\ [Next]_vars => Busy(k)' \/ ~running' \/ Service!Leave
         /\ Advance => Busy(j)' \/ Service!Leave
<1>1. active \in Runs /\ Live(active) /\ running /\ Level(active) <= k /\ Level(active) \in Nat
  BY ActiveIsLive, ActiveLevel DEF Busy
<1>2. ASSUME Advance PROVE Busy(j)' \/ Service!Leave
  <2>1. PICK r \in Runs : RunStep(r)
    BY <1>2 DEF Advance
  <2>2. CASE Ends(r)
    BY <2>1, <2>2, EndsServes
  <2>3. CASE Moves(r)
    <3>1. r = active /\ active' = active /\ running' /\ Live(r)'
      BY <2>1, <2>3, MovesKeep
    <3>2. Level(r)' < Level(r)
      BY <2>1, <3>1, StepsDescend
    <3>3. Level(active)' = Level(r)' /\ Level(r)' \in Nat
      BY <3>1 DEF Level
    <3> QED BY <1>1, <3>1, <3>2, <3>3 DEF Busy
  <2> QED BY <2>1, <2>2, <2>3, RunStepShape
<1>3. Busy(j)' => Busy(k)'
  <2>1. Level(active)' \in Nat
    BY DEF Level
  <2> QED BY <2>1 DEF Busy
<1>4. ASSUME [Next]_vars, ~Advance PROVE Busy(k)' \/ ~running'
  <2>1. CASE pc'[active] = pc[active] /\ active' = active /\ running' = running
    <3>1. Level(active)' = Level(active)
      BY <2>1 DEF Level
    <3> QED BY <1>1, <2>1, <3>1 DEF Busy
  <2> QED BY <1>1, <1>4, <2>1, OthersKeep
<1> QED BY <1>2, <1>3, <1>4

\* the service is idle again and again, or its holders keep leaving: the fairness of
\* RunService with the guard of Leave written out
Served == []<>(Phase = "idle") \/ []<><<Service!Leave>>_<<cur, Phase, Waiting>>

\* A holder that leaves is seen to leave.
LEMMA LeaveIsSeen == Service!Leave => <<Service!Leave>>_<<cur, Phase, Waiting>>
BY DEF Service!Leave

\* an active run that is at most k awaits from its end comes to be at most j from it,
\* unless the service is handed on or falls idle
BusyDescends(k, j) ==
  [](Busy(k) => <>(Busy(j) \/ ~running) \/ <><<Service!Leave>>_<<cur, Phase, Waiting>>)

\* The orchestrator implements the fair service: as long as the awaits of runs end, the
\* holder always leaves in the end, and by ImplementsService whoever waits longest is
\* served next.
THEOREM ServiceMoves == Spec /\ AwaitsEnd => Service!Spec /\ Served
<1>1. ASSUME NEW j \in Nat, NEW k \in Nat, k = j + 1
      PROVE  Spec /\ AwaitsEnd => BusyDescends(k, j)
  <2>1. /\ IInv /\ [Next]_vars /\ Busy(k)
            => Busy(k)' \/ ~running' \/ <<Service!Leave>>_<<cur, Phase, Waiting>>
        /\ IInv /\ <<Advance>>_vars /\ Busy(k)
            => Busy(j)' \/ <<Service!Leave>>_<<cur, Phase, Waiting>>
    BY <1>1, BusyApproaches, LeaveIsSeen
  <2> QED BY <2>1, Invariance, PTL DEF Spec, AwaitsEnd, BusyDescends
<1>2. Spec /\ AwaitsEnd => BusyDescends(8, 7)
  <2>1. 8 \in Nat /\ 7 \in Nat /\ 8 = 7 + 1
    OBVIOUS
  <2> QED BY <1>1, <2>1
<1>3. Spec /\ AwaitsEnd => BusyDescends(7, 6)
  <2>1. 7 \in Nat /\ 6 \in Nat /\ 7 = 6 + 1
    OBVIOUS
  <2> QED BY <1>1, <2>1
<1>4. Spec /\ AwaitsEnd => BusyDescends(6, 5)
  <2>1. 6 \in Nat /\ 5 \in Nat /\ 6 = 5 + 1
    OBVIOUS
  <2> QED BY <1>1, <2>1
<1>5. Spec /\ AwaitsEnd => BusyDescends(5, 4)
  <2>1. 5 \in Nat /\ 4 \in Nat /\ 5 = 4 + 1
    OBVIOUS
  <2> QED BY <1>1, <2>1
<1>6. Spec /\ AwaitsEnd => BusyDescends(4, 3)
  <2>1. 4 \in Nat /\ 3 \in Nat /\ 4 = 3 + 1
    OBVIOUS
  <2> QED BY <1>1, <2>1
<1>7. Spec /\ AwaitsEnd => BusyDescends(3, 2)
  <2>1. 3 \in Nat /\ 2 \in Nat /\ 3 = 2 + 1
    OBVIOUS
  <2> QED BY <1>1, <2>1
<1>8. Spec /\ AwaitsEnd => BusyDescends(2, 1)
  <2>1. 2 \in Nat /\ 1 \in Nat /\ 2 = 1 + 1
    OBVIOUS
  <2> QED BY <1>1, <2>1
<1>9. Spec /\ AwaitsEnd => BusyDescends(1, 0)
  <2>1. 1 \in Nat /\ 0 \in Nat /\ 1 = 0 + 1
    OBVIOUS
  <2> QED BY <1>1, <2>1
<1>10. IInv /\ running => Busy(8) /\ ~Busy(0)
  BY ActiveLevel
<1>11. IInv => (Phase = "idle" <=> ~running)
  BY DEF IInv, TypeOK, Phase
<1>12. Busy(0) => running
  BY DEF Busy
<1>13. Spec /\ AwaitsEnd => Served
  BY <1>2, <1>3, <1>4, <1>5, <1>6, <1>7, <1>8, <1>9, <1>10, <1>11, <1>12, Invariance, PTL
     DEF BusyDescends, Served
<1> QED BY <1>13, ImplementsService

\* the run is the next to start, at most k awaits of the active run from now
UpNext(r, k) == r \in Heads /\ Level(active) <= k

\* The next run to start stays the next, or it leaves the queue, and the steps of the
\* active run bring its start nearer.
LEMMA HeadApproaches ==
  ASSUME IInv, NEW r \in Runs, NEW j \in Nat, NEW k \in Nat, k = j + 1, UpNext(r, k)
  PROVE  /\ [Next]_vars => UpNext(r, k)' \/ pc'[r] # "queued"
         /\ Advance => UpNext(r, j)' \/ pc'[r] # "queued"
<1>1. r \in Queue /\ r \in Heads /\ pc[r] = "queued" /\ TypeOK /\ Numbering
  BY DEF UpNext, Heads, Queue, IInv
<1>2. running /\ active \in Runs /\ Live(active) /\ Level(active) \in Nat /\ Level(active) <= k
  BY <1>1, ActiveIsLive, ActiveLevel DEF IInv, QueueHasServer, UpNext
<1>3. ASSUME Queue' \subseteq Queue \cup (submitted + 1) .. MaxRuns, pc'[r] = "queued"
      PROVE  r \in Heads'
  <2>1. ASSUME NEW s \in Queue' PROVE r <= s
    <3>1. CASE s \in Queue
      BY <1>1, <3>1 DEF Heads
    <3>2. CASE s \in (submitted + 1) .. MaxRuns
      <4>1. r \in Nat /\ submitted \in Nat /\ ~(r > submitted)
        BY <1>1 DEF Numbering, Runs, TypeOK
      <4> QED BY <3>2, <4>1
    <3> QED BY <1>3, <2>1, <3>1, <3>2
  <2> QED BY <1>3, <2>1 DEF Heads, Queue
<1>4. ASSUME Advance, pc'[r] = "queued" PROVE UpNext(r, j)'
  <2>1. PICK s \in Runs : RunStep(s)
    BY <1>4 DEF Advance
  <2>2. s = active /\ s # r
    BY <1>1, <2>1, StepsDescend DEF Live, LiveSteps
  <2>3. CASE Ends(s)
    <3>1. PICK result \in Results : Finish(s, result)
      BY <2>3 DEF Ends
    <3>2. PICK n \in Heads : pc' = [pc EXCEPT ![s] = result, ![n] = "jobStart"]
      BY <1>1, <2>2, <3>1 DEF Finish
    <3>3. n = r
      BY <1>1, <3>2 DEF Heads, Queue, Runs
    <3>4. pc'[r] = "jobStart"
      BY <1>1, <2>2, <3>2, <3>3 DEF TypeOK
    <3> QED BY <1>4, <3>4
  <2>4. CASE Moves(s)
    <3>1. active' = active /\ Live(s)' /\ Level(s)' < Level(s)
      BY <2>1, <2>4, MovesKeep, StepsDescend
    <3>2. Level(active)' = Level(s)' /\ Level(s)' \in Nat
      BY <2>2, <3>1 DEF Level
    <3>3. Queue' \subseteq Queue
      BY <1>1, <2>4 DEF Moves, Queue, TypeOK, LiveSteps
    <3>4. r \in Heads'
      BY <1>3, <1>4, <3>3
    <3> QED BY <1>2, <2>2, <3>1, <3>2, <3>4 DEF UpNext
  <2> QED BY <2>1, <2>3, <2>4, RunStepShape
<1>5. UpNext(r, j)' => UpNext(r, k)'
  <2>1. Level(active)' \in Nat
    BY DEF Level
  <2> QED BY <2>1 DEF UpNext
<1>6. ASSUME [Next]_vars, ~Advance, pc'[r] = "queued" PROVE UpNext(r, k)'
  <2>1. pc'[active] = pc[active] /\ active' = active
    BY <1>1, <1>2, <1>6, OthersKeep DEF Restart
  <2>2. Level(active)' = Level(active)
    BY <2>1 DEF Level
  <2>3. Queue' \subseteq Queue \cup (submitted + 1) .. MaxRuns
    <3>1. ASSUME NEW u \in Users, Enqueue(u) PROVE Queue' \subseteq Queue \cup {submitted + 1}
      BY <1>1, <1>2, <3>1 DEF Enqueue, Queue, TypeOK
    <3>2. ASSUME NEW u \in Users, Cancel(u) PROVE Queue' \subseteq Queue
      BY <1>1, <3>2 DEF Cancel, Queue
    <3>3. Restart => pc'[r] # "queued"
      BY <1>1 DEF Restart
    <3>4. ASSUME \/ \E s \in Runs : MarkStuck(s)
                 \/ SweepJobs \/ SweepBatches \/ SweepFails \/ UNCHANGED vars
          PROVE  Queue' = Queue
      BY <3>4 DEF MarkStuck, SweepJobs, SweepBatches, SweepFails, vars, Queue
    <3>5. ASSUME NEW u \in Users, RunNow(u) PROVE FALSE
      BY <1>2, <3>5 DEF RunNow
    <3>6. ASSUME NEW u \in Users, Enqueue(u) PROVE submitted + 1 \in (submitted + 1) .. MaxRuns
      BY <1>1, <3>6, QueueAssumption DEF Enqueue, TypeOK
    <3> QED BY <1>6, <3>1, <3>2, <3>3, <3>4, <3>5, <3>6 DEF Next, Advance
  <2> QED BY <1>2, <1>3, <1>6, <2>1, <2>2, <2>3 DEF UpNext
<1> QED BY <1>4, <1>5, <1>6

\* the start of the next run comes nearer, or it leaves the queue
UpNextDescends(r, k, j) == UpNext(r, k) ~> (UpNext(r, j) \/ pc[r] # "queued")

\* The oldest queued run leaves the queue: it starts, its user cancels it, or the process
\* restarts, whatever else is submitted and cancelled meanwhile.  It is the step from
\* which QueueDrains follows by induction over the queue.
THEOREM OldestStarts == Spec /\ AwaitsEnd => \A r \in Runs : r \in Heads ~> pc[r] # "queued"
<1> SUFFICES ASSUME NEW r \in Runs
             PROVE  Spec /\ AwaitsEnd => (r \in Heads ~> pc[r] # "queued")
  OBVIOUS
<1>1. ASSUME NEW j \in Nat, NEW k \in Nat, k = j + 1
      PROVE  Spec /\ AwaitsEnd => UpNextDescends(r, k, j)
  <2>1. /\ IInv /\ [Next]_vars /\ UpNext(r, k) => UpNext(r, k)' \/ (pc[r] # "queued")'
        /\ IInv /\ <<Advance>>_vars /\ UpNext(r, k) => UpNext(r, j)' \/ (pc[r] # "queued")'
    BY <1>1, HeadApproaches
  <2>2. IInv /\ UpNext(r, k) => running
    BY DEF UpNext, Heads, IInv, QueueHasServer
  <2> QED BY <2>1, <2>2, Invariance, PTL DEF Spec, AwaitsEnd, UpNextDescends
<1>2. Spec /\ AwaitsEnd => UpNextDescends(r, 8, 7)
  <2>1. 8 \in Nat /\ 7 \in Nat /\ 8 = 7 + 1
    OBVIOUS
  <2> QED BY <1>1, <2>1
<1>3. Spec /\ AwaitsEnd => UpNextDescends(r, 7, 6)
  <2>1. 7 \in Nat /\ 6 \in Nat /\ 7 = 6 + 1
    OBVIOUS
  <2> QED BY <1>1, <2>1
<1>4. Spec /\ AwaitsEnd => UpNextDescends(r, 6, 5)
  <2>1. 6 \in Nat /\ 5 \in Nat /\ 6 = 5 + 1
    OBVIOUS
  <2> QED BY <1>1, <2>1
<1>5. Spec /\ AwaitsEnd => UpNextDescends(r, 5, 4)
  <2>1. 5 \in Nat /\ 4 \in Nat /\ 5 = 4 + 1
    OBVIOUS
  <2> QED BY <1>1, <2>1
<1>6. Spec /\ AwaitsEnd => UpNextDescends(r, 4, 3)
  <2>1. 4 \in Nat /\ 3 \in Nat /\ 4 = 3 + 1
    OBVIOUS
  <2> QED BY <1>1, <2>1
<1>7. Spec /\ AwaitsEnd => UpNextDescends(r, 3, 2)
  <2>1. 3 \in Nat /\ 2 \in Nat /\ 3 = 2 + 1
    OBVIOUS
  <2> QED BY <1>1, <2>1
<1>8. Spec /\ AwaitsEnd => UpNextDescends(r, 2, 1)
  <2>1. 2 \in Nat /\ 1 \in Nat /\ 2 = 1 + 1
    OBVIOUS
  <2> QED BY <1>1, <2>1
<1>9. Spec /\ AwaitsEnd => UpNextDescends(r, 1, 0)
  <2>1. 1 \in Nat /\ 0 \in Nat /\ 1 = 0 + 1
    OBVIOUS
  <2> QED BY <1>1, <2>1
<1>10. IInv /\ r \in Heads => UpNext(r, 8) /\ ~UpNext(r, 0)
  BY ActiveLevel DEF UpNext, Busy, Heads, IInv, QueueHasServer
<1>11. UpNext(r, 0) => r \in Heads
  BY DEF UpNext
<1> QED BY <1>2, <1>3, <1>4, <1>5, <1>6, <1>7, <1>8, <1>9, <1>10, <1>11, Invariance, PTL
        DEF UpNextDescends, Spec
=============================================================================
