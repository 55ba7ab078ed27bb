-------------------------- MODULE SlskdJobsProofs --------------------------
(***************************************************************************)
(* What holds of the jobs of a slskd target for any recommendations,       *)
(* releases, peers, configurations and numbers of retries and checks.      *)
(***************************************************************************)
EXTENDS SlskdJobs, SequenceTheorems, FiniteSetTheorems, WellFoundedInduction, TLAPS

-----------------------------------------------------------------------------
(* The inductive invariant.  The first half holds whatever happens. *)

Searched == {"pending", "searching"}

\* The steps at which the sync works on a row.
JobSteps == {"search", "look", "enqueue", "transfers", "import", "submit", "check",
             "save", "report", "write"}

\* What a caller is about to retry is a row of the release it asks for.
Pointing(c) == cr[c].pc = "retry" => cr[c].id \in Rows /\ jobs[cr[c].id].rel = cr[c].rel

\* What is no row has no past.
NoPast == \A j \in Ids \ Rows : hist[j] = NoHist /\ batch[j] = "none" /\ cmd[j] = "none"

\* The intake is a part of the sync.
Taking == cr[NoRec].pc # "idle" => sync.pc = "intake"

\* The unique index on the work key.
Unique ==
  \A i, j \in Rows :
    (/\ jobs[i].rel = jobs[j].rel
     /\ jobs[i].state \in Conflicting /\ jobs[j].state \in Conflicting) => i = j

\* The peers of a row that failed.
Failures(row) == row.bad \cup ({row.peer} \ {NoPeer})

\* The list of the sync holds active rows, and not the one under work.
Listed(s) ==
  /\ s.left \subseteq ActiveRows
  /\ s.pc \in JobSteps => s.id \in Rows \ s.left

\* The row under work is at the step for its state, and its search is paid for.
Stands(s) ==
  LET row == jobs[s.id] IN
  /\ s.pc = "search" => /\ row.state = "searching" /\ ~row.found
                        /\ hist[s.id].searches + 1 <= row.att
  /\ s.pc \in {"look", "enqueue"} => row.state \in Searched /\ row.found
  /\ s.pc = "enqueue" => s.peer \in Peers \ row.bad
  /\ s.pc \in {"transfers", "import", "submit"} => row.state \in {"queued", "downloading"}
  /\ s.pc = "check" => row.state = "import_pending"

\* What may be written to a row with such a past, and what comes after.
Writes(id, past, row, then) ==
  /\ row.rel = jobs[id].rel
  /\ past.searches <= row.att /\ row.att <= MaxRetries + 1 + faults
  /\ past.tried \subseteq Failures(row)
  /\ row.state \in Searched => row.peer = NoPeer
  /\ then # "report" => jobs[id].state \in Active
  /\ then = "search" => row.state = "searching" /\ ~row.found /\ past.searches + 1 <= row.att
  /\ then = "look" => row.state \in Searched /\ row.found
  /\ then = "next" => row.state = "searching" /\ row.att <= MaxRetries + faults
  /\ then = "report" => row.state \notin Searched
Saves(s) == s.pc = "save" => Writes(s.id, hist[s.id], s.row, s.then)

Fits(s) == Listed(s) /\ Stands(s) /\ Saves(s)

\* Searches are paid for by attempts.
Paid(j) == hist[j].searches <= jobs[j].att /\ jobs[j].att <= MaxRetries + 1 + faults
\* A row that will be searched for has an attempt left.
Afford(j) ==
  (/\ jobs[j].state \in Searched /\ ~jobs[j].found
   /\ ~(sync.id = j /\ sync.pc \in {"search", "save"}))
  => jobs[j].att <= MaxRetries + faults
\* The peers that failed are remembered in the row.
Remembered(j) ==
  /\ hist[j].tried \subseteq Failures(jobs[j])
  /\ jobs[j].state \in Searched => jobs[j].peer = NoPeer
Rowwise == \A j \in Rows : Paid(j) /\ Afford(j) /\ Remembered(j)

\* What the intake found out about a failed row is so as long as it is failed.
Retrying ==
  (cr[NoRec].pc = "retry" /\ jobs[cr[NoRec].id].state = "failed") =>
    /\ jobs[cr[NoRec].id].att <= MaxRetries
    /\ hist[cr[NoRec].id].tried \subseteq cr[NoRec].bad

IInv ==
  /\ TypeOK /\ (\A c \in Callers : Pointing(c)) /\ NoPast /\ Taking /\ Unique
  /\ Fits(sync) /\ Rowwise /\ Retrying

-----------------------------------------------------------------------------
(* Types. *)

\* The rows are numbered from one, and each has the type of a job.
LEMMA RowsTyped ==
  ASSUME TypeOK
  PROVE  /\ jobs \in Seq(Job) /\ Len(jobs) \in Nat /\ Rows \subseteq Ids
         /\ \A j \in Rows : jobs[j] \in Job
<1>1. jobs \in Seq(Job) /\ Len(jobs) \in Nat /\ Len(jobs) <= MaxJobs
  BY LenProperties DEF TypeOK
<1>2. \A j \in Rows : jobs[j] \in Job BY <1>1, ElementOfSeq DEF Rows
<1> QED BY <1>1, <1>2, SlskdAssumption DEF Rows, Ids

\* A row may be added.
LEMMA AppendTyped ==
  ASSUME TypeOK, NEW row \in Job, Len(jobs) < MaxJobs, jobs' = Append(jobs, row)
  PROVE  /\ jobs' \in Seq(Job) /\ Len(jobs') = Len(jobs) + 1 /\ Len(jobs') <= MaxJobs
         /\ \A j \in Rows : jobs'[j] = jobs[j]
         /\ jobs'[Len(jobs) + 1] = row
<1>1. jobs \in Seq(Job) /\ Len(jobs) \in Nat BY RowsTyped
<1>2. /\ jobs' \in Seq(Job) /\ Len(jobs') = Len(jobs) + 1
      /\ \A j \in 1..Len(jobs) : jobs'[j] = jobs[j]
      /\ jobs'[Len(jobs) + 1] = row
  BY <1>1, AppendProperties
<1> QED BY <1>1, <1>2, SlskdAssumption DEF Rows

\* A row may be overwritten.
LEMMA ExceptTyped ==
  ASSUME TypeOK, NEW i \in Rows, NEW row \in Job, jobs' = [jobs EXCEPT ![i] = row]
  PROVE  /\ jobs' \in Seq(Job) /\ Len(jobs') = Len(jobs) /\ Len(jobs') <= MaxJobs
         /\ \A j \in Rows : jobs'[j] = (IF j = i THEN row ELSE jobs[j])
<1>1. jobs \in Seq(Job) /\ Len(jobs) \in Nat BY RowsTyped
<1>2. /\ jobs' \in Seq(Job) /\ Len(jobs') = Len(jobs)
      /\ \A j \in 1..Len(jobs) : jobs'[j] = (IF j = i THEN row ELSE jobs[j])
  BY <1>1, ExceptSeq DEF Rows
<1> QED BY <1>1, <1>2 DEF TypeOK, Rows

\* A row starts out with the type of a job.
LEMMA NewTyped ==
  ASSUME NEW k \in Releases, NEW r \in Callers, NEW lid \in BOOLEAN
  PROVE  NewJob(k, r, lid) \in Job
BY SlskdAssumption DEF NewJob, Job, States, Conflicting, Active

\* So do the sync and the callers at rest.
LEMMA RestTyped == Resting \in Syncs /\ Idle \in Creators /\ NoDownloads \in [Ids -> Transfers]
<1>1. (CHOOSE k \in Releases : TRUE) \in Releases BY SlskdAssumption
<1>2. NewJob(CHOOSE k \in Releases : TRUE, NoRec, FALSE) \in Job
  BY <1>1, NewTyped DEF Callers
<1>3. NoDownloads \in [Ids -> Transfers] BY DEF NoDownloads, Transfers
<1>4. 0 \in 0..MaxJobs BY SlskdAssumption
<1>5. Resting \in Syncs BY <1>2, <1>3, <1>4 DEF Resting, Syncs, ActionStates, Following
<1>6. Idle \in Creators BY <1>1, <1>4 DEF Idle, Creators
<1> QED BY <1>3, <1>5, <1>6

\* A record of the sync keeps its type when one of its steps is put in.
LEMMA WriteTyped ==
  ASSUME NEW s \in Syncs, NEW row \in Job, NEW st \in ActionStates,
         NEW then \in {"next", "search", "look", "report"}, Write(s, row, st, then)
  PROVE  /\ sync' \in Syncs /\ sync'.pc = "save" /\ sync'.row = row /\ sync'.st = st
         /\ sync'.then = then /\ sync'.id = s.id /\ sync'.left = s.left /\ sync'.cfg = s.cfg
         /\ sync'.seen = s.seen /\ sync'.snap = s.snap
BY DEF Write, Syncs

\* Going on to another step leaves the rest of the record.
LEMMA GotoTyped ==
  ASSUME TypeOK, Goto("import") \/ Goto("submit") \/ Goto("search") \/ Goto("look") \/ Goto("report")
  PROVE  /\ sync' \in Syncs /\ sync'.row = sync.row /\ sync'.st = sync.st
         /\ sync'.then = sync.then /\ sync'.id = sync.id /\ sync'.left = sync.left
         /\ sync'.cfg = sync.cfg /\ sync'.seen = sync.seen /\ sync'.snap = sync.snap
BY DEF Goto, Syncs, TypeOK

\* Leaving a job keeps the list, the configuration and what slskd told.
LEMMA LeaveTyped ==
  ASSUME TypeOK, Leave
  PROVE  /\ sync' \in Syncs /\ sync'.pc = "next" /\ sync'.id = 0 /\ sync'.left = sync.left
         /\ sync'.cfg = sync.cfg /\ sync'.seen = sync.seen /\ sync'.snap = sync.snap
<1>1. sync \in Syncs /\ Resting \in Syncs BY RestTyped DEF TypeOK
<1>2. Resting.id = 0 BY DEF Resting
<1> QED BY <1>1, <1>2 DEF Leave, Syncs

\* failJob writes a job.
LEMMA FailTyped ==
  ASSUME TypeOK, NEW s \in Syncs, s.id \in Rows, Fail(s)
  PROVE  /\ sync' \in Syncs /\ sync'.pc = "save" /\ sync'.st = "failed" /\ sync'.then = "report"
         /\ sync'.row \in Job
         /\ sync'.row.rel = jobs[s.id].rel /\ sync'.row.rec = jobs[s.id].rec
         /\ sync'.row.att = jobs[s.id].att /\ sync'.row.peer = jobs[s.id].peer
         /\ sync'.row.bad = jobs[s.id].bad /\ sync'.row.state = "failed"
         /\ sync'.id = s.id /\ sync'.left = s.left /\ sync'.cfg = s.cfg
         /\ sync'.seen = s.seen /\ sync'.snap = s.snap
<1> DEFINE row == [jobs[s.id] EXCEPT !.state = "failed", !.review = FALSE]
<1>1. jobs[s.id] \in Job BY RowsTyped
<1>2. /\ row \in Job /\ row.rel = jobs[s.id].rel /\ row.rec = jobs[s.id].rec
      /\ row.att = jobs[s.id].att /\ row.peer = jobs[s.id].peer /\ row.bad = jobs[s.id].bad
      /\ row.state = "failed"
  BY <1>1 DEF Job, States, Conflicting
<1>3. "failed" \in ActionStates BY DEF ActionStates
<1>4. Write(s, row, "failed", "report") BY DEF Fail
<1> HIDE DEF row
<1> QED BY <1>2, <1>3, <1>4, WriteTyped

\* A fault is counted up to the bound.
LEMMA FaultTyped ==
  ASSUME TypeOK
  PROVE  /\ faults \in Nat
         /\ Fault => faults' \in 0..MaxFaults /\ faults' = faults + 1
BY SlskdAssumption DEF TypeOK, Fault

\* The past of a job is a record.
LEMMA PastTyped ==
  ASSUME TypeOK, NEW j \in Ids
  PROVE  /\ hist[j].searches \in Nat /\ hist[j].tried \subseteq Peers
         /\ hist[j] \in [searches: Nat, tried: SUBSET Peers, retries: Nat]
BY DEF TypeOK

\* A row has typed fields.
LEMMA FieldsTyped ==
  ASSUME NEW row \in Job
  PROVE  /\ row.rel \in Releases /\ row.rec \in Callers /\ row.lid \in BOOLEAN
         /\ row.state \in States /\ row.att \in Nat /\ row.found \in BOOLEAN
         /\ row.bad \subseteq Peers /\ row.peer \in Peers \cup {NoPeer}
         /\ row.checks \in 0..MaxChecks /\ row.age \in 0..2
BY DEF Job

-----------------------------------------------------------------------------
(* Steps of the sync. *)

\* What is written fits when it may be written.
LEMMA WriteFits ==
  ASSUME TypeOK, NEW s \in Syncs, s.left \subseteq ActiveRows, s.id \in Rows \ s.left,
         NEW row \in Job, NEW st \in ActionStates,
         NEW then \in {"next", "search", "look", "report"}, Write(s, row, st, then),
         jobs' = jobs, faults' \in Nat, faults <= faults',
         Writes(s.id, hist'[s.id], row, then)
  PROVE  sync' \in Syncs /\ sync'.pc = "save" /\ sync'.id = s.id /\ Fits(sync)'
<1>1. /\ sync' \in Syncs /\ sync'.pc = "save" /\ sync'.row = row
      /\ sync'.then = then /\ sync'.id = s.id /\ sync'.left = s.left
  BY WriteTyped
<1>2. Listed(sync)' BY <1>1 DEF Listed, ActiveRows, Rows
<1>3. Stands(sync)' BY <1>1 DEF Stands
<1>4. faults \in Nat /\ MaxRetries \in Nat /\ row.att \in Nat
  BY FaultTyped, FieldsTyped, SlskdAssumption
<1>5. Saves(sync)' BY <1>1, <1>4 DEF Saves, Writes, Failures
<1> QED BY <1>1, <1>2, <1>3, <1>5 DEF Fits

\* A failure may be written to any row.
LEMMA FailFits ==
  ASSUME TypeOK, NEW s \in Syncs, s.left \subseteq ActiveRows, s.id \in Rows \ s.left,
         Fail(s), jobs' = jobs, faults' \in Nat, faults <= faults',
         hist'[s.id].searches <= jobs[s.id].att, jobs[s.id].att <= MaxRetries + 1 + faults,
         hist'[s.id].tried \subseteq Failures(jobs[s.id])
  PROVE  sync' \in Syncs /\ sync'.pc = "save" /\ sync'.id = s.id /\ Fits(sync)'
<1>1. /\ sync' \in Syncs /\ sync'.pc = "save" /\ sync'.then = "report" /\ sync'.row \in Job
      /\ sync'.row.rel = jobs[s.id].rel /\ sync'.row.att = jobs[s.id].att
      /\ sync'.row.peer = jobs[s.id].peer /\ sync'.row.bad = jobs[s.id].bad
      /\ sync'.row.state = "failed" /\ sync'.id = s.id /\ sync'.left = s.left
  BY FailTyped
<1>2. Listed(sync)' BY <1>1 DEF Listed, ActiveRows, Rows
<1>3. Stands(sync)' BY <1>1 DEF Stands
<1>4. faults \in Nat /\ MaxRetries \in Nat /\ jobs[s.id].att \in Nat
  BY FaultTyped, RowsTyped, FieldsTyped, SlskdAssumption
<1>5. Saves(sync)' BY <1>1, <1>4 DEF Saves, Writes, Failures, Searched
<1> QED BY <1>1, <1>2, <1>3, <1>5 DEF Fits

\* The sync may always go on to the next job.
LEMMA LeaveFits ==
  ASSUME TypeOK, Fits(sync), Leave, ActiveRows \cap sync.left \subseteq ActiveRows'
  PROVE  sync' \in Syncs /\ sync'.pc = "next" /\ Fits(sync)'
<1>1. sync' \in Syncs /\ sync'.pc = "next" /\ sync'.left = sync.left BY LeaveTyped
<1>2. sync'.left \subseteq ActiveRows' BY <1>1 DEF Fits, Listed
<1> QED BY <1>1, <1>2 DEF Fits, Listed, Stands, Saves, JobSteps

\* A sync at rest fits.
LEMMA RestFits == ASSUME sync' = Resting PROVE sync' \in Syncs /\ Fits(sync)'
<1>1. sync' \in Syncs /\ sync'.pc = "idle" /\ sync'.left = {}
  BY RestTyped DEF Resting
<1> QED BY <1>1 DEF Fits, Listed, Stands, Saves, JobSteps

\* Rows that are left alone stay in order, unless a step drops what it was about to write.
LEMMA RowwiseKept ==
  ASSUME TypeOK, Rowwise, UNCHANGED <<jobs, hist>>, faults' \in Nat, faults <= faults',
         \/ sync.pc \notin {"search", "save"}
         \/ sync'.pc \in {"search", "save"} /\ sync'.id = sync.id
         \/ faults' = faults + 1
  PROVE  Rowwise'
<1> SUFFICES ASSUME NEW j \in Rows PROVE Paid(j)' /\ Afford(j)' /\ Remembered(j)'
  BY DEF Rowwise, Rows
<1>1. Paid(j) /\ Afford(j) /\ Remembered(j) BY DEF Rowwise
<1>2. faults \in Nat /\ MaxRetries \in Nat /\ jobs[j].att \in Nat
  BY FaultTyped, RowsTyped, FieldsTyped, SlskdAssumption
<1>3. Paid(j)' BY <1>1, <1>2 DEF Paid
<1>4. Afford(j)' BY <1>1, <1>2 DEF Afford, Paid
<1>5. Remembered(j)' BY <1>1 DEF Remembered, Failures
<1> QED BY <1>3, <1>4, <1>5

\* A step of the sync that leaves the rows and the callers alone.
LEMMA SyncMoves ==
  ASSUME IInv, TypeOK', Fits(sync)', UNCHANGED <<jobs, hist, cr>>, sync.pc # "intake",
         \A j \in Ids \ Rows : batch'[j] = batch[j] /\ cmd'[j] = cmd[j],
         faults <= faults',
         \/ sync.pc \notin {"search", "save"}
         \/ sync'.pc \in {"search", "save"} /\ sync'.id = sync.id
         \/ faults' = faults + 1
  PROVE  IInv'
<1>1. Rowwise'
  <2>1. faults' \in Nat BY SlskdAssumption DEF TypeOK
  <2> QED BY <2>1, RowwiseKept DEF IInv
<1>2. \A c \in Callers : Pointing(c)' BY DEF IInv, Pointing, Rows
<1>3. NoPast' BY DEF IInv, NoPast, Rows
<1>4. Taking' BY DEF IInv, Taking
<1>5. Unique' BY DEF IInv, Unique, Rows
<1>6. Retrying' BY DEF IInv, Retrying
<1> QED BY <1>1, <1>2, <1>3, <1>4, <1>5, <1>6 DEF IInv

\* What is known of the row under work.
LEMMA AtWork ==
  ASSUME IInv, sync.pc \in JobSteps
  PROVE  /\ sync \in Syncs /\ sync.id \in Rows \ sync.left /\ sync.left \subseteq ActiveRows
         /\ sync.id \in Ids /\ sync.peer \in Peers \cup {NoPeer} /\ sync.pc # "intake"
         /\ job \in Job /\ job = jobs[sync.id]
         /\ Paid(sync.id) /\ Afford(sync.id) /\ Remembered(sync.id)
         /\ faults \in Nat /\ MaxRetries \in Nat
         /\ Stands(sync) /\ Saves(sync)
<1>1. TypeOK /\ Fits(sync) /\ Rowwise BY DEF IInv
<1>2. sync \in Syncs /\ sync.peer \in Peers \cup {NoPeer} BY <1>1 DEF TypeOK, Syncs
<1>3. sync.id \in Rows \ sync.left /\ sync.left \subseteq ActiveRows
  BY <1>1 DEF Fits, Listed
<1>4. sync.id \in Ids /\ job \in Job /\ job = jobs[sync.id] BY <1>1, <1>3, RowsTyped DEF job
<1>5. Paid(sync.id) /\ Afford(sync.id) /\ Remembered(sync.id) BY <1>1, <1>3 DEF Rowwise
<1>6. faults \in Nat /\ MaxRetries \in Nat BY <1>1, FaultTyped, SlskdAssumption
<1>7. sync.pc # "intake" BY DEF JobSteps
<1> QED BY <1>1, <1>2, <1>3, <1>4, <1>5, <1>6, <1>7 DEF Fits

\* The job under work may fail at any step.
LEMMA FailStep ==
  ASSUME IInv, sync.pc \in JobSteps, Fail(sync), UNCHANGED <<jobs, hist>>,
         faults' \in Nat, faults <= faults'
  PROVE  sync' \in Syncs /\ sync'.pc = "save" /\ sync'.id = sync.id /\ Fits(sync)'
<1>1. /\ sync \in Syncs /\ sync.id \in Rows \ sync.left /\ sync.left \subseteq ActiveRows
      /\ Paid(sync.id) /\ Remembered(sync.id)
  BY AtWork
<1>2. TypeOK BY DEF IInv
<1> QED BY <1>1, <1>2, FailFits DEF Paid, Remembered

\* The job under work may be left at any step.
LEMMA LeaveStep ==
  ASSUME IInv, Leave, jobs' = jobs
  PROVE  sync' \in Syncs /\ sync'.pc = "next" /\ Fits(sync)'
<1>1. TypeOK /\ Fits(sync) BY DEF IInv
<1>2. ActiveRows' = ActiveRows BY DEF ActiveRows, Rows
<1> QED BY <1>1, <1>2, LeaveFits

\* The job under work may be written in another state that is not a search.
LEMMA ReportStep ==
  ASSUME IInv, sync.pc \in JobSteps, UNCHANGED <<jobs, hist>>, faults' \in Nat, faults <= faults',
         NEW row \in Job, NEW st \in ActionStates, Write(sync, row, st, "report"),
         row.rel = job.rel, row.att = job.att, row.state \notin Searched,
         Failures(job) \subseteq Failures(row)
  PROVE  sync' \in Syncs /\ sync'.pc = "save" /\ sync'.id = sync.id /\ Fits(sync)'
<1>1. /\ sync \in Syncs /\ sync.id \in Rows \ sync.left /\ sync.left \subseteq ActiveRows
      /\ job = jobs[sync.id] /\ Paid(sync.id) /\ Remembered(sync.id)
  BY AtWork
<1>2. TypeOK BY DEF IInv
<1>3. Writes(sync.id, hist'[sync.id], row, "report") BY <1>1 DEF Writes, Paid, Remembered
<1> QED BY <1>1, <1>2, <1>3, WriteFits

\* A job with another state, another peer or another number of checks is a job.
LEMMA EditTyped ==
  ASSUME NEW row \in Job
  PROVE  /\ \A st \in States : [row EXCEPT !.state = st] \in Job
         /\ \A st \in States, n \in 0..MaxChecks :
              [row EXCEPT !.state = st, !.checks = n] \in Job
         /\ \A st \in States, b \in BOOLEAN :
              [row EXCEPT !.state = st, !.review = b] \in Job
         /\ \A st \in States, p \in Peers \cup {NoPeer} :
              [row EXCEPT !.state = st, !.peer = p] \in Job
         /\ \A st \in States, n \in Nat : [row EXCEPT !.state = st, !.att = n] \in Job
         /\ \A n \in Nat : [row EXCEPT !.att = n] \in Job
         /\ \A n \in 0..MaxChecks : [row EXCEPT !.checks = n] \in Job
         /\ [row EXCEPT !.found = TRUE] \in Job
BY DEF Job

\* The sync ends, the list is read, and the next job is taken.
LEMMA DoneStep == IInv /\ SyncDone => IInv'
<1> SUFFICES ASSUME IInv, SyncDone PROVE IInv'
  OBVIOUS
<1>1. sync' \in Syncs /\ Fits(sync)' BY RestFits DEF SyncDone
<1>2. TypeOK' BY <1>1 DEF SyncDone, TypeOK, IInv, outside
<1>3. faults \in Nat BY FaultTyped DEF IInv
<1> QED BY <1>1, <1>2, <1>3, SyncMoves DEF SyncDone, outside

\* The list of active rows is read.
LEMMA ListStep == IInv /\ List => IInv'
<1> SUFFICES ASSUME IInv, List PROVE IInv'
  OBVIOUS
<1>1. TypeOK /\ faults \in Nat BY FaultTyped DEF IInv
<1> DEFINE L == {j \in ActiveRows : Cardinality({i \in ActiveRows : i < j}) < Limit}
<1>2. L \subseteq ActiveRows /\ ActiveRows \subseteq Ids BY <1>1, RowsTyped DEF ActiveRows
<1>3. sync' = [sync EXCEPT !.pc = "next", !.cfg = config, !.left = L] BY DEF List
<1> HIDE DEF L
<1>4. sync' \in Syncs /\ sync'.pc = "next" /\ sync'.left = L
  BY <1>1, <1>2, <1>3 DEF TypeOK, Syncs
<1>5. ActiveRows' = ActiveRows BY DEF List, ActiveRows, Rows
<1>6. Fits(sync)' BY <1>2, <1>4, <1>5 DEF Fits, Listed, Stands, Saves, JobSteps
<1>7. TypeOK' BY <1>1, <1>4 DEF List, TypeOK, outside
<1> QED BY <1>1, <1>6, <1>7, SyncMoves DEF List, outside

\* A step that changes nothing but the sync.
LEMMA SyncOnly ==
  ASSUME IInv, sync' \in Syncs, Fits(sync)', UNCHANGED <<jobs, act, cr, paced, hist, approvals, outside>>,
         sync.pc # "intake",
         \/ UNCHANGED faults /\ sync.pc \notin {"search", "save"}
         \/ UNCHANGED faults /\ sync'.pc \in {"search", "save"} /\ sync'.id = sync.id
         \/ Fault
  PROVE  IInv'
<1>1. TypeOK /\ faults \in Nat /\ (Fault => faults' \in 0..MaxFaults /\ faults' = faults + 1)
  BY FaultTyped DEF IInv
<1>2. faults' \in 0..MaxFaults /\ (faults' = faults \/ faults' = faults + 1)
  BY <1>1 DEF TypeOK
<1>3. TypeOK' BY <1>1, <1>2 DEF TypeOK, outside
<1> QED BY <1>1, <1>2, <1>3, SyncMoves DEF outside

\* The first row of the list is taken, and processJobs chooses its branch.
LEMMA NextJobStep == IInv /\ NextJob => IInv'
<1> SUFFICES ASSUME IInv, NextJob PROVE IInv'
  OBVIOUS
<1>1. TypeOK /\ Fits(sync) /\ Rowwise /\ sync \in Syncs /\ sync.pc = "next"
  BY DEF IInv, NextJob, TypeOK
<1>2. sync.left \subseteq ActiveRows BY <1>1 DEF Fits, Listed
<1>3. PICK j \in sync.left : NextJob!2!(j)
  BY DEF NextJob
<1> DEFINE row == jobs[j]
           s == [sync EXCEPT !.id = j, !.left = sync.left \ {j}, !.peer = NoPeer]
<1>4. j \in Rows /\ row \in Job /\ row.state \in Active BY <1>1, <1>2, <1>3, RowsTyped DEF ActiveRows
<1>5. s \in Syncs /\ s.pc = "next" /\ s.id = j /\ s.left = sync.left \ {j} /\ s.left \subseteq ActiveRows
  <2>1. j \in Ids /\ j \in 0..MaxJobs BY <1>1, <1>4, RowsTyped, SlskdAssumption DEF Ids
  <2> QED BY <1>1, <1>2, <2>1 DEF Syncs
<1>6. Paid(j) /\ Afford(j) /\ Remembered(j) BY <1>1, <1>4 DEF Rowwise
<1>7. faults \in Nat /\ MaxRetries \in Nat BY <1>1, FaultTyped, SlskdAssumption
<1>8. sync' \in Syncs /\ Fits(sync)'
  <2>1. UNCHANGED <<jobs, hist, faults>> BY DEF NextJob
  <2>2. ActiveRows' = ActiveRows /\ Rows' = Rows BY <2>1 DEF ActiveRows, Rows
  <2>3. \/ Fail(s)
        \/ row.state \in Searched /\ row.found /\ sync' = [s EXCEPT !.pc = "look"]
        \/ sync' = [s EXCEPT !.id = 0]
        \/ /\ row.state \in Searched /\ ~row.found
           /\ Write(s, [row EXCEPT !.state = "searching", !.att = row.att + 1], "none", "search")
        \/ row.state \in {"queued", "downloading"} /\ sync' = [s EXCEPT !.pc = "transfers"]
        \/ row.state = "import_pending" /\ sync' = [s EXCEPT !.pc = "check"]
    BY <1>3 DEF Searched
  <2> HIDE DEF s
  <2>4. CASE Fail(s) BY <1>1, <1>4, <1>5, <1>6, <1>7, <2>1, <2>4, FailFits DEF Paid, Remembered
  <2>5. CASE row.state \in Searched /\ row.found /\ sync' = [s EXCEPT !.pc = "look"]
    <3>1. /\ sync' \in Syncs /\ sync'.pc = "look" /\ sync'.id = s.id /\ sync'.left = s.left
      BY <1>5, <2>5 DEF Syncs
    <3> QED BY <1>4, <1>5, <2>1, <2>2, <2>5, <3>1 DEF Fits, Listed, Stands, Saves
  <2>6. CASE sync' = [s EXCEPT !.id = 0]
    <3>1. sync' \in Syncs /\ sync'.pc = "next" /\ sync'.left = s.left
      BY <1>5, <2>6, SlskdAssumption DEF Syncs
    <3> QED BY <1>5, <2>2, <3>1 DEF Fits, Listed, Stands, Saves, JobSteps
  <2>7. CASE /\ row.state \in Searched /\ ~row.found
             /\ Write(s, [row EXCEPT !.state = "searching", !.att = row.att + 1], "none", "search")
    <3> DEFINE new == [row EXCEPT !.state = "searching", !.att = row.att + 1]
    <3>1. row.att \in Nat BY <1>4, FieldsTyped
    <3>2. new \in Job
      <4>1. "searching" \in States /\ row.att + 1 \in Nat BY <3>1 DEF States, Conflicting, Active
      <4> QED BY <1>4, <4>1, EditTyped
    <3>3. /\ new.state = "searching" /\ new.att = row.att + 1 /\ new.rel = row.rel
          /\ new.found = row.found /\ new.peer = row.peer /\ new.bad = row.bad
      BY <1>4 DEF Job
    <3>4. row.att <= MaxRetries + faults BY <1>1, <2>7 , <1>6 DEF Afford
    <3>5. hist[j].searches \in Nat BY <1>1, <1>4, RowsTyped, PastTyped
    <3>6. /\ hist[j].searches <= row.att /\ hist[j].tried \subseteq Failures(row)
          /\ row.peer = NoPeer
      BY <1>6, <2>7 DEF Paid, Remembered
    <3> HIDE DEF new
    <3>7. new.rel = jobs[j].rel /\ hist[j].searches + 1 <= new.att /\ hist[j].searches <= new.att
      BY <3>1, <3>3, <3>5, <3>6
    <3>8. new.att <= MaxRetries + 1 + faults BY <3>1, <3>3, <3>4, <1>7
    <3>9. Failures(new) = Failures(row) BY <3>3 DEF Failures
    <3>10. Writes(s.id, hist'[s.id], new, "search")
      BY <1>4, <1>5, <2>1, <2>7, <3>3, <3>6, <3>7, <3>8, <3>9 DEF Writes
    <3>11. "none" \in ActionStates BY DEF ActionStates
    <3>12. Write(s, new, "none", "search") BY <2>7 DEF new
    <3> QED BY <1>1, <1>4, <1>5, <1>7, <2>1, <3>2, <3>10, <3>11, <3>12, WriteFits
  <2>8. CASE row.state \in {"queued", "downloading"} /\ sync' = [s EXCEPT !.pc = "transfers"]
    <3>1. /\ sync' \in Syncs /\ sync'.pc = "transfers" /\ sync'.id = s.id /\ sync'.left = s.left
      BY <1>5, <2>8 DEF Syncs
    <3> QED BY <1>4, <1>5, <2>1, <2>2, <2>8, <3>1 DEF Fits, Listed, Stands, Saves
  <2>9. CASE row.state = "import_pending" /\ sync' = [s EXCEPT !.pc = "check"]
    <3>1. /\ sync' \in Syncs /\ sync'.pc = "check" /\ sync'.id = s.id /\ sync'.left = s.left
      BY <1>5, <2>9 DEF Syncs
    <3> QED BY <1>4, <1>5, <2>1, <2>2, <2>9, <3>1 DEF Fits, Listed, Stands, Saves
  <2> QED BY <2>3, <2>4, <2>5, <2>6, <2>7, <2>8, <2>9
<1> QED BY <1>1, <1>8, SyncOnly DEF NextJob

\* createSearch answers: the search is counted, or its attempt is given back.
LEMMA SearchStep == ASSUME IInv, NEW answer, Search(answer) PROVE IInv'
<1>1. /\ TypeOK /\ sync.pc \in JobSteps /\ UNCHANGED <<jobs, cr, faults, batch, cmd>>
  BY DEF IInv, Search, JobSteps, outside
<1>2. /\ sync \in Syncs /\ sync.id \in Rows \ sync.left /\ sync.left \subseteq ActiveRows
      /\ sync.id \in Ids /\ job \in Job /\ job = jobs[sync.id] /\ faults \in Nat /\ MaxRetries \in Nat
      /\ Paid(sync.id) /\ Remembered(sync.id) /\ Stands(sync) /\ sync.pc # "intake"
  BY <1>1, AtWork
<1>3. /\ job.att \in Nat /\ hist[sync.id].searches \in Nat /\ hist[sync.id].tried \subseteq Peers
      /\ hist \in [Ids -> [searches: Nat, tried: SUBSET Peers, retries: Nat]]
  BY <1>1, <1>2, FieldsTyped, PastTyped DEF TypeOK
<1>4. /\ job.state = "searching" /\ ~job.found /\ hist[sync.id].searches + 1 <= job.att
      /\ job.att <= MaxRetries + 1 + faults /\ hist[sync.id].tried \subseteq Failures(job)
      /\ job.peer = NoPeer
  BY <1>2 DEF Stands, Search, Paid, Remembered, Searched
<1>5. /\ hist' \in [Ids -> [searches: Nat, tried: SUBSET Peers, retries: Nat]]
      /\ hist'[sync.id].searches <= hist[sync.id].searches + 1
      /\ hist'[sync.id].tried = hist[sync.id].tried
      /\ \A j \in Ids \ {sync.id} : hist'[j] = hist[j]
      /\ answer = "busy" => hist'[sync.id].searches = hist[sync.id].searches
  <2>1. CASE answer = "busy" BY <2>1, <1>3 DEF Search
  <2>2. CASE answer # "busy"
    <3>1. hist' = [hist EXCEPT ![sync.id].searches = hist[sync.id].searches + 1]
      BY <2>2 DEF Search
    <3> QED BY <3>1, <2>2, <1>2, <1>3
  <2> QED BY <2>1, <2>2
<1>5a. hist'[sync.id].searches \in Nat BY <1>2, <1>5
<1>6. sync' \in Syncs /\ sync'.pc = "save" /\ sync'.id = sync.id /\ Fits(sync)'
  <2>1. "none" \in ActionStates BY DEF ActionStates
  <2>2. CASE Write(sync, [job EXCEPT !.found = TRUE], "none", "look") /\ answer = "ok"
    <3> DEFINE new == [job EXCEPT !.found = TRUE]
    <3>1. new \in Job BY <1>2, EditTyped
    <3>2. /\ new.state = job.state /\ new.found /\ new.att = job.att /\ new.rel = job.rel
          /\ new.peer = job.peer /\ new.bad = job.bad
      BY <1>2 DEF Job
    <3>3. Write(sync, new, "none", "look") BY <2>2
    <3> HIDE DEF new
    <3>4. hist'[sync.id].searches <= new.att BY <1>3, <1>4, <1>5, <1>5a, <3>2
    <3>5. Writes(sync.id, hist'[sync.id], new, "look")
      BY <1>2, <1>4, <1>5, <3>2, <3>4 DEF Writes, Failures, Searched, Active
    <3> QED BY <1>1, <1>2, <2>1, <3>1, <3>3, <3>5, WriteFits
  <2>3. CASE Write(sync, [job EXCEPT !.att = job.att - 1], "none", "next") /\ answer = "busy"
    <3> DEFINE new == [job EXCEPT !.att = job.att - 1]
    <3>1. job.att - 1 \in Nat BY <1>3, <1>4
    <3>2. new \in Job BY <1>2, <3>1, EditTyped
    <3>3. /\ new.state = job.state /\ new.att = job.att - 1 /\ new.rel = job.rel
          /\ new.peer = job.peer /\ new.bad = job.bad
      BY <1>2 DEF Job
    <3>4. Write(sync, new, "none", "next") BY <2>3
    <3> HIDE DEF new
    <3>5. hist'[sync.id].searches <= new.att /\ new.att <= MaxRetries + faults
      BY <1>2, <1>3, <1>4, <1>5, <2>3, <3>3
    <3>6. new.att <= MaxRetries + 1 + faults BY <1>2, <1>3, <3>1, <3>3, <3>5
    <3>7. Writes(sync.id, hist'[sync.id], new, "next")
      BY <1>2, <1>4, <1>5, <3>3, <3>5, <3>6 DEF Writes, Failures, Searched, Active
    <3> QED BY <1>1, <1>2, <2>1, <3>2, <3>4, <3>7, WriteFits
  <2>4. CASE Fail(sync)
    <3>1. hist'[sync.id].searches <= job.att BY <1>3, <1>4, <1>5, <1>5a
    <3> QED BY <1>1, <1>2, <1>4, <1>5, <2>4, <3>1, FailFits
  <2> QED BY <2>2, <2>3, <2>4 DEF Search
<1>7. TypeOK' BY <1>1, <1>5, <1>6 DEF Search, TypeOK, outside
<1>8. Rowwise'
  <2> SUFFICES ASSUME NEW j \in Rows PROVE Paid(j)' /\ Afford(j)' /\ Remembered(j)'
    BY <1>1 DEF Rowwise, Rows
  <2>1. Paid(j) /\ Afford(j) /\ Remembered(j) /\ j \in Ids
    BY <1>1, RowsTyped DEF Rowwise, IInv
  <2>2. CASE j = sync.id
    <3>1. Paid(j)' BY <1>1, <1>2, <1>3, <1>4, <1>5, <1>5a, <2>2 DEF Paid
    <3>2. Afford(j)' BY <1>6, <2>2 DEF Afford
    <3>3. Remembered(j)' BY <1>1, <1>5, <2>1, <2>2 DEF Remembered, Failures
    <3> QED BY <3>1, <3>2, <3>3
  <2>3. CASE j # sync.id
    <3>1. Paid(j)' /\ Remembered(j)' BY <1>1, <1>5, <2>1, <2>3 DEF Paid, Remembered, Failures
    <3>2. Afford(j)' BY <1>1, <2>1, <2>3 DEF Afford
    <3> QED BY <3>1, <3>2
  <2> QED BY <2>2, <2>3
<1>9. NoPast' BY <1>1, <1>2, <1>5 DEF IInv, NoPast, Rows
<1>10. cr[NoRec].pc = "idle" BY <1>2 DEF IInv, Taking
<1> QED BY <1>1, <1>6, <1>7, <1>8, <1>9, <1>10 DEF IInv, Pointing, Taking, Unique, Rows, Retrying

\* The results of a search are judged.
LEMMA LookStep == ASSUME IInv, Look PROVE IInv'
<1>1. /\ TypeOK /\ sync.pc \in JobSteps /\ sync.pc = "look"
      /\ UNCHANGED <<jobs, act, cr, paced, hist, approvals, faults, outside>>
  BY DEF IInv, Look, JobSteps
<1>2. /\ sync \in Syncs /\ sync.id \in Rows \ sync.left /\ sync.left \subseteq ActiveRows
      /\ job \in Job /\ job = jobs[sync.id] /\ faults \in Nat /\ Stands(sync) /\ sync.pc # "intake"
  BY <1>1, AtWork
<1>3. CASE Leave BY <1>1, <1>2, <1>3, LeaveStep, SyncOnly
<1>4. CASE Fail(sync)
  <2>1. sync' \in Syncs /\ sync'.pc = "save" /\ sync'.id = sync.id /\ Fits(sync)'
    BY <1>1, <1>2, <1>4, FailStep
  <2> QED BY <1>1, <1>2, <2>1, SyncOnly
<1>5. CASE Write(sync, [job EXCEPT !.state = "failed", !.review = TRUE], "needs_review", "report")
  <2> DEFINE new == [job EXCEPT !.state = "failed", !.review = TRUE]
  <2>1. new \in Job
    <3>1. "failed" \in States BY DEF States, Conflicting
    <3> QED BY <1>2, <3>1, EditTyped
  <2>2. /\ new.state = "failed" /\ new.att = job.att /\ new.rel = job.rel
        /\ new.peer = job.peer /\ new.bad = job.bad
    BY <1>2 DEF Job
  <2>3. Write(sync, new, "needs_review", "report") BY <1>5
  <2> HIDE DEF new
  <2>4. "needs_review" \in ActionStates BY DEF ActionStates
  <2>5. Failures(job) \subseteq Failures(new) /\ new.state \notin Searched
    BY <2>2 DEF Failures, Searched
  <2>6. sync' \in Syncs /\ sync'.pc = "save" /\ sync'.id = sync.id /\ Fits(sync)'
    BY <1>1, <1>2, <2>1, <2>2, <2>3, <2>4, <2>5, ReportStep
  <2> QED BY <1>1, <1>2, <2>6, SyncOnly
<1>6. ASSUME NEW p \in Peers \ job.bad, sync' = [sync EXCEPT !.pc = "enqueue", !.peer = p]
      PROVE  IInv'
  <2>1. /\ sync' \in Syncs /\ sync'.pc = "enqueue" /\ sync'.id = sync.id
        /\ sync'.left = sync.left /\ sync'.peer = p
    BY <1>2, <1>6 DEF Syncs
  <2>2. Listed(sync)' BY <1>1, <1>2, <2>1 DEF Listed, ActiveRows, Rows
  <2>3. Stands(sync)' BY <1>1, <1>2, <2>1 DEF Stands
  <2>4. Fits(sync)' BY <2>1, <2>2, <2>3 DEF Fits, Saves
  <2> QED BY <1>1, <1>2, <2>1, <2>4, SyncOnly
<1> QED BY <1>3, <1>4, <1>5, <1>6 DEF Look

\* A release is enqueued with a peer that did not fail.
LEMMA EnqueueStep == ASSUME IInv, Enqueue PROVE IInv'
<1>1. /\ TypeOK /\ sync.pc \in JobSteps /\ sync.pc = "enqueue"
      /\ UNCHANGED <<jobs, act, cr, paced, hist, approvals, config, cmd, have>>
  BY DEF IInv, Enqueue, JobSteps
<1>2. /\ sync \in Syncs /\ sync.id \in Rows \ sync.left /\ sync.left \subseteq ActiveRows
      /\ job \in Job /\ job = jobs[sync.id] /\ faults \in Nat /\ Stands(sync) /\ sync.pc # "intake"
      /\ sync.id \in Ids /\ Remembered(sync.id)
  BY <1>1, AtWork
<1>3. sync.peer \in Peers /\ job.peer = NoPeer
  BY <1>1, <1>2 DEF Stands, Remembered
<1>4. /\ batch' \in [Ids -> Transfers]
      /\ \A j \in Ids \ Rows : batch'[j] = batch[j] /\ cmd'[j] = cmd[j]
  BY <1>1, <1>2 DEF Enqueue, TypeOK, Transfers
<1>5. faults' \in 0..MaxFaults /\ faults' \in Nat /\ faults <= faults'
  <2>1. CASE faults' = faults BY <1>1, <1>2, <2>1 DEF TypeOK
  <2>2. CASE Fault BY <1>1, <1>2, <2>2, FaultTyped
  <2> QED BY <2>1, <2>2 DEF Enqueue
<1>6. sync' \in Syncs /\ Fits(sync)'
  <2>1. CASE Fail(sync) BY <1>1, <1>5, <2>1, FailStep
  <2>2. CASE Write(sync, [job EXCEPT !.state = "queued", !.peer = sync.peer], "queued", "report")
    <3> DEFINE new == [job EXCEPT !.state = "queued", !.peer = sync.peer]
    <3>1. new \in Job
      <4>1. "queued" \in States BY DEF States, Conflicting, Active
      <4> QED BY <1>2, <1>3, <4>1, EditTyped
    <3>2. /\ new.state = "queued" /\ new.att = job.att /\ new.rel = job.rel
          /\ new.peer = sync.peer /\ new.bad = job.bad
      BY <1>2 DEF Job
    <3>3. Write(sync, new, "queued", "report") BY <2>2
    <3> HIDE DEF new
    <3>4. "queued" \in ActionStates BY DEF ActionStates, Following
    <3>5. Failures(job) \subseteq Failures(new) /\ new.state \notin Searched
      BY <1>3, <3>2 DEF Failures, Searched
    <3> QED BY <1>1, <1>5, <3>1, <3>2, <3>3, <3>4, <3>5, ReportStep
  <2> QED BY <2>1, <2>2 DEF Enqueue
<1>7. TypeOK' BY <1>1, <1>4, <1>5, <1>6 DEF TypeOK
<1> QED BY <1>1, <1>2, <1>4, <1>5, <1>6, <1>7, SyncMoves

\* The downloads are read once for the pass.
LEMMA FetchStep == ASSUME IInv, Fetch PROVE IInv'
<1>1. /\ TypeOK /\ sync.pc \in JobSteps /\ sync.pc = "transfers"
      /\ UNCHANGED <<jobs, act, cr, paced, hist, approvals, outside>>
  BY DEF IInv, Fetch, JobSteps
<1>2. /\ sync \in Syncs /\ sync.id \in Rows \ sync.left /\ sync.left \subseteq ActiveRows
      /\ Stands(sync) /\ sync.pc # "intake" /\ batch \in [Ids -> Transfers]
  BY <1>1, AtWork DEF TypeOK
<1>3. /\ sync' \in Syncs /\ sync'.pc = "transfers" /\ sync'.id = sync.id /\ sync'.left = sync.left
      /\ UNCHANGED faults \/ Fault
  <2>1. CASE sync' = [sync EXCEPT !.seen = "yes", !.snap = batch] /\ UNCHANGED faults
    BY <1>1, <1>2, <2>1 DEF Syncs
  <2>2. CASE Fault /\ sync' = [sync EXCEPT !.seen = "broken"] BY <1>1, <1>2, <2>2 DEF Syncs
  <2> QED BY <2>1, <2>2 DEF Fetch
<1>4. Listed(sync)' BY <1>1, <1>2, <1>3 DEF Listed, ActiveRows, Rows
<1>5. Stands(sync)' BY <1>1, <1>2, <1>3 DEF Stands
<1>6. Fits(sync)' BY <1>3, <1>4, <1>5 DEF Fits, Saves
<1> QED BY <1>1, <1>2, <1>3, <1>6, SyncOnly

\* The job goes on to the next step of its import.
LEMMA GotoStep ==
  ASSUME IInv, NEW pc \in {"import", "submit"}, sync.pc \in {"transfers", "import"}, Goto(pc),
         UNCHANGED <<jobs, act, cr, paced, hist, approvals, faults, outside>>
  PROVE  IInv'
<1>1. TypeOK /\ sync.pc \in JobSteps BY DEF IInv, JobSteps
<1>2. /\ sync \in Syncs /\ sync.id \in Rows \ sync.left /\ sync.left \subseteq ActiveRows
      /\ Stands(sync) /\ sync.pc # "intake"
  BY <1>1, AtWork
<1>3. /\ sync' \in Syncs /\ sync'.pc = pc /\ sync'.id = sync.id /\ sync'.left = sync.left
  BY <1>2 DEF Syncs, Goto
<1>4. Listed(sync)' BY <1>1, <1>2, <1>3 DEF Listed, ActiveRows, Rows
<1>5. Stands(sync)' BY <1>1, <1>2, <1>3 DEF Stands
<1>6. Fits(sync)' BY <1>3, <1>4, <1>5 DEF Fits, Saves
<1> QED BY <1>1, <1>2, <1>3, <1>6, SyncOnly

\* The job moves on to a state that is not a search.
LEMMA StateStep ==
  ASSUME IInv, sync.pc \in {"transfers", "import", "check"}, NEW to \in States \ Searched,
         NEW st \in ActionStates, Write(sync, [job EXCEPT !.state = to], st, "report"),
         UNCHANGED <<jobs, act, cr, paced, hist, approvals, faults, outside>>
  PROVE  IInv'
<1>1. TypeOK /\ sync.pc \in JobSteps /\ sync.pc \notin {"search", "save"} BY DEF IInv, JobSteps
<1>2. job \in Job /\ faults \in Nat /\ sync.pc # "intake" BY <1>1, AtWork
<1> DEFINE new == [job EXCEPT !.state = to]
<1>3. new \in Job BY <1>2, EditTyped
<1>4. /\ new.state = to /\ new.att = job.att /\ new.rel = job.rel
      /\ new.peer = job.peer /\ new.bad = job.bad
  BY <1>2 DEF Job
<1>5. Write(sync, new, st, "report") OBVIOUS
<1> HIDE DEF new
<1>6. Failures(job) \subseteq Failures(new) BY <1>4 DEF Failures
<1>7. sync' \in Syncs /\ sync'.pc = "save" /\ sync'.id = sync.id /\ Fits(sync)'
  BY <1>1, <1>2, <1>3, <1>4, <1>5, <1>6, ReportStep
<1> QED BY <1>1, <1>2, <1>7, SyncOnly

\* The job fails.
LEMMA FailsStep ==
  ASSUME IInv, sync.pc \in JobSteps, Fail(sync), UNCHANGED faults \/ Fault,
         UNCHANGED <<jobs, act, cr, paced, hist, approvals, outside>>
  PROVE  IInv'
<1>1. TypeOK /\ faults \in Nat /\ sync.pc # "intake" BY AtWork DEF IInv
<1>2. faults' \in Nat /\ faults <= faults' BY <1>1, FaultTyped
<1>3. sync' \in Syncs /\ sync'.pc = "save" /\ sync'.id = sync.id /\ Fits(sync)'
  BY <1>2, FailStep
<1> QED BY <1>1, <1>3, SyncOnly

\* A download failed, is under way, or is all there.
LEMMA TransferredStep == ASSUME IInv, Transferred PROVE IInv'
<1>1. /\ sync.pc = "transfers" /\ sync.pc \in JobSteps
      /\ UNCHANGED <<jobs, act, cr, paced, hist, approvals, faults, outside>>
  BY DEF Transferred, JobSteps
<1>2. CASE Fail(sync) BY <1>1, <1>2, FailsStep
<1>3. ASSUME NEW to \in {"downloading", "queued"}, Write(sync, [job EXCEPT !.state = to], to, "report")
      PROVE  IInv'
  <2>1. to \in States \ Searched /\ to \in ActionStates
    BY DEF States, Conflicting, Active, Searched, ActionStates, Following
  <2> QED BY <1>1, <1>3, <2>1, StateStep
<1>4. CASE Write(sync, [job EXCEPT !.state = "completed"], "added", "report")
  <2>1. "completed" \in States \ Searched /\ "added" \in ActionStates
    BY DEF States, Searched, ActionStates
  <2> QED BY <1>1, <1>4, <2>1, StateStep
<1>5. CASE Goto("import") BY <1>1, <1>5, GotoStep
<1> QED BY <1>2, <1>3, <1>4, <1>5 DEF Transferred

\* The import is put together.
LEMMA BuildStep == ASSUME IInv, Build PROVE IInv'
<1>1. /\ sync.pc = "import" /\ sync.pc \in JobSteps
      /\ UNCHANGED <<jobs, act, cr, paced, hist, approvals, faults, outside>>
  BY DEF Build, JobSteps
<1>2. CASE Fail(sync) BY <1>1, <1>2, FailsStep
<1>3. CASE Write(sync, [job EXCEPT !.state = "cancelled"], "skipped", "report")
  <2>1. "cancelled" \in States \ Searched /\ "skipped" \in ActionStates
    BY DEF States, Searched, ActionStates
  <2> QED BY <1>1, <1>3, <2>1, StateStep
<1>4. CASE Goto("submit") BY <1>1, <1>4, GotoStep
<1> QED BY <1>2, <1>3, <1>4 DEF Build

\* The import is handed to Lidarr.
LEMMA SubmitStep == ASSUME IInv, Submit PROVE IInv'
<1>1. /\ TypeOK /\ sync.pc \in JobSteps /\ sync.pc = "submit"
      /\ UNCHANGED <<jobs, act, cr, paced, hist, approvals, config, batch, have>>
  BY DEF IInv, Submit, JobSteps
<1>2. /\ sync.id \in Rows /\ job \in Job /\ faults \in Nat /\ sync.pc # "intake" /\ sync.id \in Ids
  BY <1>1, AtWork
<1>3. /\ cmd' \in [Ids -> {"none", "running", "completed", "failed"}]
      /\ \A j \in Ids \ Rows : batch'[j] = batch[j] /\ cmd'[j] = cmd[j]
  BY <1>1, <1>2 DEF Submit, TypeOK
<1>4. faults' \in 0..MaxFaults /\ faults' \in Nat /\ faults <= faults'
  <2>1. CASE faults' = faults BY <1>1, <1>2, <2>1 DEF TypeOK
  <2>2. CASE Fault BY <1>1, <1>2, <2>2, FaultTyped
  <2> QED BY <2>1, <2>2 DEF Submit
<1>5. sync' \in Syncs /\ Fits(sync)'
  <2>1. CASE Fail(sync) BY <1>1, <1>4, <2>1, FailStep
  <2>2. CASE Write(sync, [job EXCEPT !.state = "import_pending", !.checks = 0],
                   "import_pending", "report")
    <3> DEFINE new == [job EXCEPT !.state = "import_pending", !.checks = 0]
    <3>1. new \in Job
      <4>1. "import_pending" \in States /\ 0 \in 0..MaxChecks
        BY SlskdAssumption DEF States, Conflicting, Active
      <4> QED BY <1>2, <4>1, EditTyped
    <3>2. /\ new.state = "import_pending" /\ new.att = job.att /\ new.rel = job.rel
          /\ new.peer = job.peer /\ new.bad = job.bad
      BY <1>2 DEF Job
    <3>3. Write(sync, new, "import_pending", "report") BY <2>2
    <3> HIDE DEF new
    <3>4. "import_pending" \in ActionStates BY DEF ActionStates, Following
    <3>5. Failures(job) \subseteq Failures(new) /\ new.state \notin Searched
      BY <3>2 DEF Failures, Searched
    <3> QED BY <1>1, <1>4, <3>1, <3>2, <3>3, <3>4, <3>5, ReportStep
  <2> QED BY <2>1, <2>2 DEF Submit
<1>6. TypeOK' BY <1>1, <1>3, <1>4, <1>5 DEF TypeOK
<1> QED BY <1>1, <1>2, <1>3, <1>4, <1>5, <1>6, SyncMoves

\* The import is looked up.
LEMMA CheckStep == ASSUME IInv, Check PROVE IInv'
<1>1. /\ TypeOK /\ sync.pc = "check" /\ sync.pc \in JobSteps
      /\ UNCHANGED <<jobs, act, cr, paced, hist, approvals, outside>>
  BY DEF IInv, Check, JobSteps
<1>2. job \in Job /\ job.checks \in 0..MaxChecks /\ MaxChecks \in Nat /\ sync.pc # "intake"
  BY <1>1, AtWork, FieldsTyped, SlskdAssumption
<1>3. CASE Fail(sync) /\ (UNCHANGED faults \/ Fault) BY <1>1, <1>3, FailsStep
<1>4. CASE Write(sync, [job EXCEPT !.state = "completed"], "added", "report") /\ UNCHANGED faults
  <2>1. "completed" \in States \ Searched /\ "added" \in ActionStates
    BY DEF States, Searched, ActionStates
  <2> QED BY <1>1, <1>4, <2>1, StateStep
<1>5. CASE /\ UNCHANGED faults /\ ~(job.checks + 1 >= MaxChecks)
           /\ Write(sync, [job EXCEPT !.checks = job.checks + 1], "import_pending", "report")
  <2> DEFINE new == [job EXCEPT !.checks = job.checks + 1]
  <2>1. new \in Job
    <3>1. job.checks + 1 \in 0..MaxChecks BY <1>2, <1>5
    <3> QED BY <1>2, <3>1, EditTyped
  <2>2. /\ new.state = job.state /\ new.att = job.att /\ new.rel = job.rel
        /\ new.peer = job.peer /\ new.bad = job.bad
    BY <1>2 DEF Job
  <2>3. Write(sync, new, "import_pending", "report") BY <1>5
  <2> HIDE DEF new
  <2>4. "import_pending" \in ActionStates BY DEF ActionStates, Following
  <2>5. job.state = "import_pending" BY <1>1, AtWork DEF Stands
  <2>6. Failures(job) \subseteq Failures(new) /\ new.state \notin Searched
    BY <2>2, <2>5 DEF Failures, Searched
  <2>7. faults' \in Nat /\ faults <= faults' BY <1>1, <1>5, FaultTyped
  <2>8. sync' \in Syncs /\ sync'.pc = "save" /\ sync'.id = sync.id /\ Fits(sync)'
    BY <1>1, <2>1, <2>2, <2>3, <2>4, <2>6, <2>7, ReportStep
  <2> QED BY <1>1, <1>2, <1>5, <2>8, SyncOnly
<1> QED BY <1>3, <1>4, <1>5 DEF Check

\* What the jobs of a recommendation add up to is a state of an action.
LEMMA ReportedTyped == ASSUME NEW r, NEW st \in ActionStates PROVE Reported(r, st) \in ActionStates
BY DEF Reported, ActionStates, Following

\* The jobs of the recommendation are added up.
LEMMA ReportingStep == ASSUME IInv, Report PROVE IInv'
<1>1. /\ TypeOK /\ sync.pc = "report" /\ sync.pc \in JobSteps
      /\ UNCHANGED <<jobs, act, cr, paced, hist, approvals, faults, outside>>
  BY DEF IInv, Report, JobSteps
<1>2. /\ sync \in Syncs /\ sync.id \in Rows \ sync.left /\ sync.left \subseteq ActiveRows
      /\ sync.st \in ActionStates
  BY <1>1, AtWork DEF Syncs
<1>3. CASE Leave BY <1>1, <1>3, LeaveStep, SyncOnly
<1>4. CASE sync' = [sync EXCEPT !.pc = "write", !.read = Reported(sync.row.rec, sync.st)]
  <2>1. Reported(sync.row.rec, sync.st) \in ActionStates BY <1>2, ReportedTyped
  <2>2. sync' \in Syncs /\ sync'.pc = "write" /\ sync'.id = sync.id /\ sync'.left = sync.left
    BY <1>2, <1>4, <2>1 DEF Syncs
  <2>3. Fits(sync)'
    BY <1>1, <1>2, <2>2 DEF Fits, Listed, Stands, Saves, ActiveRows, Rows
  <2> QED BY <1>1, <2>2, <2>3, SyncOnly
<1> QED BY <1>3, <1>4 DEF Report

\* The action of the recommendation is written.
LEMMA WriteActionStep == ASSUME IInv, WriteAction PROVE IInv'
<1>1. /\ TypeOK /\ sync.pc = "write" /\ sync.pc \in JobSteps
      /\ UNCHANGED <<jobs, cr, paced, hist, approvals, faults, outside>>
  BY DEF IInv, WriteAction, JobSteps
<1>2. sync \in Syncs /\ sync.read \in ActionStates /\ faults \in Nat
  BY <1>1, AtWork DEF Syncs
<1>3. sync' \in Syncs /\ sync'.pc = "next" /\ Fits(sync)' BY <1>1, LeaveStep DEF WriteAction
<1>4. act' \in [Recs -> ActionStates] BY <1>1, <1>2 DEF WriteAction, TypeOK
<1>5. TypeOK' BY <1>1, <1>3, <1>4 DEF TypeOK, outside
<1> QED BY <1>1, <1>2, <1>3, <1>5, SyncMoves DEF outside

\* A write fails.
LEMMA WriteFailsStep == ASSUME IInv, WriteFails PROVE IInv'
<1>1. /\ sync.pc \in {"save", "write"} /\ sync.pc \in JobSteps /\ Fault
      /\ UNCHANGED <<jobs, act, cr, paced, hist, approvals, outside>>
  BY DEF WriteFails, JobSteps
<1>2. CASE Leave
  <2>1. sync' \in Syncs /\ sync'.pc = "next" /\ Fits(sync)' BY <1>1, <1>2, LeaveStep
  <2> QED BY <1>1, <2>1, SyncOnly
<1>3. CASE Fail(sync) BY <1>1, <1>3, FailsStep
<1> QED BY <1>2, <1>3 DEF WriteFails

\* The write of a job.
LEMMA SaveStep == ASSUME IInv, Save PROVE IInv'
<1>1. /\ TypeOK /\ sync.pc = "save" /\ sync.pc \in JobSteps
      /\ UNCHANGED <<act, cr, paced, approvals, faults, outside>>
  BY DEF IInv, Save, JobSteps
<1>2. /\ sync \in Syncs /\ sync.id \in Rows \ sync.left /\ sync.left \subseteq ActiveRows
      /\ sync.id \in Ids /\ job \in Job /\ job = jobs[sync.id] /\ faults \in Nat /\ MaxRetries \in Nat
      /\ Paid(sync.id) /\ Remembered(sync.id) /\ sync.pc # "intake"
      /\ sync.row \in Job /\ sync.then \in {"next", "search", "look", "report"}
      /\ Writes(sync.id, hist[sync.id], sync.row, sync.then)
  BY <1>1, AtWork DEF Syncs, Saves
<1>3. cr[NoRec].pc = "idle" BY <1>2 DEF IInv, Taking
<1>4. CASE Leave /\ UNCHANGED <<jobs, hist>> /\ job.state \notin Conflicting
  <2>1. sync' \in Syncs /\ sync'.pc = "next" /\ Fits(sync)' BY <1>4, LeaveStep
  <2>2. Rowwise'
    <3> SUFFICES ASSUME NEW j \in Rows PROVE Paid(j)' /\ Afford(j)' /\ Remembered(j)'
      BY <1>4 DEF Rowwise, Rows
    <3>1. Paid(j) /\ Afford(j) /\ Remembered(j) BY DEF Rowwise, IInv
    <3>2. Paid(j)' /\ Remembered(j)' BY <1>1, <1>4, <3>1 DEF Paid, Remembered, Failures
    <3>3. Afford(j)'
      BY <1>1, <1>2, <1>4, <3>1 DEF Afford, Conflicting, Active, Searched
    <3> QED BY <3>2, <3>3
  <2>3. TypeOK' BY <1>1, <1>4, <2>1 DEF TypeOK, outside
  <2> QED BY <1>1, <1>3, <1>4, <2>1, <2>2, <2>3
       DEF IInv, Pointing, NoPast, Taking, Unique, Rows, Retrying, outside
<1> DEFINE new == [sync.row EXCEPT !.age = 0]
<1>5. CASE /\ ~(/\ sync.row.state \in Conflicting /\ job.state \notin Conflicting
                /\ Found(rel, Conflicting) # {})
           /\ jobs' = [jobs EXCEPT ![sync.id] = new]
           /\ IF sync.then = "next" THEN Leave ELSE Goto(sync.then)
           /\ hist' = IF sync.row.state = "failed" /\ sync.row.peer # NoPeer
                      THEN [hist EXCEPT ![sync.id].tried = hist[sync.id].tried \cup {sync.row.peer}]
                      ELSE hist
  <2>1. /\ new \in Job /\ new.rel = sync.row.rel /\ new.rec = sync.row.rec
        /\ new.state = sync.row.state /\ new.att = sync.row.att /\ new.found = sync.row.found
        /\ new.peer = sync.row.peer /\ new.bad = sync.row.bad
    BY <1>2 DEF Job
  <2>2. jobs' = [jobs EXCEPT ![sync.id] = new] BY <1>5
  <2> HIDE DEF new
  <2>3. /\ jobs' \in Seq(Job) /\ Len(jobs') = Len(jobs) /\ Len(jobs') <= MaxJobs
        /\ \A j \in Rows : jobs'[j] = (IF j = sync.id THEN new ELSE jobs[j])
    BY <1>1, <1>2, <2>1, <2>2, ExceptTyped
  <2>4. Rows' = Rows BY <2>3 DEF Rows
  <2>5. jobs'[sync.id] = new /\ \A j \in Rows \ {sync.id} : jobs'[j] = jobs[j]
    BY <1>2, <2>3
  <2>6. /\ hist' \in [Ids -> [searches: Nat, tried: SUBSET Peers, retries: Nat]]
        /\ hist'[sync.id].searches = hist[sync.id].searches
        /\ hist'[sync.id].tried \subseteq Failures(new)
        /\ \A j \in Ids \ {sync.id} : hist'[j] = hist[j]
    <3>1. /\ hist \in [Ids -> [searches: Nat, tried: SUBSET Peers, retries: Nat]]
          /\ sync.row.peer \in Peers \cup {NoPeer}
          /\ hist[sync.id] \in [searches: Nat, tried: SUBSET Peers, retries: Nat]
      BY <1>1, <1>2, FieldsTyped DEF TypeOK
    <3>2. hist[sync.id].tried \subseteq Failures(new)
      BY <1>2, <2>1 DEF Writes, Failures
    <3>3. CASE sync.row.state = "failed" /\ sync.row.peer # NoPeer
      <4>1. hist' = [hist EXCEPT ![sync.id].tried = hist[sync.id].tried \cup {sync.row.peer}]
        BY <1>5, <3>3
      <4>2. hist[sync.id].tried \cup {sync.row.peer} \in SUBSET Peers BY <3>1, <3>3
      <4>3. /\ hist' \in [Ids -> [searches: Nat, tried: SUBSET Peers, retries: Nat]]
            /\ hist'[sync.id].searches = hist[sync.id].searches
            /\ hist'[sync.id].tried = hist[sync.id].tried \cup {sync.row.peer}
            /\ \A j \in Ids \ {sync.id} : hist'[j] = hist[j]
        BY <1>2, <3>1, <4>1, <4>2
      <4>4. sync.row.peer \in Failures(new) BY <2>1, <3>3 DEF Failures
      <4> QED BY <3>2, <4>3, <4>4
    <3>4. CASE hist' = hist BY <3>1, <3>2, <3>4
    <3> QED BY <1>5, <3>3, <3>4
  <2>7. sync.left \subseteq ActiveRows'
    BY <1>2, <2>4, <2>5 DEF ActiveRows
  <2>8. sync' \in Syncs /\ Fits(sync)' /\ sync'.pc # "intake"
        /\ (sync.then = "search" => sync'.pc = "search" /\ sync'.id = sync.id)
    <3>1. CASE sync.then = "next"
      <4>1. sync' \in Syncs /\ sync'.pc = "next" /\ sync'.left = sync.left
        BY <1>1, <1>5, <3>1, LeaveTyped
      <4> QED BY <2>7, <3>1, <4>1 DEF Fits, Listed, Stands, Saves, JobSteps
    <3>2. CASE sync.then # "next"
      <4>1. Goto(sync.then) BY <1>5, <3>2
      <4>2. /\ sync' \in Syncs /\ sync'.pc = sync.then /\ sync'.id = sync.id
            /\ sync'.left = sync.left
        BY <1>2, <3>2, <4>1 DEF Goto, Syncs
      <4>3. Listed(sync)' BY <1>2, <2>4, <2>7, <4>2 DEF Listed
      <4>4. Stands(sync)'
        <5>1. CASE sync.then = "search"
          <6>1. /\ new.state = "searching" /\ ~new.found
                /\ hist[sync.id].searches + 1 <= new.att
            BY <1>2, <2>1, <5>1 DEF Writes
          <6> QED BY <2>5, <2>6, <4>2, <5>1, <6>1 DEF Stands
        <5>2. CASE sync.then = "look"
          <6>1. new.state \in Searched /\ new.found BY <1>2, <2>1, <5>2 DEF Writes
          <6> QED BY <2>5, <4>2, <5>2, <6>1 DEF Stands
        <5>3. CASE sync.then = "report" BY <4>2, <5>3 DEF Stands
        <5> QED BY <1>2, <3>2, <5>1, <5>2, <5>3
      <4>5. Saves(sync)' BY <1>2, <3>2, <4>2 DEF Saves
      <4>6. sync'.pc # "intake" BY <1>2, <3>2, <4>2
      <4> QED BY <4>2, <4>3, <4>4, <4>5, <4>6 DEF Fits
    <3> QED BY <3>1, <3>2
  <2>9. TypeOK' BY <1>1, <2>3, <2>6, <2>8 DEF TypeOK, outside
  <2>10. Rowwise'
    <3> SUFFICES ASSUME NEW j \in Rows PROVE Paid(j)' /\ Afford(j)' /\ Remembered(j)'
      BY <2>4 DEF Rowwise
    <3>1. Paid(j) /\ Afford(j) /\ Remembered(j) /\ j \in Ids
      BY <1>1, RowsTyped DEF Rowwise, IInv
    <3>2. CASE j = sync.id
      <4>1. Paid(j)' BY <1>1, <1>2, <2>1, <2>5, <2>6, <3>2 DEF Paid, Writes
      <4>2. Remembered(j)'
        BY <1>2, <2>1, <2>5, <2>6, <3>2 DEF Remembered, Writes, Failures
      <4>3. Afford(j)'
        BY <1>1, <1>2, <2>1, <2>5, <2>8, <3>2 DEF Afford, Writes
      <4> QED BY <4>1, <4>2, <4>3
    <3>3. CASE j # sync.id
      <4>1. Paid(j)' /\ Remembered(j)'
        BY <1>1, <2>5, <2>6, <3>1, <3>3 DEF Paid, Remembered, Failures
      <4>2. Afford(j)' BY <1>1, <2>5, <3>1, <3>3 DEF Afford
      <4> QED BY <4>1, <4>2
    <3> QED BY <3>2, <3>3
  <2>11. Unique'
    <3>1. new.rel = job.rel BY <1>2, <2>1 DEF Writes
    <3>2. ASSUME NEW i \in Rows \ {sync.id}, new.state \in Conflicting,
                 jobs[i].state \in Conflicting, jobs[i].rel = new.rel
          PROVE  FALSE
      <4>1. CASE job.state \in Conflicting
        BY <1>2, <3>1, <3>2, <4>1 DEF IInv, Unique
      <4>2. CASE job.state \notin Conflicting
        <5>1. i \in Found(rel, Conflicting) BY <3>1, <3>2 DEF Found, rel
        <5> QED BY <1>5, <2>1, <3>2, <4>2, <5>1
      <4> QED BY <4>1, <4>2
    <3>3. \A i, j \in Rows \ {sync.id} :
            (/\ jobs[i].rel = jobs[j].rel
             /\ jobs[i].state \in Conflicting /\ jobs[j].state \in Conflicting) => i = j
      BY DEF IInv, Unique
    <3> QED BY <1>2, <2>4, <2>5, <3>2, <3>3 DEF Unique
  <2>12. \A c \in Callers : Pointing(c)'
    <3>1. new.rel = job.rel BY <1>2, <2>1 DEF Writes
    <3> QED BY <1>1, <1>2, <2>4, <2>5, <3>1 DEF IInv, Pointing
  <2>13. NoPast' BY <1>1, <1>2, <2>4, <2>6 DEF IInv, NoPast, outside
  <2>14. Taking' /\ Retrying' BY <1>1, <1>3 DEF Taking, Retrying
  <2> QED BY <2>8, <2>9, <2>10, <2>11, <2>12, <2>13, <2>14 DEF IInv
<1> QED BY <1>4, <1>5 DEF Save

-----------------------------------------------------------------------------
(* Steps of the callers. *)

\* A sync that waits still fits when active rows are left alone.
LEMMA FitsKept ==
  ASSUME TypeOK, Fits(sync), sync' = sync, Rows \subseteq Rows',
         faults' \in Nat, faults <= faults',
         \A j \in Rows : /\ jobs'[j].rel = jobs[j].rel
                         /\ hist'[j].searches \in Nat /\ hist'[j].searches <= hist[j].searches
                         /\ hist'[j].tried \subseteq hist[j].tried,
         \A j \in Rows : jobs[j].state \in Active =>
           /\ jobs'[j].state = jobs[j].state /\ jobs'[j].found = jobs[j].found
           /\ jobs'[j].att = jobs[j].att /\ jobs'[j].bad = jobs[j].bad
  PROVE  Fits(sync)'
<1>1. Listed(sync)' BY DEF Fits, Listed, ActiveRows
<1>2. sync \in Syncs /\ Rows \subseteq Ids /\ faults \in Nat /\ MaxRetries \in Nat
  BY RowsTyped, FaultTyped, SlskdAssumption DEF TypeOK
<1>3. Stands(sync)'
  <2> SUFFICES ASSUME sync.pc \in {"search", "look", "enqueue", "transfers", "import", "submit",
                                   "check"}
               PROVE  Stands(sync)'
    BY DEF Stands
  <2>1. sync.id \in Rows /\ jobs[sync.id].state \in Active /\ Stands(sync)
    BY DEF Fits, Listed, Stands, JobSteps, Searched, Active
  <2>2. /\ jobs'[sync.id].state = jobs[sync.id].state /\ jobs'[sync.id].found = jobs[sync.id].found
        /\ jobs'[sync.id].att = jobs[sync.id].att /\ jobs'[sync.id].bad = jobs[sync.id].bad
    BY <2>1
  <2>3. /\ hist'[sync.id].searches \in Nat /\ hist[sync.id].searches \in Nat
        /\ hist'[sync.id].searches <= hist[sync.id].searches /\ jobs[sync.id].att \in Nat
    BY <1>2, <2>1, PastTyped, RowsTyped, FieldsTyped
  <2> QED BY <2>1, <2>2, <2>3 DEF Stands
<1>4. Saves(sync)'
  <2> SUFFICES ASSUME sync.pc = "save"
               PROVE  Writes(sync.id, hist[sync.id], sync.row, sync.then)'
    BY DEF Saves
  <2>1. sync.id \in Rows /\ Writes(sync.id, hist[sync.id], sync.row, sync.then)
    BY DEF Fits, Listed, Saves, JobSteps
  <2>2. /\ hist'[sync.id].searches \in Nat /\ hist[sync.id].searches \in Nat
        /\ hist'[sync.id].searches <= hist[sync.id].searches
        /\ hist'[sync.id].tried \subseteq hist[sync.id].tried
        /\ sync.row.att \in Nat /\ jobs'[sync.id].rel = jobs[sync.id].rel
    BY <1>2, <2>1, PastTyped, FieldsTyped DEF Syncs
  <2>3. jobs[sync.id].state \in Active => jobs'[sync.id].state \in Active
    BY <2>1
  <2> QED BY <1>2, <2>1, <2>2, <2>3 DEF Writes, Failures
<1> QED BY <1>1, <1>3, <1>4 DEF Fits

\* A step of a caller that leaves the rows alone.
LEMMA CallerMoves ==
  ASSUME IInv, TypeOK', UNCHANGED <<jobs, hist, batch, cmd>>, faults <= faults',
         NEW c \in Callers, \A d \in Callers \ {c} : cr'[d] = cr[d],
         \/ sync' = sync
         \/ c = NoRec /\ sync' = Resting /\ cr'[c] = Idle,
         c = NoRec => cr[c].pc # "idle",
         Pointing(c)', c = NoRec => Retrying'
  PROVE  IInv'
<1>1. /\ TypeOK /\ Fits(sync) /\ Rowwise /\ Taking /\ faults' \in Nat /\ faults \in Nat
      /\ Rows \subseteq Ids
  BY FaultTyped, RowsTyped, SlskdAssumption DEF IInv, TypeOK
<1>2. Fits(sync)'
  <2>1. CASE sync' = sync
    <3>1. \A j \in Rows : hist'[j].searches \in Nat /\ hist'[j].searches <= hist[j].searches
      BY <1>1, PastTyped
    <3> QED BY <1>1, <2>1, <3>1, FitsKept DEF Rows
  <2>2. CASE sync' = Resting BY <2>2, RestFits
  <2> QED BY <2>1, <2>2
<1>3. c = NoRec => sync.pc = "intake" BY <1>1 DEF Taking
<1>4. Taking'
  <2>1. CASE c = NoRec /\ sync' = Resting /\ cr'[c] = Idle BY <2>1 DEF Taking, Idle
  <2>2. CASE sync' = sync /\ c = NoRec BY <1>3, <2>2 DEF Taking
  <2>3. CASE sync' = sync /\ c # NoRec BY <1>1, <2>3 DEF Taking, Callers
  <2> QED BY <2>1, <2>2, <2>3
<1>5. Rowwise' BY <1>1, <1>3, RowwiseKept
<1>6. \A d \in Callers : Pointing(d)' BY DEF IInv, Pointing, Rows
<1>7. Retrying' BY DEF IInv, Retrying, Callers
<1> QED BY <1>2, <1>4, <1>5, <1>6, <1>7 DEF IInv, NoPast, Unique, Rows

\* A caller has typed fields.
LEMMA CallerTyped ==
  ASSUME TypeOK, NEW c \in Callers
  PROVE  /\ cr[c] \in Creators /\ cr[c].left \subseteq Releases /\ cr[c].rel \in Releases
         /\ cr[c].lid \in BOOLEAN /\ cr[c].won \in BOOLEAN /\ cr[c].bad \subseteq Peers
         /\ cr[c].again \in BOOLEAN /\ cr[c].id \in 0..MaxJobs
<1>1. cr[c] \in Creators BY DEF TypeOK
<1> QED BY <1>1 DEF Creators

\* A release is settled.
LEMMA SettleTyped ==
  ASSUME TypeOK, NEW c \in Callers, NEW won \in BOOLEAN, Settle(c, won)
  PROVE  /\ cr' \in [Callers -> Creators] /\ cr'[c].pc = "pick"
         /\ \A d \in Callers \ {c} : cr'[d] = cr[d]
<1> DEFINE new == [Idle EXCEPT !.pc = "pick", !.left = cr[c].left \ {cr[c].rel},
                               !.lid = cr[c].lid, !.won = cr[c].won \/ won]
<1>1. new \in Creators /\ new.pc = "pick"
  <2>1. cr[c].won \/ won \in BOOLEAN OBVIOUS
  <2>2. Idle \in Creators /\ cr[c].left \ {cr[c].rel} \subseteq Releases /\ cr[c].lid \in BOOLEAN
    BY RestTyped, CallerTyped
  <2> QED BY <2>1, <2>2 DEF Creators
<1>2. cr' = [cr EXCEPT ![c] = new] /\ cr \in [Callers -> Creators] BY DEF Settle, TypeOK
<1> HIDE DEF new
<1> QED BY <1>1, <1>2

\* A caller gives up, and the sync with it if it is the intake.
LEMMA ThrowTyped ==
  ASSUME TypeOK, NEW c \in Callers, Throw(c)
  PROVE  /\ cr' \in [Callers -> Creators] /\ cr'[c] = Idle /\ cr'[c].pc = "idle"
         /\ \A d \in Callers \ {c} : cr'[d] = cr[d]
         /\ sync' \in Syncs /\ act' \in [Recs -> ActionStates]
         /\ \/ sync' = sync
            \/ c = NoRec /\ sync' = Resting
<1>1. Idle \in Creators /\ Idle.pc = "idle" /\ Resting \in Syncs BY RestTyped DEF Idle
<1>2. cr' = [cr EXCEPT ![c] = Idle] /\ cr \in [Callers -> Creators] BY DEF Throw, TypeOK
<1>3. "failed" \in ActionStates BY DEF ActionStates
<1> QED BY <1>1, <1>2, <1>3 DEF Throw, TypeOK

\* A caller looks for an active job of the release.
LEMMA PickStep == ASSUME IInv, NEW c \in Callers, NEW k, Pick(c, k) PROVE IInv'
<1>1. /\ TypeOK /\ k \in Releases /\ cr[c] \in Creators /\ cr[c].won \in BOOLEAN
      /\ cr[c].left \subseteq Releases
      /\ UNCHANGED <<jobs, act, sync, paced, hist, approvals, faults, outside>>
  BY CallerTyped DEF IInv, Pick
<1>2. cr \in [Callers -> Creators] BY <1>1 DEF TypeOK
<1> DEFINE new == [cr[c] EXCEPT !.rel = k,
             !.pc = IF Found(k, Active) = {} THEN "insert" ELSE "pick",
             !.left = IF Found(k, Active) = {} THEN cr[c].left ELSE cr[c].left \ {k},
             !.won = cr[c].won \/ Found(k, Active) # {}]
<1>3. cr' = [cr EXCEPT ![c] = new] BY <1>2 DEF Pick
<1>4. new \in Creators /\ new.pc \in {"insert", "pick"}
  <2>1. CASE Found(k, Active) = {} BY <1>1, <2>1 DEF Creators
  <2>2. CASE Found(k, Active) # {} BY <1>1, <2>2 DEF Creators
  <2> QED BY <2>1, <2>2
<1> HIDE DEF new
<1>5. /\ cr' \in [Callers -> Creators] /\ cr'[c].pc \in {"insert", "pick"}
      /\ \A d \in Callers \ {c} : cr'[d] = cr[d]
  BY <1>2, <1>3, <1>4
<1>6. TypeOK' BY <1>1, <1>5 DEF TypeOK, outside
<1>7. Pointing(c)' /\ (c = NoRec => Retrying') /\ cr[c].pc # "idle"
  BY <1>5 DEF Pointing, Retrying, Pick
<1>8. faults <= faults' BY <1>1, FaultTyped
<1> QED BY <1>1, <1>5, <1>6, <1>7, <1>8, CallerMoves DEF outside

\* A caller finds the row that holds the work key.
LEMMA FindStep == ASSUME IInv, NEW c \in Callers, Find(c) PROVE IInv'
<1>1. /\ TypeOK /\ cr[c].pc = "find" /\ cr[c] \in Creators /\ cr \in [Callers -> Creators]
      /\ UNCHANGED <<jobs, paced, hist, approvals, faults, outside>> /\ faults <= faults'
  <2>1. TypeOK BY DEF IInv
  <2>2. cr[c] \in Creators /\ cr \in [Callers -> Creators] BY <2>1 DEF TypeOK
  <2>3. cr[c].pc = "find" /\ UNCHANGED <<jobs, paced, hist, approvals, faults, outside>>
    BY DEF Find
  <2> QED BY <2>1, <2>2, <2>3, FaultTyped
<1>2. CASE Throw(c)
  <2>1. /\ cr' \in [Callers -> Creators] /\ cr'[c] = Idle /\ cr'[c].pc = "idle"
        /\ \A d \in Callers \ {c} : cr'[d] = cr[d]
        /\ sync' \in Syncs /\ act' \in [Recs -> ActionStates]
        /\ \/ sync' = sync
           \/ c = NoRec /\ sync' = Resting
    BY <1>1, <1>2, ThrowTyped
  <2>2. TypeOK' BY <1>1, <2>1 DEF TypeOK, outside
  <2>3. Pointing(c)' /\ (c = NoRec => Retrying') BY <2>1 DEF Pointing, Retrying
  <2> QED BY <1>1, <2>1, <2>2, <2>3, CallerMoves DEF outside
<1>3. CASE cr' = [cr EXCEPT ![c].pc = "insert", ![c].again = TRUE] /\ UNCHANGED <<act, sync>>
  <2>1. /\ cr' \in [Callers -> Creators] /\ cr'[c].pc = "insert"
        /\ \A d \in Callers \ {c} : cr'[d] = cr[d]
    BY <1>1, <1>3 DEF Creators
  <2>2. TypeOK' BY <1>1, <1>3, <2>1 DEF TypeOK, outside
  <2>3. Pointing(c)' /\ (c = NoRec => Retrying') BY <2>1 DEF Pointing, Retrying
  <2> QED BY <1>1, <1>3, <2>1, <2>2, <2>3, CallerMoves DEF outside
<1>4. CASE \E won \in BOOLEAN : Settle(c, won) /\ UNCHANGED <<act, sync>>
  <2>1. /\ cr' \in [Callers -> Creators] /\ cr'[c].pc = "pick"
        /\ \A d \in Callers \ {c} : cr'[d] = cr[d]
    BY <1>1, <1>4, SettleTyped
  <2>2. TypeOK' BY <1>1, <1>4, <2>1 DEF TypeOK, outside
  <2>3. Pointing(c)' /\ (c = NoRec => Retrying') BY <2>1 DEF Pointing, Retrying
  <2> QED BY <1>1, <1>4, <2>1, <2>2, <2>3, CallerMoves DEF outside
<1>5. ASSUME NEW j \in Found(cr[c].rel, Conflicting), MayRetry(c, j),
             cr' = [cr EXCEPT ![c].pc = "retry", ![c].id = j,
                            ![c].bad = IF c = NoRec THEN FailedPeers(j) ELSE {}],
             UNCHANGED <<act, sync>>
      PROVE  IInv'
  <2>1. j \in Rows /\ jobs[j].rel = cr[c].rel /\ j \in 0..MaxJobs /\ jobs[j] \in Job
    BY <1>1, <1>5, RowsTyped, SlskdAssumption DEF Found, Ids
  <2>2. FailedPeers(j) \subseteq Peers /\ FailedPeers(j) = Failures(jobs[j])
    BY <2>1, FieldsTyped DEF FailedPeers, Failures
  <2> DEFINE b == IF c = NoRec THEN FailedPeers(j) ELSE {}
  <2>3. b \subseteq Peers BY <2>2
  <2>4. /\ cr' \in [Callers -> Creators] /\ cr'[c].pc = "retry" /\ cr'[c].id = j
        /\ cr'[c].rel = cr[c].rel /\ cr'[c].bad = b
        /\ \A d \in Callers \ {c} : cr'[d] = cr[d]
    <3> HIDE DEF b
    <3>1. cr' = [cr EXCEPT ![c].pc = "retry", ![c].id = j, ![c].bad = b] BY <1>5 DEF b
    <3> QED BY <1>1, <2>1, <2>3, <3>1 DEF Creators
  <2>5. TypeOK' BY <1>1, <1>5, <2>4 DEF TypeOK, outside
  <2>6. Pointing(c)' BY <1>1, <2>1, <2>4 DEF Pointing, Rows
  <2>7. ASSUME c = NoRec PROVE Retrying'
    <3>1. jobs[j].att <= MaxRetries BY <1>5, <2>7 DEF MayRetry
    <3>2. hist[j].tried \subseteq b BY <2>1, <2>2, <2>7 DEF IInv, Rowwise, Remembered
    <3> QED BY <1>1, <2>4, <2>7, <3>1, <3>2 DEF Retrying
  <2> QED BY <1>1, <1>5, <2>4, <2>5, <2>6, <2>7, CallerMoves DEF outside
<1> QED BY <1>2, <1>3, <1>4, <1>5 DEF Find

\* A query of a caller fails.
LEMMA QueryFailsStep == ASSUME IInv, NEW c \in Callers, QueryFails(c) PROVE IInv'
<1>1. /\ TypeOK /\ cr[c].pc # "idle" /\ UNCHANGED <<jobs, paced, hist, approvals, outside>>
      /\ faults' \in 0..MaxFaults /\ faults <= faults'
  BY FaultTyped DEF IInv, QueryFails
<1>2. /\ cr' \in [Callers -> Creators] /\ cr'[c] = Idle /\ cr'[c].pc = "idle"
      /\ \A d \in Callers \ {c} : cr'[d] = cr[d]
      /\ sync' \in Syncs /\ act' \in [Recs -> ActionStates]
      /\ \/ sync' = sync
         \/ c = NoRec /\ sync' = Resting
  BY <1>1, ThrowTyped DEF QueryFails
<1>3. TypeOK' BY <1>1, <1>2 DEF TypeOK, outside
<1>4. Pointing(c)' /\ (c = NoRec => Retrying') BY <1>2 DEF Pointing, Retrying
<1> QED BY <1>1, <1>2, <1>3, <1>4, CallerMoves DEF outside

\* An approval begins.
LEMMA ApprovalStep ==
  ASSUME IInv, NEW r \in Recs, NEW rels \in {Covers[r], {}}, NEW lid \in BOOLEAN,
         Approve(r, rels, lid)
  PROVE  IInv'
<1>1. /\ TypeOK /\ r \in Callers /\ r # NoRec /\ rels \subseteq Releases
      /\ UNCHANGED <<jobs, act, sync, paced, hist, faults, outside>> /\ faults <= faults'
  BY SlskdAssumption, FaultTyped DEF IInv, Approve, Callers
<1> DEFINE new == [Idle EXCEPT !.pc = "pick", !.left = rels, !.lid = lid]
<1>2. new \in Creators /\ new.pc = "pick" BY <1>1, RestTyped DEF Creators
<1>3. cr' = [cr EXCEPT ![r] = new] /\ cr \in [Callers -> Creators] BY <1>1 DEF Approve, TypeOK
<1> HIDE DEF new
<1>4. /\ cr' \in [Callers -> Creators] /\ cr'[r].pc = "pick"
      /\ \A d \in Callers \ {r} : cr'[d] = cr[d]
  BY <1>1, <1>2, <1>3
<1>5. approvals' \in 0..MaxApprovals BY <1>1, SlskdAssumption DEF Approve, TypeOK
<1>6. TypeOK' BY <1>1, <1>4, <1>5 DEF TypeOK, outside
<1>7. Pointing(r)' BY <1>4 DEF Pointing
<1> QED BY <1>1, <1>4, <1>6, <1>7, CallerMoves DEF outside

\* An approval ends.
LEMMA ApprovedStep == ASSUME IInv, NEW r \in Recs, Approved(r) PROVE IInv'
<1>1. /\ TypeOK /\ r \in Callers /\ r # NoRec
      /\ UNCHANGED <<jobs, sync, paced, hist, approvals, faults, outside>> /\ faults <= faults'
  BY SlskdAssumption, FaultTyped DEF IInv, Approved, Callers
<1>2. /\ cr' \in [Callers -> Creators] /\ cr'[r].pc = "idle"
      /\ \A d \in Callers \ {r} : cr'[d] = cr[d]
  <2>1. Idle \in Creators /\ Idle.pc = "idle" BY RestTyped DEF Idle
  <2> QED BY <1>1, <2>1 DEF Approved, TypeOK
<1>3. act' \in [Recs -> ActionStates] BY <1>1 DEF Approved, TypeOK, ActionStates, Following
<1>4. TypeOK' BY <1>1, <1>2, <1>3 DEF TypeOK, outside
<1>5. Pointing(r)' BY <1>2 DEF Pointing
<1> QED BY <1>1, <1>2, <1>4, <1>5, CallerMoves DEF outside

\* Lidarr does not say what it wants.
LEMMA IntakeFailsStep == ASSUME IInv, IntakeFails PROVE IInv'
<1>1. /\ TypeOK /\ NoRec \in Callers /\ cr[NoRec].pc # "idle"
      /\ UNCHANGED <<jobs, act, paced, hist, approvals, faults, outside>> /\ faults <= faults'
  BY FaultTyped DEF IInv, IntakeFails, Callers
<1>2. /\ cr' \in [Callers -> Creators] /\ cr'[NoRec] = Idle /\ cr'[NoRec].pc = "idle"
      /\ \A d \in Callers \ {NoRec} : cr'[d] = cr[d]
  <2>1. Idle \in Creators /\ Idle.pc = "idle" BY RestTyped DEF Idle
  <2> QED BY <1>1, <2>1 DEF IntakeFails, TypeOK
<1>3. TypeOK' BY <1>1, <1>2, RestTyped DEF IntakeFails, TypeOK, outside
<1>4. Pointing(NoRec)' /\ Retrying' BY <1>2 DEF Pointing, Retrying
<1> QED BY <1>1, <1>2, <1>3, <1>4, CallerMoves DEF IntakeFails, outside

\* The intake ends.
LEMMA IntakeDoneStep == ASSUME IInv, IntakeDone PROVE IInv'
<1>1. /\ TypeOK /\ NoRec \in Callers /\ sync.pc = "intake" /\ faults \in Nat
      /\ sync \in Syncs /\ cr \in [Callers -> Creators]
      /\ UNCHANGED <<jobs, act, paced, hist, approvals, faults, outside>>
  BY FaultTyped DEF IInv, IntakeDone, Callers, TypeOK
<1>2. /\ cr' \in [Callers -> Creators] /\ cr'[NoRec].pc = "idle"
      /\ \A d \in Callers \ {NoRec} : cr'[d] = cr[d]
  <2>1. Idle \in Creators /\ Idle.pc = "idle" BY RestTyped DEF Idle
  <2> QED BY <1>1, <2>1 DEF IntakeDone
<1>3. sync' \in Syncs /\ sync'.pc = "list" /\ sync'.left = sync.left
  BY <1>1 DEF IntakeDone, Syncs
<1>4. Fits(sync)'
  BY <1>1, <1>3 DEF IInv, Fits, Listed, Stands, Saves, JobSteps, ActiveRows, Rows
<1>5. TypeOK' BY <1>1, <1>2, <1>3 DEF TypeOK, outside
<1>6. Rowwise' BY <1>1, RowwiseKept DEF IInv
<1>7. \A c \in Callers : Pointing(c)' BY <1>1, <1>2 DEF IInv, Pointing, Rows
<1>8. Taking' /\ Retrying' BY <1>2 DEF Taking, Retrying
<1> QED BY <1>1, <1>4, <1>5, <1>6, <1>7, <1>8 DEF IInv, NoPast, Unique, Rows, outside

\* A pass begins.
LEMMA TriggerStep == ASSUME IInv, Trigger PROVE IInv'
<1>1. /\ TypeOK /\ NoRec \in Callers /\ sync.pc = "idle" /\ faults \in Nat
      /\ cr \in [Callers -> Creators] /\ config \in {"ok", "nopath", "nolidarr", "unlinked"}
      /\ UNCHANGED <<jobs, act, paced, hist, approvals, faults, outside>>
  BY FaultTyped DEF IInv, Trigger, Callers, TypeOK
<1> DEFINE new == [Idle EXCEPT !.pc = "pick", !.lid = TRUE,
              !.left = IF config \in {"ok", "nopath"} THEN Wanted \ have ELSE {}]
<1>2. new \in Creators /\ new.pc = "pick"
  <2>1. (IF config \in {"ok", "nopath"} THEN Wanted \ have ELSE {}) \subseteq Releases
    BY SlskdAssumption
  <2> QED BY <2>1, RestTyped DEF Creators
<1>3. cr' = [cr EXCEPT ![NoRec] = new] BY DEF Trigger
<1> HIDE DEF new
<1>4. /\ cr' \in [Callers -> Creators] /\ cr'[NoRec].pc = "pick"
      /\ \A d \in Callers \ {NoRec} : cr'[d] = cr[d]
  BY <1>1, <1>2, <1>3
<1>5. sync' \in Syncs /\ sync'.pc = "intake" /\ sync'.left = {}
  <2>1. Resting \in Syncs /\ Resting.left = {} BY RestTyped DEF Resting
  <2> QED BY <1>1, <2>1 DEF Trigger, Syncs
<1>6. Fits(sync)' BY <1>5 DEF Fits, Listed, Stands, Saves, JobSteps
<1>7. TypeOK' BY <1>1, <1>4, <1>5 DEF TypeOK, outside
<1>8. Rowwise' BY <1>1, RowwiseKept DEF IInv
<1>9. \A c \in Callers : Pointing(c)' BY <1>1, <1>4 DEF IInv, Pointing, Rows
<1>10. Taking' /\ Retrying' BY <1>4, <1>5 DEF Taking, Retrying
<1> QED BY <1>1, <1>6, <1>7, <1>8, <1>9, <1>10 DEF IInv, NoPast, Unique, Rows, outside

\* A caller adds a row, or meets the unique index.
LEMMA InsertStep == ASSUME IInv, NEW c \in Callers, Insert(c) PROVE IInv'
<1>1. /\ TypeOK /\ cr[c].pc = "insert" /\ faults \in Nat /\ cr \in [Callers -> Creators]
      /\ cr[c] \in Creators
  BY FaultTyped DEF IInv, Insert, TypeOK
<1>2. UNCHANGED <<act, sync, paced, hist, approvals, faults, outside>> BY DEF Insert
<1>3. CASE Step(c, "find") /\ UNCHANGED jobs
  <2>1. /\ cr' \in [Callers -> Creators] /\ cr'[c].pc = "find"
        /\ \A d \in Callers \ {c} : cr'[d] = cr[d]
    BY <1>1, <1>3 DEF Step, Creators
  <2>2. TypeOK' BY <1>1, <1>2, <1>3, <2>1 DEF TypeOK, outside
  <2>3. Pointing(c)' /\ (c = NoRec => Retrying') BY <2>1 DEF Pointing, Retrying
  <2>4. UNCHANGED <<batch, cmd>> /\ faults <= faults' BY <1>1, <1>2 DEF outside
  <2> QED BY <1>1, <1>2, <1>3, <2>1, <2>2, <2>3, <2>4, CallerMoves
<1> DEFINE row == NewJob(cr[c].rel, c, cr[c].lid)
<1>4. CASE /\ Found(cr[c].rel, Conflicting) = {} /\ Len(jobs) < MaxJobs
           /\ jobs' = Append(jobs, row) /\ Settle(c, TRUE)
  <2> DEFINE n == Len(jobs) + 1
  <2>1. row \in Job BY <1>1, CallerTyped, NewTyped
  <2>2. /\ row.rel = cr[c].rel /\ row.state = "pending" /\ row.att = 0 /\ row.peer = NoPeer
    BY DEF NewJob
  <2> HIDE DEF row
  <2>3. /\ jobs' \in Seq(Job) /\ Len(jobs') = n /\ Len(jobs') <= MaxJobs
        /\ (\A j \in Rows : jobs'[j] = jobs[j]) /\ jobs'[n] = row
    BY <1>1, <1>4, <2>1, AppendTyped
  <2>4. Rows' = Rows \cup {n} /\ n \notin Rows /\ n \in Ids
    <3>1. Len(jobs) \in Nat BY <1>1, RowsTyped
    <3> QED BY <2>3, <3>1, SlskdAssumption DEF Rows, Ids
  <2> HIDE DEF n
  <2>5. /\ cr' \in [Callers -> Creators] /\ cr'[c].pc = "pick"
        /\ \A d \in Callers \ {c} : cr'[d] = cr[d]
    BY <1>1, <1>4, SettleTyped
  <2>6. TypeOK' BY <1>1, <1>2, <2>3, <2>5 DEF TypeOK, outside
  <2>7. \A d \in Callers : Pointing(d)' BY <2>3, <2>4, <2>5 DEF IInv, Pointing
  <2>8. NoPast' BY <1>2, <2>4 DEF IInv, NoPast, outside, Ids
  <2>9. Taking' BY <1>1, <1>2, <2>5 DEF IInv, Taking, Callers
  <2>10. Unique'
    <3>1. \A i \in Rows : jobs[i].state \in Conflicting => jobs[i].rel # row.rel
      BY <1>4, <2>2 DEF Found
    <3>2. \A i, j \in Rows :
            (/\ jobs[i].rel = jobs[j].rel
             /\ jobs[i].state \in Conflicting /\ jobs[j].state \in Conflicting) => i = j
      BY DEF IInv, Unique
    <3> QED BY <2>3, <2>4, <3>1, <3>2 DEF Unique
  <2>11. Fits(sync)'
    <3>1. \A j \in Rows : hist[j].searches \in Nat /\ hist[j].searches <= hist[j].searches
      BY <1>1, RowsTyped, PastTyped
    <3> QED BY <1>1, <1>2, <2>3, <2>4, <3>1, FitsKept DEF IInv
  <2>12. Rowwise'
    <3> SUFFICES ASSUME NEW j \in Rows' PROVE Paid(j)' /\ Afford(j)' /\ Remembered(j)'
      BY DEF Rowwise
    <3>1. CASE j = n
      <4>1. hist[n] = NoHist /\ MaxRetries \in Nat
        BY <2>4, SlskdAssumption DEF IInv, NoPast
      <4>2. hist[n].searches = 0 /\ hist[n].tried = {} BY <4>1 DEF NoHist
      <4> QED BY <1>1, <1>2, <2>2, <2>3, <3>1, <4>1, <4>2 DEF Paid, Afford, Remembered
    <3>2. CASE j \in Rows
      BY <1>2, <2>3, <3>2 DEF IInv, Rowwise, Paid, Afford, Remembered, Failures
    <3> QED BY <2>4, <3>1, <3>2
  <2>13. Retrying'
    <3>1. CASE c = NoRec BY <2>5, <3>1 DEF Retrying
    <3>2. CASE c # NoRec
      <4>1. cr'[NoRec] = cr[NoRec] /\ Pointing(NoRec) /\ Retrying
        BY <2>5, <3>2 DEF Callers, IInv
      <4> QED BY <1>2, <2>3, <4>1 DEF Retrying, Pointing
    <3> QED BY <3>1, <3>2
  <2> QED BY <2>6, <2>7, <2>8, <2>9, <2>10, <2>11, <2>12, <2>13 DEF IInv
<1> QED BY <1>3, <1>4 DEF Insert

\* A caller starts a failed row again.
LEMMA RetryStep == ASSUME IInv, NEW c \in Callers, Retry(c) PROVE IInv'
<1> DEFINE j == cr[c].id
<1>1. /\ TypeOK /\ cr[c].pc = "retry" /\ faults \in Nat /\ cr \in [Callers -> Creators]
      /\ cr[c] \in Creators /\ j \in Rows /\ jobs[j].rel = cr[c].rel
  BY FaultTyped DEF IInv, Retry, TypeOK, Pointing
<1>2. UNCHANGED <<paced, approvals, faults, outside>> /\ faults <= faults'
  BY <1>1 DEF Retry
<1>3. CASE jobs[j].state # "failed" /\ UNCHANGED <<jobs, hist>> /\ Throw(c)
  <2>1. /\ cr' \in [Callers -> Creators] /\ cr'[c] = Idle /\ cr'[c].pc = "idle"
        /\ \A d \in Callers \ {c} : cr'[d] = cr[d]
        /\ sync' \in Syncs /\ act' \in [Recs -> ActionStates]
        /\ \/ sync' = sync
           \/ c = NoRec /\ sync' = Resting
    BY <1>1, <1>3, ThrowTyped
  <2>2. TypeOK' BY <1>1, <1>2, <1>3, <2>1 DEF TypeOK, outside
  <2>3. Pointing(c)' /\ (c = NoRec => Retrying') BY <2>1 DEF Pointing, Retrying
  <2> QED BY <1>1, <1>2, <1>3, <2>1, <2>2, <2>3, CallerMoves DEF outside
<1>4. CASE jobs[j].state # "failed" /\ UNCHANGED <<jobs, hist, act, sync>> /\ Settle(c, TRUE)
  <2>1. /\ cr' \in [Callers -> Creators] /\ cr'[c].pc = "pick"
        /\ \A d \in Callers \ {c} : cr'[d] = cr[d]
    BY <1>1, <1>4, SettleTyped
  <2>2. TypeOK' BY <1>1, <1>2, <1>4, <2>1 DEF TypeOK, outside
  <2>3. Pointing(c)' /\ (c = NoRec => Retrying') BY <2>1 DEF Pointing, Retrying
  <2> QED BY <1>1, <1>2, <1>4, <2>1, <2>2, <2>3, CallerMoves DEF outside
<1> DEFINE att == IF c = NoRec THEN jobs[j].att ELSE 0
           row == [NewJob(cr[c].rel, c, cr[c].lid) EXCEPT !.bad = cr[c].bad, !.att = att]
           past == IF c = NoRec THEN [hist[j] EXCEPT !.retries = hist[j].retries + 1] ELSE NoHist
<1>5. CASE /\ jobs[j].state = "failed" /\ jobs' = [jobs EXCEPT ![j] = row]
           /\ hist' = [hist EXCEPT ![j] = past]
           /\ Settle(c, TRUE) /\ UNCHANGED <<act, sync>>
  <2>1. j \in Ids /\ jobs[j] \in Job /\ jobs[j].att \in Nat /\ cr[c].bad \subseteq Peers
        /\ hist[j] \in [searches: Nat, tried: SUBSET Peers, retries: Nat] /\ MaxRetries \in Nat
    BY <1>1, RowsTyped, FieldsTyped, CallerTyped, PastTyped, SlskdAssumption
  <2>2. Paid(j) /\ Remembered(j) BY <1>1 DEF IInv, Rowwise
  <2>3. /\ att \in Nat /\ past.searches <= att /\ att <= MaxRetries
        /\ past.tried \subseteq cr[c].bad
        /\ past \in [searches: Nat, tried: SUBSET Peers, retries: Nat]
        /\ past.searches <= hist[j].searches /\ past.tried \subseteq hist[j].tried
    <3>1. CASE c = NoRec
      <4>1. att = jobs[j].att /\ att <= MaxRetries /\ hist[j].tried \subseteq cr[c].bad
        BY <1>1, <1>5, <3>1 DEF IInv, Retrying
      <4>2. past = [hist[j] EXCEPT !.retries = hist[j].retries + 1] BY <3>1
      <4>3. /\ past \in [searches: Nat, tried: SUBSET Peers, retries: Nat]
            /\ past.searches = hist[j].searches /\ past.tried = hist[j].tried
        BY <2>1, <4>2
      <4> QED BY <2>1, <2>2, <4>1, <4>3 DEF Paid
    <3>2. CASE c # NoRec
      <4>1. att = 0 /\ past = NoHist BY <3>2
      <4>2. past.searches = 0 /\ past.tried = {} /\ past \in [searches: Nat, tried: SUBSET Peers, retries: Nat]
        BY <4>1 DEF NoHist
      <4> QED BY <2>1, <4>1, <4>2
    <3> QED BY <3>1, <3>2
  <2>4. /\ row \in Job /\ row.rel = jobs[j].rel /\ row.state = "pending" /\ row.att = att
        /\ row.peer = NoPeer /\ row.bad = cr[c].bad
    <3>1. /\ NewJob(cr[c].rel, c, cr[c].lid) \in Job
          /\ NewJob(cr[c].rel, c, cr[c].lid).rel = jobs[j].rel
          /\ NewJob(cr[c].rel, c, cr[c].lid).state = "pending"
          /\ NewJob(cr[c].rel, c, cr[c].lid).peer = NoPeer
      <4>1. cr[c].rel \in Releases /\ cr[c].lid \in BOOLEAN BY <1>1, CallerTyped
      <4>2. NewJob(cr[c].rel, c, cr[c].lid) \in Job BY <4>1, NewTyped
      <4> QED BY <1>1, <4>2 DEF NewJob
    <3> HIDE DEF att
    <3> QED BY <2>1, <2>3, <3>1 DEF Job
  <2>5. jobs' = [jobs EXCEPT ![j] = row] /\ hist' = [hist EXCEPT ![j] = past] BY <1>5
  <2> HIDE DEF row, past, att
  <2>6. /\ jobs' \in Seq(Job) /\ Len(jobs') = Len(jobs) /\ Len(jobs') <= MaxJobs
        /\ \A i \in Rows : jobs'[i] = (IF i = j THEN row ELSE jobs[i])
    BY <1>1, <2>4, <2>5, ExceptTyped
  <2>7. Rows' = Rows /\ Rows \subseteq Ids BY <1>1, <2>6, RowsTyped DEF Rows
  <2>8. jobs'[j] = row /\ \A i \in Rows \ {j} : jobs'[i] = jobs[i] BY <1>1, <2>6
  <2>9. /\ hist' \in [Ids -> [searches: Nat, tried: SUBSET Peers, retries: Nat]]
        /\ hist'[j] = past /\ \A i \in Ids \ {j} : hist'[i] = hist[i]
    BY <1>1, <2>1, <2>3, <2>5 DEF TypeOK
  <2>10. /\ cr' \in [Callers -> Creators] /\ cr'[c].pc = "pick"
         /\ \A d \in Callers \ {c} : cr'[d] = cr[d]
    BY <1>1, <1>5, SettleTyped
  <2>11. UNCHANGED <<act, sync>> BY <1>5
  <2>12. TypeOK' BY <1>1, <1>2, <2>6, <2>9, <2>10, <2>11 DEF TypeOK, outside
  <2>13. \A d \in Callers : Pointing(d)'
    BY <2>4, <2>7, <2>8, <2>10 DEF IInv, Pointing
  <2>14. NoPast' BY <1>1, <1>2, <2>7, <2>9 DEF IInv, NoPast, outside
  <2>15. Taking' BY <1>1, <2>10, <2>11 DEF IInv, Taking, Callers
  <2>16. Unique'
    <3>1. \A i \in Rows \ {j} : jobs[i].state \in Conflicting => jobs[i].rel # row.rel
      BY <1>1, <1>5, <2>4 DEF IInv, Unique, Conflicting
    <3>2. \A i, k \in Rows :
            (/\ jobs[i].rel = jobs[k].rel
             /\ jobs[i].state \in Conflicting /\ jobs[k].state \in Conflicting) => i = k
      BY DEF IInv, Unique
    <3> QED BY <2>7, <2>8, <3>1, <3>2 DEF Unique
  <2>17. Fits(sync)'
    <3>1. \A i \in Rows : /\ jobs'[i].rel = jobs[i].rel
                          /\ hist'[i].searches \in Nat /\ hist'[i].searches <= hist[i].searches
                          /\ hist'[i].tried \subseteq hist[i].tried
      <4> SUFFICES ASSUME NEW i \in Rows
                   PROVE  /\ jobs'[i].rel = jobs[i].rel
                          /\ hist'[i].searches \in Nat /\ hist'[i].searches <= hist[i].searches
                          /\ hist'[i].tried \subseteq hist[i].tried
        OBVIOUS
      <4>1. CASE i = j BY <2>3, <2>4, <2>8, <2>9, <4>1
      <4>2. CASE i # j
        <5>1. jobs'[i] = jobs[i] /\ hist'[i] = hist[i] /\ i \in Ids BY <2>7, <2>8, <2>9, <4>2
        <5>2. hist[i].searches \in Nat BY <1>1, <5>1, PastTyped
        <5> QED BY <5>1, <5>2
      <4> QED BY <4>1, <4>2
    <3>2. \A i \in Rows : jobs[i].state \in Active => jobs'[i] = jobs[i]
      BY <1>5, <2>8 DEF Active
    <3> QED BY <1>1, <1>2, <2>7, <2>11, <3>1, <3>2, FitsKept DEF IInv
  <2>18. Rowwise'
    <3> SUFFICES ASSUME NEW i \in Rows PROVE Paid(i)' /\ Afford(i)' /\ Remembered(i)'
      BY <2>7 DEF Rowwise
    <3>1. CASE i = j
      <4>1. Paid(i)' BY <1>1, <1>2, <2>1, <2>3, <2>4, <2>8, <2>9, <3>1 DEF Paid
      <4>2. Afford(i)' BY <1>1, <1>2, <2>1, <2>3, <2>4, <2>8, <3>1 DEF Afford
      <4>3. Remembered(i)' BY <2>3, <2>4, <2>8, <2>9, <3>1 DEF Remembered, Failures
      <4> QED BY <4>1, <4>2, <4>3
    <3>2. CASE i # j
      <4>1. jobs'[i] = jobs[i] /\ hist'[i] = hist[i] BY <2>7, <2>8, <2>9, <3>2
      <4> QED BY <1>2, <2>11, <4>1 DEF IInv, Rowwise, Paid, Afford, Remembered, Failures
    <3> QED BY <3>1, <3>2
  <2>19. Retrying'
    <3>1. CASE c = NoRec BY <2>10, <3>1 DEF Retrying
    <3>2. CASE c # NoRec
      <4>1. cr'[NoRec] = cr[NoRec] /\ Pointing(NoRec) /\ Retrying
        BY <2>10, <3>2 DEF Callers, IInv
      <4>2. \A i \in Rows : jobs'[i].state = "failed" => jobs'[i] = jobs[i] /\ hist'[i] = hist[i]
        BY <2>4, <2>7, <2>8, <2>9
      <4> QED BY <4>1, <4>2 DEF Retrying, Pointing
    <3> QED BY <3>1, <3>2
  <2> QED BY <2>12, <2>13, <2>14, <2>15, <2>16, <2>17, <2>18, <2>19 DEF IInv
<1> QED BY <1>3, <1>4, <1>5 DEF Retry

-----------------------------------------------------------------------------
(* Steps outside, and the crash. *)

\* What happens outside leaves the rows and the sync alone.
LEMMA OutsideMoves ==
  ASSUME IInv, TypeOK', UNCHANGED <<jobs, hist, cr, sync>>, faults <= faults',
         \A j \in Ids \ Rows : batch'[j] = batch[j] /\ cmd'[j] = cmd[j]
  PROVE  IInv'
<1>1. /\ TypeOK /\ Fits(sync) /\ Rowwise /\ faults' \in Nat /\ Rows \subseteq Ids
  BY RowsTyped, SlskdAssumption DEF IInv, TypeOK
<1>2. \A j \in Rows : hist'[j].searches \in Nat /\ hist'[j].searches <= hist[j].searches
  BY <1>1, PastTyped
<1>3. Fits(sync)' BY <1>1, <1>2, FitsKept DEF Rows
<1>4. Rowwise'
  <2> SUFFICES ASSUME NEW j \in Rows PROVE Paid(j)' /\ Afford(j)' /\ Remembered(j)'
    BY DEF Rowwise, Rows
  <2>1. /\ Paid(j) /\ Afford(j) /\ Remembered(j) /\ faults \in Nat /\ MaxRetries \in Nat
        /\ jobs[j].att \in Nat
    BY <1>1, FaultTyped, RowsTyped, FieldsTyped, SlskdAssumption DEF Rowwise
  <2>2. Paid(j)' /\ Afford(j)' BY <1>1, <2>1 DEF Paid, Afford
  <2>3. Remembered(j)' BY <2>1 DEF Remembered, Failures
  <2> QED BY <2>2, <2>3
<1> QED BY <1>3, <1>4 DEF IInv, Pointing, NoPast, Taking, Unique, Rows, Retrying

\* slskd moves on with a download, which a row has.
LEMMA TransferStep == ASSUME IInv, NEW j \in Ids, NEW to \in Transfers, Transfer(j, to) PROVE IInv'
<1>1. /\ TypeOK /\ batch[j] # "none" /\ faults \in Nat
      /\ UNCHANGED <<jobs, act, cr, sync, paced, hist, approvals, faults, config, cmd, have>>
  BY FaultTyped DEF IInv, Transfer
<1>2. j \in Rows BY <1>1 DEF IInv, NoPast
<1>3. batch' \in [Ids -> Transfers] /\ \A i \in Ids \ Rows : batch'[i] = batch[i]
  BY <1>1, <1>2 DEF Transfer, TypeOK
<1>4. TypeOK' BY <1>1, <1>3 DEF TypeOK
<1> QED BY <1>1, <1>3, <1>4, OutsideMoves

\* Lidarr ends an import command, which a row has.
LEMMA ImportedStep ==
  ASSUME IInv, NEW j \in Ids, NEW to \in {"completed", "failed"}, Imported(j, to)
  PROVE  IInv'
<1>1. /\ TypeOK /\ cmd[j] # "none" /\ faults \in Nat
      /\ UNCHANGED <<jobs, act, cr, sync, paced, hist, approvals, faults, config, batch>>
  BY FaultTyped DEF IInv, Imported
<1>2. j \in Rows /\ jobs[j].rel \in Releases
  <2>1. j \in Rows BY <1>1 DEF IInv, NoPast
  <2> QED BY <1>1, <2>1, RowsTyped, FieldsTyped
<1>3. /\ cmd' \in [Ids -> {"none", "running", "completed", "failed"}]
      /\ \A i \in Ids \ Rows : cmd'[i] = cmd[i]
  BY <1>1, <1>2 DEF Imported, TypeOK
<1>4. have' \subseteq Releases BY <1>1, <1>2 DEF Imported, TypeOK
<1>5. TypeOK' BY <1>1, <1>3, <1>4 DEF TypeOK
<1> QED BY <1>1, <1>3, <1>5, OutsideMoves

\* Lidarr gets a release, a pause passes, the target is edited.
LEMMA SmallStep ==
  ASSUME IInv, \/ \E k \in Releases : LidarrGets(k)
               \/ PauseOver
               \/ \E to \in Configs : Edit(to)
  PROVE  IInv'
<1>1. TypeOK /\ faults \in Nat BY FaultTyped DEF IInv
<1>2. ASSUME NEW k \in Releases, LidarrGets(k) PROVE IInv'
  <2>1. TypeOK' BY <1>1, <1>2 DEF LidarrGets, TypeOK
  <2> QED BY <1>1, <1>2, <2>1, OutsideMoves DEF LidarrGets
<1>3. CASE PauseOver
  <2>1. TypeOK' BY <1>1, <1>3 DEF PauseOver, TypeOK, outside
  <2> QED BY <1>1, <1>3, <2>1, OutsideMoves DEF PauseOver, outside
<1>4. ASSUME NEW to \in Configs, Edit(to) PROVE IInv'
  <2>1. faults' \in 0..MaxFaults /\ faults <= faults' BY <1>1, <1>4, FaultTyped DEF Edit
  <2>2. TypeOK' BY <1>1, <1>4, <2>1, SlskdAssumption DEF Edit, TypeOK
  <2> QED BY <1>1, <1>4, <2>1, <2>2, OutsideMoves DEF Edit
<1> QED BY <1>2, <1>3, <1>4

\* A row grows old.
LEMMA ElapseStep == ASSUME IInv, NEW j \in Ids, Elapse(j) PROVE IInv'
<1>1. /\ TypeOK /\ j \in Rows /\ faults \in Nat
      /\ UNCHANGED <<act, cr, sync, paced, hist, approvals, faults, outside>>
  BY FaultTyped DEF IInv, Elapse
<1> DEFINE row == [jobs[j] EXCEPT !.age = jobs[j].age + 1]
<1>2. jobs[j] \in Job /\ jobs[j].age \in 0..2 /\ jobs[j].age + 1 \in 0..2
  <2>1. jobs[j] \in Job /\ jobs[j].age \in 0..2 BY <1>1, RowsTyped, FieldsTyped
  <2> QED BY <2>1 DEF Elapse
<1>3. /\ row \in Job /\ row.rel = jobs[j].rel /\ row.state = jobs[j].state
      /\ row.att = jobs[j].att /\ row.found = jobs[j].found /\ row.bad = jobs[j].bad
      /\ row.peer = jobs[j].peer
  BY <1>2 DEF Job
<1>4. jobs' = [jobs EXCEPT ![j] = row] BY DEF Elapse
<1> HIDE DEF row
<1>5. /\ jobs' \in Seq(Job) /\ Len(jobs') = Len(jobs) /\ Len(jobs') <= MaxJobs
      /\ \A i \in Rows : jobs'[i] = (IF i = j THEN row ELSE jobs[i])
  BY <1>1, <1>3, <1>4, ExceptTyped
<1>6. Rows' = Rows /\ Rows \subseteq Ids BY <1>1, <1>5, RowsTyped DEF Rows
<1>7. \A i \in Rows : /\ jobs'[i].rel = jobs[i].rel /\ jobs'[i].state = jobs[i].state
                      /\ jobs'[i].att = jobs[i].att /\ jobs'[i].found = jobs[i].found
                      /\ jobs'[i].bad = jobs[i].bad /\ jobs'[i].peer = jobs[i].peer
  BY <1>3, <1>5
<1>8. TypeOK' BY <1>1, <1>5 DEF TypeOK, outside
<1>9. \A i \in Rows : hist'[i].searches \in Nat /\ hist'[i].searches <= hist[i].searches
  BY <1>1, <1>6, PastTyped
<1>10. Fits(sync)' BY <1>1, <1>6, <1>7, <1>9, FitsKept DEF IInv
<1>11. Rowwise'
  <2> SUFFICES ASSUME NEW i \in Rows PROVE Paid(i)' /\ Afford(i)' /\ Remembered(i)'
    BY <1>6 DEF Rowwise
  <2> QED BY <1>1, <1>7 DEF IInv, Rowwise, Paid, Afford, Remembered, Failures
<1>12. \A c \in Callers : Pointing(c)' BY <1>1, <1>6, <1>7 DEF IInv, Pointing
<1>13. Unique' BY <1>6, <1>7 DEF IInv, Unique
<1>14. Retrying'
  <2>1. NoRec \in Callers BY DEF Callers
  <2>2. Pointing(NoRec) /\ Retrying BY <2>1 DEF IInv
  <2> QED BY <1>1, <1>7, <2>2 DEF Retrying, Pointing
<1> QED BY <1>1, <1>6, <1>8, <1>10, <1>11, <1>12, <1>13, <1>14 DEF IInv, NoPast, Taking, outside

\* The process starts again.
LEMMA CrashStep == ASSUME IInv, Crash PROVE IInv'
<1>1. /\ TypeOK /\ faults \in Nat /\ faults' \in 0..MaxFaults /\ faults' = faults + 1
      /\ sync' = Resting /\ paced' = FALSE /\ cr' = [c \in Callers |-> Idle]
      /\ UNCHANGED <<jobs, act, hist, approvals, outside>>
  BY FaultTyped DEF IInv, Crash
<1>2. sync' \in Syncs /\ Fits(sync)' BY <1>1, RestFits
<1>3. cr' \in [Callers -> Creators] /\ \A c \in Callers : cr'[c].pc = "idle"
  <2>1. Idle \in Creators /\ Idle.pc = "idle" BY RestTyped DEF Idle
  <2> QED BY <1>1, <2>1
<1>4. TypeOK' BY <1>1, <1>2, <1>3 DEF TypeOK, outside
<1>5. Rowwise' BY <1>1, RowwiseKept DEF IInv
<1>6. NoRec \in Callers BY DEF Callers
<1> QED BY <1>1, <1>2, <1>3, <1>4, <1>5, <1>6
     DEF IInv, Pointing, NoPast, Taking, Unique, Rows, Retrying, outside

-----------------------------------------------------------------------------
(* The invariant, and what follows from it. *)

\* The invariant holds at the start.
LEMMA InitInv == Init => IInv
<1> SUFFICES ASSUME Init PROVE IInv
  OBVIOUS
<1>1. jobs \in Seq(Job) /\ Len(jobs) = 0 /\ Rows = {} BY DEF Init, Rows
<1>2. sync \in Syncs /\ sync.pc = "idle" /\ sync.left = {} BY RestTyped DEF Init, Resting
<1>3. cr \in [Callers -> Creators] /\ \A c \in Callers : cr[c].pc = "idle"
  <2>1. Idle \in Creators /\ Idle.pc = "idle" BY RestTyped DEF Idle
  <2> QED BY <2>1 DEF Init
<1>4. hist \in [Ids -> [searches: Nat, tried: SUBSET Peers, retries: Nat]]
  <2>1. NoHist \in [searches: Nat, tried: SUBSET Peers, retries: Nat] BY DEF NoHist
  <2> QED BY <2>1 DEF Init
<1>5. TypeOK
  <2>1. /\ act \in [Recs -> ActionStates] /\ batch \in [Ids -> Transfers]
        /\ cmd \in [Ids -> {"none", "running", "completed", "failed"}]
    BY RestTyped DEF Init, ActionStates
  <2>2. paced \in BOOLEAN /\ have \subseteq Releases BY DEF Init
  <2>3. approvals \in 0..MaxApprovals /\ faults \in 0..MaxFaults
    BY SlskdAssumption DEF Init
  <2>4. config \in {"ok", "nopath", "nolidarr", "unlinked"} BY SlskdAssumption DEF Init
  <2>5. Len(jobs) <= MaxJobs BY <1>1, SlskdAssumption
  <2> QED BY <1>1, <1>2, <1>3, <1>4, <2>1, <2>2, <2>3, <2>4, <2>5 DEF TypeOK
<1>6. NoRec \in Callers BY DEF Callers
<1>7. NoPast BY DEF Init, NoPast, NoDownloads
<1>8. Fits(sync) BY <1>2 DEF Fits, Listed, Stands, Saves, JobSteps
<1> QED BY <1>1, <1>3, <1>5, <1>6, <1>7, <1>8
     DEF IInv, Pointing, Taking, Unique, Rowwise, Retrying

\* Nothing happens.
LEMMA StutterStep == IInv /\ UNCHANGED vars => IInv'
<1> SUFFICES ASSUME IInv, UNCHANGED vars PROVE IInv'
  OBVIOUS
<1>1. UNCHANGED <<jobs, act, cr, sync, paced, hist, approvals, faults, config, batch, cmd, have>>
  BY DEF vars
<1>2. TypeOK' BY <1>1 DEF IInv, TypeOK
<1>3. faults <= faults' BY <1>1, FaultTyped DEF IInv
<1> QED BY <1>1, <1>2, <1>3, OutsideMoves

\* createSlskdJob, whoever calls it.
LEMMA CreateKeeps == ASSUME IInv, NEW c \in Callers, CreateStep(c) PROVE IInv'
BY PickStep, InsertStep, FindStep, RetryStep, QueryFailsStep DEF CreateStep

\* The sync, whatever it is at.
LEMMA SyncKeeps == ASSUME IInv, SyncStep PROVE IInv'
<1>1. NoRec \in Callers BY DEF Callers
<1>2. CASE CreateStep(NoRec) BY <1>1, <1>2, CreateKeeps
<1>3. CASE IntakeDone \/ IntakeFails \/ List \/ NextJob \/ SyncDone
  BY <1>3, IntakeDoneStep, IntakeFailsStep, ListStep, NextJobStep, DoneStep
<1>4. CASE \E answer \in {"ok", "busy", "error"} : Search(answer) BY <1>4, SearchStep
<1>5. CASE Look \/ Enqueue \/ Fetch \/ Transferred \/ Build \/ Submit \/ Check
  BY <1>5, LookStep, EnqueueStep, FetchStep, TransferredStep, BuildStep, SubmitStep, CheckStep
<1>6. CASE Save \/ WriteFails \/ Report \/ WriteAction
  BY <1>6, SaveStep, WriteFailsStep, ReportingStep, WriteActionStep
<1> QED BY <1>2, <1>3, <1>4, <1>5, <1>6 DEF SyncStep

\* Every step keeps the invariant.
LEMMA NextKeeps == IInv /\ [Next]_vars => IInv'
<1> SUFFICES ASSUME IInv, [Next]_vars PROVE IInv'
  OBVIOUS
<1>1. ASSUME NEW r \in Recs, NEW rels \in {Covers[r], {}}, NEW lid \in BOOLEAN,
             Approve(r, rels, lid)
      PROVE  IInv'
  BY <1>1, ApprovalStep
<1>2. ASSUME NEW r \in Recs, ApproveStep(r) PROVE IInv'
  <2>1. r \in Callers BY DEF Callers
  <2> QED BY <1>2, <2>1, CreateKeeps, ApprovedStep DEF ApproveStep
<1>3. CASE Trigger BY <1>3, TriggerStep
<1>4. CASE SyncStep BY <1>4, SyncKeeps
<1>5. CASE Outside
  BY <1>5, TransferStep, ImportedStep, SmallStep, ElapseStep DEF Outside
<1>6. CASE Crash BY <1>6, CrashStep
<1>7. CASE UNCHANGED vars BY <1>7, StutterStep
<1> QED BY <1>1, <1>2, <1>3, <1>4, <1>5, <1>6, <1>7 DEF Next

\* The rows, the callers and the sync are at all times what the source takes them for: one
\* row per work key, a row under work at the step for its state, every search paid for by an
\* attempt, and every peer that failed remembered.
THEOREM Invariance == Spec => []IInv
<1>1. Init => IInv BY InitInv
<1>2. IInv /\ [Next]_vars => IInv' BY NextKeeps
<1> QED BY <1>1, <1>2, PTL DEF Spec

\* Every variable has its type.
THEOREM TypeCorrect == Spec => []TypeOK
<1>1. IInv => TypeOK BY DEF IInv
<1> QED BY <1>1, Invariance, PTL

\* Since it was created or approved again a job is never searched for more often than
\* SLSKD_MAX_AUTO_RETRIES allows, and once more for each incident.
THEOREM BudgetHolds == Spec => []RetryBudget
<1>1. IInv => RetryBudget
  <2> SUFFICES ASSUME IInv, NEW j \in Rows PROVE hist[j].searches <= MaxRetries + 1 + faults
    BY DEF RetryBudget
  <2>1. /\ hist[j].searches \in Nat /\ jobs[j].att \in Nat /\ faults \in Nat /\ MaxRetries \in Nat
    BY RowsTyped, PastTyped, FieldsTyped, FaultTyped, SlskdAssumption DEF IInv
  <2> QED BY <2>1 DEF IInv, Rowwise, Paid
<1> QED BY <1>1, Invariance, PTL

\* What is enqueued is never offered by a peer whose download of the job failed before.
THEOREM FailedSkipped == Spec => []RetrySkipsFailed
<1>1. IInv => RetrySkipsFailed
  <2> SUFFICES ASSUME IInv, sync.pc = "enqueue" PROVE sync.peer \notin hist[sync.id].tried
    BY DEF RetrySkipsFailed
  <2>1. Remembered(sync.id) /\ Stands(sync) /\ job = jobs[sync.id] BY AtWork DEF JobSteps
  <2> QED BY <2>1 DEF Remembered, Stands, Failures
<1> QED BY <1>1, Invariance, PTL

-----------------------------------------------------------------------------
(* The second half of the invariant holds while nothing happens that an    *)
(* operator would call an incident.                                        *)

\* What came of a row at slskd and at Lidarr.
Calm(row, b) ==
  /\ row.state \in Searched \cup {"failed"} => b \notin {"queued", "active"}
  /\ row.state \in {"import_pending", "cancelled", "completed"} => b = "done"
  /\ (row.state = "completed" /\ row.lid) => row.rel \in have

\* A row, as it is or is about to be written.
Current(j) == IF sync.pc = "save" /\ sync.id = j THEN sync.row ELSE jobs[j]
CalmRows == \A j \in Rows : Calm(Current(j), batch[j])

\* The steps at which the sync uses slskd or Lidarr for the row under work.
Using == sync.pc \in {"search", "look", "enqueue", "transfers", "import", "submit", "check"}

\* A pass works with the configuration there is, and a broken one uses nothing.
Configured ==
  /\ sync.pc # "idle" => sync.cfg = config
  /\ (Using \/ (sync.pc = "save" /\ sync.then \in {"search", "look"})) => config \in {"ok", "unlinked"}
  /\ config \notin {"ok", "unlinked"} => \A j \in Ids : batch[j] = "none"

\* What the pass was told of a download it has not come to is still so.
Told ==
  /\ sync.seen # "broken"
  /\ sync.pc \in {"idle", "intake", "list"} => sync.seen = "no"
  /\ \A j \in Ids :
       (sync.seen = "yes" /\ (j \in sync.left \/ (sync.pc = "transfers" /\ j = sync.id))) =>
         (sync.snap[j] \in {"done", "failed"} => batch[j] = sync.snap[j])
  /\ sync.pc \in {"import", "submit"} => batch[sync.id] = "done"

\* What is reported is there.
Completed(r) == \E j \in Rows : jobs[j].rec = r /\ jobs[j].state = "completed"
Reports ==
  /\ sync.pc = "save" =>
       /\ jobs[sync.id].state \in Active /\ sync.row.rec = jobs[sync.id].rec
       /\ sync.st = "added" => sync.row.state = "completed"
       /\ sync.st \in Following => sync.row.state \in Active
  /\ (sync.pc = "report" /\ sync.st = "added") => Completed(sync.row.rec)
  /\ (sync.pc = "report" /\ sync.st \in Following) =>
       jobs[sync.id].state \in Active /\ jobs[sync.id].rec = sync.row.rec
  /\ (sync.pc = "write" /\ sync.read = "added") => Completed(sync.row.rec)
  /\ \A r \in Recs : act[r] = "added" => Completed(r)

QInv == CalmRows /\ Configured /\ Told /\ Reports

\* The states of an action that follow a job are states of an active job.
LEMMA FollowingNames ==
  /\ Following \subseteq Active
  /\ \A st \in {"none", "added", "failed", "needs_review", "skipped"} : st \notin Following
BY DEF Following, Active

\* The row under work waits for something.
LEMMA AtUse ==
  ASSUME IInv, QInv, Using
  PROVE  /\ sync \in Syncs /\ sync.id \in Rows /\ sync.id \in Ids /\ sync.id \notin sync.left
         /\ sync.left \subseteq Ids /\ job \in Job /\ job = jobs[sync.id] /\ job.state \in Active
         /\ Stands(sync) /\ Calm(job, batch[sync.id]) /\ config \in {"ok", "unlinked"}
         /\ sync.cfg = config /\ TypeOK
<1>1. sync.pc \in JobSteps /\ sync.pc \notin {"save", "idle"} BY DEF Using, JobSteps
<1>2. /\ sync \in Syncs /\ sync.id \in Rows /\ sync.id \in Ids /\ sync.id \notin sync.left
      /\ job \in Job /\ job = jobs[sync.id] /\ Stands(sync) /\ sync.left \subseteq ActiveRows
  BY <1>1, AtWork
<1>3. job.state \in Active BY <1>2 DEF Using, Stands, Searched, Active
<1>4. Calm(job, batch[sync.id]) BY <1>1, <1>2 DEF QInv, CalmRows, Current
<1>5. config \in {"ok", "unlinked"} /\ sync.cfg = config BY <1>1 DEF QInv, Configured
<1>6. TypeOK BY DEF IInv
<1>7. sync.left \subseteq Ids BY <1>2, <1>6, RowsTyped DEF ActiveRows
<1> QED BY <1>2, <1>3, <1>4, <1>5, <1>6, <1>7

\* A row is about to be written, in accord with what came of it.
LEMMA QuietWrite ==
  ASSUME IInv, QInv, NEW i \in Rows, UNCHANGED <<jobs, act, config, have>>,
         sync.pc \notin {"save", "idle", "intake", "list"}, jobs[i].state \in Active,
         sync'.pc = "save", sync'.id = i, sync'.left \subseteq sync.left, i \notin sync'.left,
         sync'.cfg = sync.cfg, sync'.seen = sync.seen, sync'.snap = sync.snap,
         sync'.row.rec = jobs[i].rec, sync'.st = "added" => sync'.row.state = "completed",
         sync'.st \in Following => sync'.row.state \in Active,
         Calm(sync'.row, batch'[i]), \A j \in Ids \ {i} : batch'[j] = batch[j],
         sync'.then \in {"search", "look"} => config \in {"ok", "unlinked"},
         batch'[i] = batch[i] \/ config \in {"ok", "unlinked"}
  PROVE  QInv'
<1>1. Rows' = Rows /\ Rows \subseteq Ids BY RowsTyped DEF IInv, Rows
<1>2. CalmRows'
  <2> SUFFICES ASSUME NEW j \in Rows PROVE Calm(Current(j), batch[j])'
    BY <1>1 DEF CalmRows
  <2>1. CASE j = i BY <2>1 DEF Current, Calm
  <2>2. CASE j # i BY <1>1, <2>2 DEF QInv, CalmRows, Current, Calm
  <2> QED BY <2>1, <2>2
<1>3. Configured' BY DEF QInv, Configured, Using
<1>4. Told' BY DEF QInv, Told
<1>5. Reports' BY <1>1 DEF QInv, Reports, Completed
<1> QED BY <1>2, <1>3, <1>4, <1>5 DEF QInv

\* The job under work fails while slskd downloads nothing for it.
LEMMA QuietFail ==
  ASSUME IInv, QInv, Using, Fail(sync), UNCHANGED <<jobs, act, config, batch, have>>,
         batch[sync.id] \notin {"queued", "active"}
  PROVE  QInv'
<1>1. /\ sync \in Syncs /\ sync.id \in Rows /\ sync.id \notin sync.left /\ job = jobs[sync.id]
      /\ job.state \in Active /\ config \in {"ok", "unlinked"} /\ TypeOK
  BY AtUse
<1>2. /\ sync'.pc = "save" /\ sync'.st = "failed" /\ sync'.row.state = "failed"
      /\ sync'.row.rec = jobs[sync.id].rec /\ sync'.id = sync.id /\ sync'.left = sync.left
      /\ sync'.cfg = sync.cfg /\ sync'.seen = sync.seen /\ sync'.snap = sync.snap
  BY <1>1, FailTyped
<1>3. Calm(sync'.row, batch'[sync.id]) BY <1>2 DEF Calm, Searched
<1>4. sync'.st \notin Following BY <1>2 DEF Following
<1> QED BY <1>1, <1>2, <1>3, <1>4, QuietWrite DEF Using

\* The job under work is written as it is but for some fields.
LEMMA QuietSave ==
  ASSUME IInv, QInv, Using, NEW row \in Job, NEW st \in ActionStates,
         NEW then \in {"next", "search", "look", "report"}, Write(sync, row, st, then),
         UNCHANGED <<jobs, act, config, have>>, row.rec = job.rec,
         st = "added" => row.state = "completed", st \in Following => row.state \in Active,
         Calm(row, batch'[sync.id]), \A j \in Ids \ {sync.id} : batch'[j] = batch[j]
  PROVE  QInv'
<1>1. /\ sync \in Syncs /\ sync.id \in Rows /\ sync.id \notin sync.left /\ job = jobs[sync.id]
      /\ job.state \in Active /\ config \in {"ok", "unlinked"}
  BY AtUse
<1>2. /\ sync'.pc = "save" /\ sync'.st = st /\ sync'.row = row /\ sync'.then = then
      /\ sync'.id = sync.id /\ sync'.left = sync.left
      /\ sync'.cfg = sync.cfg /\ sync'.seen = sync.seen /\ sync'.snap = sync.snap
  BY <1>1, WriteTyped
<1> QED BY <1>1, <1>2, QuietWrite DEF Using, Calm

\* The sync moves between steps at which nothing is about to be written.
LEMMA QuietMove ==
  ASSUME IInv, QInv, UNCHANGED <<jobs, act, config, batch, have>>,
         sync.pc # "save", sync'.pc # "save", sync'.pc \notin {"intake", "list", "report", "write"},
         sync'.left \subseteq sync.left, sync'.seen \in {sync.seen, "no"},
         sync'.seen = "yes" => sync'.snap = sync.snap,
         sync'.pc # "idle" => sync'.cfg = config,
         sync'.pc = "idle" => sync'.seen = "no",
         Using' => config \in {"ok", "unlinked"},
         sync'.pc = "transfers" => sync'.id \in sync.left,
         sync'.pc \in {"import", "submit"} => batch[sync'.id] = "done"
  PROVE  QInv'
<1>1. Rows' = Rows BY DEF Rows
<1>2. CalmRows' BY <1>1 DEF QInv, CalmRows, Current, Calm
<1>3. Configured' BY DEF QInv, Configured
<1>4. Told' BY DEF QInv, Told
<1>5. Reports' BY <1>1 DEF QInv, Reports, Completed
<1> QED BY <1>2, <1>3, <1>4, <1>5 DEF QInv

\* The next job is taken.
LEMMA NextJobQuiet == ASSUME IInv, QInv, NextJob PROVE QInv'
<1>1. TypeOK /\ Fits(sync) /\ sync \in Syncs /\ sync.pc = "next" BY DEF IInv, NextJob, TypeOK
<1>2. sync.left \subseteq ActiveRows /\ sync.cfg = config /\ UNCHANGED <<jobs, act, config, batch, have>>
  BY <1>1 DEF Fits, Listed, QInv, Configured, NextJob, outside
<1>3. PICK j \in sync.left : NextJob!2!(j)
  BY DEF NextJob
<1> DEFINE row == jobs[j]
           s == [sync EXCEPT !.id = j, !.left = sync.left \ {j}, !.peer = NoPeer]
<1>4. j \in Rows /\ j \in Ids /\ row \in Job /\ row.state \in Active
  BY <1>1, <1>2, <1>3, RowsTyped DEF ActiveRows
<1>5. /\ s \in Syncs /\ s.pc = "next" /\ s.id = j /\ s.left = sync.left \ {j}
      /\ s.cfg = sync.cfg /\ s.seen = sync.seen /\ s.snap = sync.snap
  <2>1. j \in 0..MaxJobs BY <1>4, SlskdAssumption DEF Ids
  <2> QED BY <1>1, <2>1 DEF Syncs
<1>6. Calm(row, batch[j]) BY <1>1, <1>4 DEF QInv, CalmRows, Current
<1>7. \/ Fail(s) /\ (sync.cfg \notin {"ok", "unlinked"} \/ row.state = "import_pending")
      \/ /\ sync.cfg \in {"ok", "unlinked"}
         /\ \/ sync' = [s EXCEPT !.pc = "look"]
            \/ sync' = [s EXCEPT !.id = 0]
            \/ /\ row.state \in Searched
               /\ Write(s, [row EXCEPT !.state = "searching", !.att = row.att + 1], "none", "search")
            \/ sync' = [s EXCEPT !.pc = "transfers"]
            \/ sync' = [s EXCEPT !.pc = "check"]
  BY <1>3 DEF Searched
<1> HIDE DEF s
<1>8. CASE Fail(s) /\ (sync.cfg \notin {"ok", "unlinked"} \/ row.state = "import_pending")
  <2>1. batch[j] \notin {"queued", "active"}
    <3>1. CASE sync.cfg \notin {"ok", "unlinked"} BY <1>2, <1>4, <3>1 DEF QInv, Configured
    <3>2. CASE row.state = "import_pending" BY <1>6, <3>2 DEF Calm
    <3> QED BY <1>8, <3>1, <3>2
  <2>2. /\ sync'.pc = "save" /\ sync'.st = "failed" /\ sync'.then = "report"
        /\ sync'.row.state = "failed" /\ sync'.row.rec = row.rec /\ sync'.id = j
        /\ sync'.left = s.left /\ sync'.cfg = sync.cfg /\ sync'.seen = sync.seen
        /\ sync'.snap = sync.snap
    BY <1>1, <1>4, <1>5, <1>8, FailTyped
  <2>3. Calm(sync'.row, batch'[j]) BY <1>2, <2>1, <2>2 DEF Calm, Searched
  <2>4. sync'.st \notin Following BY <2>2 DEF Following
  <2> QED BY <1>1, <1>2, <1>4, <1>5, <2>2, <2>3, <2>4, QuietWrite
<1>9. CASE sync' = [s EXCEPT !.pc = "look"] /\ sync.cfg \in {"ok", "unlinked"}
  <2>1. /\ sync'.pc = "look" /\ sync'.left \subseteq sync.left /\ sync'.cfg = sync.cfg
        /\ sync'.seen = sync.seen /\ sync'.snap = sync.snap
    BY <1>5, <1>9 DEF Syncs
  <2> QED BY <1>1, <1>2, <1>9, <2>1, QuietMove
<1>10. CASE sync' = [s EXCEPT !.id = 0] /\ sync.cfg \in {"ok", "unlinked"}
  <2>1. /\ sync'.pc = "next" /\ sync'.left \subseteq sync.left /\ sync'.cfg = sync.cfg
        /\ sync'.seen = sync.seen /\ sync'.snap = sync.snap
    BY <1>5, <1>10 DEF Syncs
  <2> QED BY <1>1, <1>2, <1>10, <2>1, QuietMove
<1>11. CASE /\ row.state \in Searched /\ sync.cfg \in {"ok", "unlinked"}
            /\ Write(s, [row EXCEPT !.state = "searching", !.att = row.att + 1], "none", "search")
  <2> DEFINE new == [row EXCEPT !.state = "searching", !.att = row.att + 1]
  <2>1. new \in Job
    <3>1. "searching" \in States /\ row.att + 1 \in Nat
      BY <1>4, FieldsTyped DEF States, Conflicting, Active
    <3> QED BY <1>4, <3>1, EditTyped
  <2>2. new.state = "searching" /\ new.rec = row.rec BY <1>4 DEF Job
  <2>3. Write(s, new, "none", "search") BY <1>11
  <2> HIDE DEF new
  <2>4. "none" \in ActionStates BY DEF ActionStates
  <2>5. /\ sync'.pc = "save" /\ sync'.row = new /\ sync'.st = "none" /\ sync'.id = j
        /\ sync'.left = s.left /\ sync'.cfg = sync.cfg /\ sync'.seen = sync.seen
        /\ sync'.snap = sync.snap
    BY <1>5, <2>1, <2>3, <2>4, WriteTyped
  <2>6. Calm(sync'.row, batch'[j]) BY <1>2, <1>6, <1>11, <2>2, <2>5 DEF Calm, Searched
  <2>7. sync'.st \notin Following BY <2>5 DEF Following
  <2> QED BY <1>1, <1>2, <1>4, <1>5, <1>11, <2>2, <2>5, <2>6, <2>7, QuietWrite
<1>12. CASE sync' = [s EXCEPT !.pc = "transfers"] /\ sync.cfg \in {"ok", "unlinked"}
  <2>1. /\ sync'.pc = "transfers" /\ sync'.left \subseteq sync.left /\ sync'.cfg = sync.cfg
        /\ sync'.seen = sync.seen /\ sync'.snap = sync.snap /\ sync'.id \in sync.left
    BY <1>5, <1>12 DEF Syncs
  <2> QED BY <1>1, <1>2, <1>12, <2>1, QuietMove
<1>13. CASE sync' = [s EXCEPT !.pc = "check"] /\ sync.cfg \in {"ok", "unlinked"}
  <2>1. /\ sync'.pc = "check" /\ sync'.left \subseteq sync.left /\ sync'.cfg = sync.cfg
        /\ sync'.seen = sync.seen /\ sync'.snap = sync.snap
    BY <1>5, <1>13 DEF Syncs
  <2> QED BY <1>1, <1>2, <1>13, <2>1, QuietMove
<1> QED BY <1>7, <1>8, <1>9, <1>10, <1>11, <1>12, <1>13

\* The job under work is left, outside of a write.
LEMMA QuietLeave ==
  ASSUME IInv, QInv, Leave, sync.pc \in {"look", "check", "report", "write"},
         UNCHANGED <<jobs, act, config, batch, have>>
  PROVE  QInv'
<1>1. TypeOK /\ sync.pc # "idle" BY DEF IInv
<1>2. /\ sync'.pc = "next" /\ sync'.left = sync.left /\ sync'.cfg = sync.cfg
      /\ sync'.seen = sync.seen /\ sync'.snap = sync.snap
  BY <1>1, LeaveTyped
<1>3. sync.cfg = config BY <1>1 DEF QInv, Configured
<1>4. ~Using' BY <1>2 DEF Using
<1> QED BY <1>1, <1>2, <1>3, <1>4, QuietMove

\* A search leaves nothing downloading.
LEMMA SearchQuiet == ASSUME IInv, QInv, NEW answer, Search(answer) PROVE QInv'
<1>1. Using /\ sync.pc = "search" /\ UNCHANGED <<jobs, act, config, batch, have>>
  BY DEF Using, Search, outside
<1>2. /\ job \in Job /\ Calm(job, batch[sync.id]) /\ Stands(sync) /\ sync.id \in Ids
      /\ sync.id \in Rows /\ job = jobs[sync.id]
  BY <1>1, AtUse
<1>3. job.state = "searching" /\ batch[sync.id] \notin {"queued", "active"}
  BY <1>1, <1>2 DEF Stands, Calm, Searched
<1>4. "none" \in ActionStates BY DEF ActionStates
<1>5. CASE Write(sync, [job EXCEPT !.found = TRUE], "none", "look")
  <2> DEFINE new == [job EXCEPT !.found = TRUE]
  <2>1. new \in Job /\ new.state = "searching" /\ new.rec = job.rec
    <3>1. new \in Job BY <1>2, EditTyped
    <3>2. new.state = "searching" /\ new.rec = job.rec BY <1>2, <1>3 DEF Job
    <3> QED BY <3>1, <3>2
  <2>2. Write(sync, new, "none", "look") BY <1>5
  <2> HIDE DEF new
  <2>3. Calm(new, batch'[sync.id]) BY <1>1, <1>3, <2>1 DEF Calm
  <2> QED BY <1>1, <1>4, <2>1, <2>2, <2>3, QuietSave, FollowingNames
<1>6. CASE Write(sync, [job EXCEPT !.att = job.att - 1], "none", "next")
  <2> DEFINE new == [job EXCEPT !.att = job.att - 1]
  <2>1. job.att - 1 \in Nat
    <3>1. /\ hist[sync.id].searches \in Nat /\ hist[sync.id].searches + 1 <= job.att /\ job.att \in Nat
      BY <1>1, <1>2, PastTyped, FieldsTyped DEF IInv, Stands
    <3> QED BY <3>1
  <2>2. new \in Job /\ new.state = "searching" /\ new.rec = job.rec
    <3>1. new \in Job BY <1>2, <2>1, EditTyped
    <3>2. new.state = "searching" /\ new.rec = job.rec BY <1>2, <1>3 DEF Job
    <3> QED BY <3>1, <3>2
  <2>3. Write(sync, new, "none", "next") BY <1>6
  <2> HIDE DEF new
  <2>4. Calm(new, batch'[sync.id]) BY <1>1, <1>3, <2>2 DEF Calm
  <2> QED BY <1>1, <1>4, <2>2, <2>3, <2>4, QuietSave, FollowingNames
<1>7. CASE Fail(sync) BY <1>1, <1>3, <1>7, QuietFail
<1> QED BY <1>5, <1>6, <1>7 DEF Search

\* Results are judged while nothing downloads.
LEMMA LookQuiet == ASSUME IInv, QInv, Look PROVE QInv'
<1>1. Using /\ sync.pc = "look" /\ UNCHANGED <<jobs, act, config, batch, have>>
  BY DEF Using, Look, outside
<1>2. /\ job \in Job /\ Calm(job, batch[sync.id]) /\ Stands(sync) /\ sync \in Syncs
      /\ config \in {"ok", "unlinked"} /\ sync.cfg = config /\ job = jobs[sync.id]
  BY <1>1, AtUse
<1>3. batch[sync.id] \notin {"queued", "active"}
  BY <1>1, <1>2 DEF Stands, Calm, Searched
<1>4. CASE Leave BY <1>1, <1>4, QuietLeave
<1>5. CASE Fail(sync) BY <1>1, <1>3, <1>5, QuietFail
<1>6. CASE Write(sync, [job EXCEPT !.state = "failed", !.review = TRUE], "needs_review", "report")
  <2> DEFINE new == [job EXCEPT !.state = "failed", !.review = TRUE]
  <2>1. new \in Job /\ new.state = "failed" /\ new.rec = job.rec
    <3>1. "failed" \in States BY DEF States, Conflicting
    <3>2. new \in Job BY <1>2, <3>1, EditTyped
    <3>3. new.state = "failed" /\ new.rec = job.rec BY <1>2 DEF Job
    <3> QED BY <3>2, <3>3
  <2>2. Write(sync, new, "needs_review", "report") BY <1>6
  <2> HIDE DEF new
  <2>3. Calm(new, batch'[sync.id]) BY <1>1, <1>3, <2>1 DEF Calm
  <2>4. "needs_review" \in ActionStates BY DEF ActionStates
  <2> QED BY <1>1, <2>1, <2>2, <2>3, <2>4, QuietSave, FollowingNames
<1>7. ASSUME NEW p, sync' = [sync EXCEPT !.pc = "enqueue", !.peer = p] PROVE QInv'
  <2>1. /\ sync'.pc = "enqueue" /\ sync'.left = sync.left /\ sync'.cfg = sync.cfg
        /\ sync'.seen = sync.seen /\ sync'.snap = sync.snap
    BY <1>2, <1>7 DEF Syncs
  <2> QED BY <1>1, <1>2, <2>1, QuietMove
<1> QED BY <1>4, <1>5, <1>6, <1>7 DEF Look

\* The release is enqueued, and the row will say so.
LEMMA EnqueueQuiet == ASSUME IInv, QInv, Enqueue, UNCHANGED faults PROVE QInv'
<1>1. Using /\ sync.pc = "enqueue" /\ UNCHANGED <<jobs, act, config, have>>
  BY DEF Using, Enqueue
<1>2. /\ job \in Job /\ Calm(job, batch[sync.id]) /\ Stands(sync) /\ sync \in Syncs
      /\ sync.id \in Ids /\ TypeOK /\ job = jobs[sync.id]
  BY <1>1, AtUse
<1>3. batch[sync.id] \notin {"queued", "active"} /\ sync.peer \in Peers
  BY <1>1, <1>2 DEF Stands, Calm, Searched
<1>4. ~Fault BY <1>2, FaultTyped
<1>5. CASE Fail(sync) /\ UNCHANGED batch BY <1>1, <1>3, <1>5, QuietFail
<1>6. CASE /\ batch' = [batch EXCEPT ![sync.id] = "queued"]
           /\ Write(sync, [job EXCEPT !.state = "queued", !.peer = sync.peer], "queued", "report")
  <2> DEFINE new == [job EXCEPT !.state = "queued", !.peer = sync.peer]
  <2>1. new \in Job /\ new.state = "queued" /\ new.rec = job.rec
    <3>1. "queued" \in States BY DEF States, Conflicting, Active
    <3>2. new \in Job BY <1>2, <1>3, <3>1, EditTyped
    <3>3. new.state = "queued" /\ new.rec = job.rec BY <1>2 DEF Job
    <3> QED BY <3>2, <3>3
  <2>2. Write(sync, new, "queued", "report") BY <1>6
  <2> HIDE DEF new
  <2>3. Calm(new, batch'[sync.id]) BY <2>1 DEF Calm, Searched
  <2>4. "queued" \in ActionStates BY DEF ActionStates, Following
  <2>5. \A j \in Ids \ {sync.id} : batch'[j] = batch[j] BY <1>2, <1>6 DEF TypeOK
  <2> QED BY <1>1, <2>1, <2>2, <2>3, <2>4, <2>5, QuietSave, FollowingNames
<1> QED BY <1>4, <1>5, <1>6 DEF Enqueue

\* What is read of the downloads is so.
LEMMA FetchQuiet == ASSUME IInv, QInv, Fetch, UNCHANGED faults PROVE QInv'
<1>1. Using /\ sync.pc = "transfers" /\ UNCHANGED <<jobs, act, config, batch, have>>
  BY DEF Using, Fetch, outside
<1>2. /\ sync \in Syncs /\ config \in {"ok", "unlinked"} /\ sync.cfg = config /\ TypeOK
      /\ batch \in [Ids -> Transfers]
  BY <1>1, AtUse DEF TypeOK
<1>3. ~Fault BY <1>2, FaultTyped
<1>4. /\ sync'.pc = "transfers" /\ sync'.cfg = sync.cfg /\ sync'.snap = batch
      /\ sync'.seen = "yes"
  BY <1>2, <1>3 DEF Fetch, Syncs
<1>5. Rows' = Rows BY <1>1 DEF Rows
<1>6. CalmRows' BY <1>1, <1>4, <1>5 DEF QInv, CalmRows, Current, Calm
<1>7. Configured' BY <1>1, <1>2, <1>4 DEF QInv, Configured
<1>8. Told' BY <1>1, <1>4 DEF QInv, Told
<1>9. Reports' BY <1>1, <1>4, <1>5 DEF QInv, Reports, Completed
<1> QED BY <1>6, <1>7, <1>8, <1>9 DEF QInv

\* The job under work moves on to another state.
LEMMA QuietState ==
  ASSUME IInv, QInv, Using, NEW to \in States \ Searched, NEW st \in ActionStates,
         Write(sync, [job EXCEPT !.state = to], st, "report"),
         UNCHANGED <<jobs, act, config, batch, have>>,
         st = "added" => to = "completed", st \in Following => to \in Active,
         to \in {"import_pending", "cancelled", "completed"} => batch[sync.id] = "done",
         to # "failed", to = "completed" => (~job.lid \/ job.rel \in have)
  PROVE  QInv'
<1>1. job \in Job BY AtUse
<1> DEFINE new == [job EXCEPT !.state = to]
<1>2. /\ new \in Job /\ new.state = to /\ new.rec = job.rec /\ new.lid = job.lid
      /\ new.rel = job.rel
  BY <1>1, EditTyped DEF Job
<1>3. Write(sync, new, st, "report") OBVIOUS
<1> HIDE DEF new
<1>4. Calm(new, batch'[sync.id]) BY <1>2 DEF Calm
<1> QED BY <1>2, <1>3, <1>4, QuietSave

\* What is written of a download is so.
LEMMA TransferredQuiet == ASSUME IInv, QInv, Transferred PROVE QInv'
<1>1. Using /\ sync.pc = "transfers" /\ UNCHANGED <<jobs, act, config, batch, have>>
  BY DEF Using, Transferred, outside
<1>2. /\ sync \in Syncs /\ config \in {"ok", "unlinked"} /\ sync.cfg = config /\ TypeOK
      /\ sync.id \in Ids
  BY <1>1, AtUse
<1>3. sync.seen = "yes" BY <1>1, <1>2 DEF QInv, Told, Transferred, Syncs
<1> DEFINE st == sync.snap[sync.id]
<1>4. st \in {"done", "failed"} => batch[sync.id] = st BY <1>1, <1>2, <1>3 DEF QInv, Told
<1>5. \/ st \in {"done", "failed"} /\ Fail(sync)
      \/ \E to \in {"downloading", "queued"} : Write(sync, [job EXCEPT !.state = to], to, "report")
      \/ st = "done" /\ ~job.lid /\ Write(sync, [job EXCEPT !.state = "completed"], "added", "report")
      \/ st = "done" /\ Goto("import")
  BY <1>3 DEF Transferred
<1> HIDE DEF st
<1>6. CASE st \in {"done", "failed"} /\ Fail(sync)
  <2>1. batch[sync.id] \notin {"queued", "active"} BY <1>4, <1>6
  <2> QED BY <1>1, <1>6, <2>1, QuietFail
<1>7. ASSUME NEW to \in {"downloading", "queued"},
             Write(sync, [job EXCEPT !.state = to], to, "report")
      PROVE  QInv'
  <2>1. to \in States \ Searched /\ to \in ActionStates
    BY DEF States, Conflicting, Active, Searched, ActionStates, Following
  <2> QED BY <1>1, <1>7, <2>1, QuietState, FollowingNames
<1>8. CASE /\ st = "done" /\ ~job.lid
           /\ Write(sync, [job EXCEPT !.state = "completed"], "added", "report")
  <2>1. "completed" \in States \ Searched /\ "added" \in ActionStates
    BY DEF States, Searched, ActionStates
  <2> QED BY <1>1, <1>4, <1>8, <2>1, QuietState, FollowingNames
<1>9. CASE st = "done" /\ Goto("import")
  <2>1. /\ sync'.pc = "import" /\ sync'.left = sync.left /\ sync'.cfg = sync.cfg
        /\ sync'.seen = sync.seen /\ sync'.snap = sync.snap /\ sync'.id = sync.id
    BY <1>2, <1>9 DEF Goto, Syncs
  <2> QED BY <1>1, <1>2, <1>4, <1>9, <2>1, QuietMove
<1> QED BY <1>5, <1>6, <1>7, <1>8, <1>9

\* What is put together came down.
LEMMA BuildQuiet == ASSUME IInv, QInv, Build PROVE QInv'
<1>1. Using /\ sync.pc = "import" /\ UNCHANGED <<jobs, act, config, batch, have>>
  BY DEF Using, Build, outside
<1>2. /\ sync \in Syncs /\ config \in {"ok", "unlinked"} /\ sync.cfg = config /\ TypeOK
  BY <1>1, AtUse
<1>3. batch[sync.id] = "done" BY <1>1 DEF QInv, Told
<1>4. CASE Fail(sync) BY <1>1, <1>3, <1>4, QuietFail
<1>5. CASE Write(sync, [job EXCEPT !.state = "cancelled"], "skipped", "report")
  <2>1. "cancelled" \in States \ Searched /\ "skipped" \in ActionStates
    BY DEF States, Searched, ActionStates
  <2> QED BY <1>1, <1>3, <1>5, <2>1, QuietState, FollowingNames
<1>6. CASE Goto("submit")
  <2>1. /\ sync'.pc = "submit" /\ sync'.left = sync.left /\ sync'.cfg = sync.cfg
        /\ sync'.seen = sync.seen /\ sync'.snap = sync.snap /\ sync'.id = sync.id
    BY <1>2, <1>6 DEF Goto, Syncs
  <2> QED BY <1>1, <1>2, <1>3, <2>1, QuietMove
<1> QED BY <1>4, <1>5, <1>6 DEF Build

\* What is imported came down.
LEMMA SubmitQuiet == ASSUME IInv, QInv, Submit, UNCHANGED faults PROVE QInv'
<1>1. Using /\ sync.pc = "submit" /\ UNCHANGED <<jobs, act, config, batch, have>>
  BY DEF Using, Submit
<1>2. job \in Job /\ TypeOK BY <1>1, AtUse
<1>3. batch[sync.id] = "done" /\ ~Fault BY <1>1, <1>2, FaultTyped DEF QInv, Told
<1>4. CASE Fail(sync) BY <1>1, <1>3, <1>4, QuietFail
<1>5. CASE Write(sync, [job EXCEPT !.state = "import_pending", !.checks = 0],
                 "import_pending", "report")
  <2> DEFINE new == [job EXCEPT !.state = "import_pending", !.checks = 0]
  <2>1. new \in Job /\ new.state = "import_pending" /\ new.rec = job.rec
    <3>1. "import_pending" \in States /\ 0 \in 0..MaxChecks
      BY SlskdAssumption DEF States, Conflicting, Active
    <3>2. new \in Job BY <1>2, <3>1, EditTyped
    <3>3. new.state = "import_pending" /\ new.rec = job.rec BY <1>2 DEF Job
    <3> QED BY <3>2, <3>3
  <2>2. Write(sync, new, "import_pending", "report") BY <1>5
  <2> HIDE DEF new
  <2>3. Calm(new, batch'[sync.id]) BY <1>1, <1>3, <2>1 DEF Calm, Searched
  <2>4. "import_pending" \in ActionStates BY DEF ActionStates, Following
  <2> QED BY <1>1, <2>1, <2>2, <2>3, <2>4, QuietSave, FollowingNames
<1> QED BY <1>3, <1>4, <1>5 DEF Submit

\* What is called imported is in Lidarr.
LEMMA CheckQuiet == ASSUME IInv, QInv, Check, UNCHANGED faults PROVE QInv'
<1>1. Using /\ sync.pc = "check" /\ UNCHANGED <<jobs, act, config, batch, have>>
  BY DEF Using, Check, outside
<1>2. /\ job \in Job /\ TypeOK /\ Stands(sync) /\ Calm(job, batch[sync.id]) /\ job = jobs[sync.id]
      /\ MaxChecks \in Nat
  BY <1>1, AtUse, SlskdAssumption
<1>3. job.state = "import_pending" /\ batch[sync.id] = "done" /\ ~Fault
  BY <1>1, <1>2, FaultTyped DEF Stands, Calm
<1>4. CASE Fail(sync) BY <1>1, <1>3, <1>4, QuietFail
<1>5. CASE rel \in have /\ Write(sync, [job EXCEPT !.state = "completed"], "added", "report")
  <2>1. "completed" \in States \ Searched /\ "added" \in ActionStates
    BY DEF States, Searched, ActionStates
  <2> QED BY <1>1, <1>3, <1>5, <2>1, QuietState, FollowingNames DEF rel
<1>6. CASE /\ ~(job.checks + 1 >= MaxChecks)
           /\ Write(sync, [job EXCEPT !.checks = job.checks + 1], "import_pending", "report")
  <2> DEFINE new == [job EXCEPT !.checks = job.checks + 1]
  <2>1. new \in Job /\ new.state = "import_pending" /\ new.rec = job.rec
    <3>1. job.checks \in 0..MaxChecks BY <1>2, FieldsTyped
    <3>2. job.checks + 1 \in 0..MaxChecks BY <1>2, <1>6, <3>1
    <3>3. new \in Job BY <1>2, <3>2, EditTyped
    <3>4. new.state = "import_pending" /\ new.rec = job.rec BY <1>2, <1>3 DEF Job
    <3> QED BY <3>3, <3>4
  <2>2. Write(sync, new, "import_pending", "report") BY <1>6
  <2> HIDE DEF new
  <2>3. Calm(new, batch'[sync.id]) BY <1>1, <1>3, <2>1 DEF Calm, Searched
  <2>4. "import_pending" \in ActionStates BY DEF ActionStates, Following
  <2> QED BY <1>1, <2>1, <2>2, <2>3, <2>4, QuietSave, FollowingNames
<1> QED BY <1>3, <1>4, <1>5, <1>6 DEF Check

\* The write of a job.
LEMMA SaveQuiet == ASSUME IInv, QInv, Save PROVE QInv'
<1>1. /\ TypeOK /\ sync.pc = "save" /\ sync.pc \in JobSteps
      /\ UNCHANGED <<act, config, batch, have>>
  BY DEF IInv, Save, JobSteps, outside
<1>2. /\ sync \in Syncs /\ sync.id \in Rows \ sync.left /\ sync.id \in Ids /\ job = jobs[sync.id]
      /\ sync.row \in Job /\ sync.then \in {"next", "search", "look", "report"}
  BY <1>1, AtWork DEF Syncs
<1>3. /\ job.state \in Active /\ sync.row.rec = job.rec
      /\ sync.st = "added" => sync.row.state = "completed"
      /\ sync.st \in Following => sync.row.state \in Active
  BY <1>1, <1>2 DEF QInv, Reports
<1> DEFINE new == [sync.row EXCEPT !.age = 0]
<1>4. jobs' = [jobs EXCEPT ![sync.id] = new] /\ (IF sync.then = "next" THEN Leave ELSE Goto(sync.then))
  BY <1>3 DEF Save, Conflicting
<1>5. /\ new \in Job /\ new.rel = sync.row.rel /\ new.rec = sync.row.rec
      /\ new.state = sync.row.state /\ new.lid = sync.row.lid
  BY <1>2 DEF Job
<1> HIDE DEF new
<1>6. /\ Len(jobs') = Len(jobs) /\ \A j \in Rows : jobs'[j] = (IF j = sync.id THEN new ELSE jobs[j])
  BY <1>1, <1>2, <1>4, <1>5, ExceptTyped
<1>7. Rows' = Rows BY <1>6 DEF Rows
<1>8. /\ sync'.pc \in {"next", "search", "look", "report"} /\ sync'.left = sync.left
      /\ sync'.cfg = sync.cfg /\ sync'.seen = sync.seen /\ sync'.snap = sync.snap
      /\ sync'.pc \in {"search", "look"} => sync.then \in {"search", "look"}
      /\ sync'.pc = "report" => sync'.row = sync.row /\ sync'.st = sync.st /\ sync'.id = sync.id
  <2>1. CASE sync.then = "next" BY <1>1, <1>4, <2>1, LeaveTyped
  <2>2. CASE sync.then # "next"
    <3>1. Goto(sync.then) BY <1>4, <2>2
    <3> QED BY <1>2, <2>2, <3>1 DEF Goto, Syncs
  <2> QED BY <2>1, <2>2
<1>9. CalmRows'
  <2> SUFFICES ASSUME NEW j \in Rows PROVE Calm(Current(j), batch[j])'
    BY <1>7 DEF CalmRows
  <2>1. Calm(Current(j), batch[j]) BY DEF QInv, CalmRows
  <2>2. CASE j = sync.id BY <1>1, <1>2, <1>5, <1>6, <1>8, <2>1, <2>2 DEF Current, Calm
  <2>3. CASE j # sync.id BY <1>1, <1>6, <1>8, <2>1, <2>3 DEF Current, Calm
  <2> QED BY <2>2, <2>3
<1>10. Configured' BY <1>1, <1>8 DEF QInv, Configured, Using
<1>11. Told' BY <1>1, <1>8 DEF QInv, Told
<1>12. \A r \in Callers : Completed(r) => Completed(r)'
  BY <1>2, <1>3, <1>6, <1>7 DEF Completed, Active
<1>13. (sync'.pc = "report" /\ sync'.st = "added") => Completed(sync.row.rec)'
  BY <1>2, <1>3, <1>5, <1>6, <1>7, <1>8 DEF Completed
<1>14. Reports'
  <2>1. \A r \in Recs : act'[r] = "added" => Completed(r)'
    BY <1>1, <1>12 DEF QInv, Reports, Callers
  <2>2. (sync'.pc = "report" /\ sync'.st \in Following) =>
          jobs'[sync'.id].state \in Active /\ jobs'[sync'.id].rec = sync'.row.rec
    BY <1>2, <1>3, <1>5, <1>6, <1>8
  <2> QED BY <1>8, <1>13, <2>1, <2>2 DEF Reports
<1> QED BY <1>9, <1>10, <1>11, <1>14 DEF QInv

\* What the jobs add up to is there.
LEMMA ReportQuiet == ASSUME IInv, QInv, Report PROVE QInv'
<1>1. TypeOK /\ sync.pc = "report" /\ UNCHANGED <<jobs, act, config, batch, have>>
  BY DEF IInv, Report, outside
<1>2. CASE Leave BY <1>1, <1>2, QuietLeave
<1>3. CASE sync' = [sync EXCEPT !.pc = "write", !.read = Reported(sync.row.rec, sync.st)]
  <2>1. /\ sync'.pc = "write" /\ sync'.read = Reported(sync.row.rec, sync.st)
        /\ sync'.row = sync.row /\ sync'.left = sync.left
        /\ sync'.cfg = sync.cfg /\ sync'.seen = sync.seen /\ sync'.snap = sync.snap
    BY <1>1, <1>3 DEF TypeOK, Syncs
  <2>2. Reported(sync.row.rec, sync.st) = "added" => Completed(sync.row.rec)
    <3> DEFINE r == sync.row.rec
    <3>1. ASSUME Reported(r, sync.st) = "added" PROVE sync.st = "added" \/ Completed(r)
      <4>1. CASE \E m \in {jobs[j] : j \in {i \in Rows : jobs[i].rec = r}} : m.state \in {"completed"}
        BY <4>1 DEF Completed
      <4>2. CASE ~ \E m \in {jobs[j] : j \in {i \in Rows : jobs[i].rec = r}} : m.state \in {"completed"}
        BY <3>1, <4>2 DEF Reported
      <4> QED BY <4>1, <4>2
    <3>2. sync.st = "added" => Completed(r) BY <1>1 DEF QInv, Reports
    <3> QED BY <3>1, <3>2
  <2>3. Rows' = Rows BY <1>1 DEF Rows
  <2>4. CalmRows' BY <1>1, <2>1, <2>3 DEF QInv, CalmRows, Current, Calm
  <2>5. Configured' BY <1>1, <2>1 DEF QInv, Configured, Using
  <2>6. Told' BY <1>1, <2>1 DEF QInv, Told
  <2>7. Reports' BY <1>1, <2>1, <2>2, <2>3 DEF QInv, Reports, Completed
  <2> QED BY <2>4, <2>5, <2>6, <2>7 DEF QInv
<1> QED BY <1>2, <1>3 DEF Report

\* What is written to the action is there.
LEMMA WriteActionQuiet == ASSUME IInv, QInv, WriteAction PROVE QInv'
<1>1. TypeOK /\ sync.pc = "write" /\ UNCHANGED <<jobs, config, batch, have>> /\ Leave
  BY DEF IInv, WriteAction, outside
<1>2. /\ sync'.pc = "next" /\ sync'.left = sync.left /\ sync'.cfg = sync.cfg
      /\ sync'.seen = sync.seen /\ sync'.snap = sync.snap
  BY <1>1, LeaveTyped
<1>3. Rows' = Rows BY <1>1 DEF Rows
<1>4. CalmRows' BY <1>1, <1>2, <1>3 DEF QInv, CalmRows, Current, Calm
<1>5. Configured' BY <1>1, <1>2 DEF QInv, Configured, Using
<1>6. Told' BY <1>1, <1>2 DEF QInv, Told
<1>7. \A r \in Recs : act'[r] = "added" => Completed(r)
  <2> SUFFICES ASSUME NEW r \in Recs, act'[r] = "added" PROVE Completed(r)
    OBVIOUS
  <2>1. act' = [act EXCEPT ![sync.row.rec] = sync.read] /\ act \in [Recs -> ActionStates]
    BY <1>1 DEF WriteAction, TypeOK
  <2>2. CASE r = sync.row.rec
    <3>1. sync.read = "added" BY <2>1, <2>2
    <3> QED BY <1>1, <2>2, <3>1 DEF QInv, Reports
  <2>3. CASE r # sync.row.rec
    <3>1. act[r] = "added" BY <2>1, <2>3
    <3> QED BY <3>1 DEF QInv, Reports
  <2> QED BY <2>2, <2>3
<1>8. Reports' BY <1>1, <1>2, <1>3, <1>7 DEF Reports, Completed
<1> QED BY <1>4, <1>5, <1>6, <1>8 DEF QInv

\* The pass begins, goes through the intake, reads the list, and ends.
LEMMA PassQuiet ==
  ASSUME IInv, QInv, Trigger \/ IntakeDone \/ IntakeFails \/ List \/ SyncDone
  PROVE  QInv'
<1>1. /\ TypeOK /\ sync \in Syncs /\ sync.pc \in {"idle", "intake", "list", "next"}
      /\ UNCHANGED <<jobs, act, config, batch, have>> /\ Rows' = Rows
  BY DEF IInv, TypeOK, Trigger, IntakeDone, IntakeFails, List, SyncDone, outside, Rows
<1>2. sync'.pc \in {"idle", "intake", "list", "next"} /\ sync'.seen \in {"no", sync.seen}
      /\ (sync'.pc # "idle" => sync'.cfg = config) /\ (sync'.pc \in {"next"} => sync'.seen = "no")
      /\ (sync'.pc \in {"idle", "intake", "list"} => sync'.seen = "no")
  <2>1. Resting.pc = "idle" /\ Resting.seen = "no" /\ Resting \in Syncs
    BY RestTyped DEF Resting
  <2>2. CASE Trigger BY <2>1, <2>2 DEF Trigger, Syncs
  <2>3. CASE IntakeDone BY <1>1, <2>3 DEF IntakeDone, Syncs, QInv, Configured, Told
  <2>4. CASE IntakeFails \/ SyncDone BY <2>1, <2>4 DEF IntakeFails, SyncDone
  <2>5. CASE List
    <3> DEFINE L == {j \in ActiveRows : Cardinality({i \in ActiveRows : i < j}) < Limit}
    <3>1. sync' = [sync EXCEPT !.pc = "next", !.cfg = config, !.left = L] /\ sync.pc = "list"
      BY <2>5 DEF List
    <3> HIDE DEF L
    <3>2. sync'.pc = "next" /\ sync'.cfg = config /\ sync'.seen = sync.seen BY <1>1, <3>1 DEF Syncs
    <3>3. sync.seen = "no" BY <3>1 DEF QInv, Told
    <3> QED BY <1>1, <3>2, <3>3
  <2> QED BY <2>2, <2>3, <2>4, <2>5
<1>3. CalmRows' BY <1>1, <1>2 DEF QInv, CalmRows, Current, Calm
<1>4. Configured' BY <1>1, <1>2 DEF QInv, Configured, Using
<1>5. Told' BY <1>2 DEF Told
<1>6. Reports' BY <1>1, <1>2 DEF QInv, Reports, Completed
<1> QED BY <1>3, <1>4, <1>5, <1>6 DEF QInv

\* Steps of the callers, and outside, that write no row.
LEMMA QuietAside ==
  ASSUME IInv, QInv, UNCHANGED <<jobs, config>>,
         sync' = sync \/ (sync' = Resting /\ sync.pc # "save"),
         have \subseteq have', \A r \in Recs : act'[r] = "added" => act[r] = "added",
         \A j \in Ids : batch'[j] = batch[j] \/ (batch[j] \in {"queued", "active"} /\ j \in Rows)
  PROVE  QInv'
<1>1. Rows' = Rows /\ Resting.pc = "idle" /\ Resting.seen = "no" /\ Rows \subseteq Ids
      /\ sync.id \in 0..MaxJobs /\ sync.left \subseteq Ids
      /\ (sync.pc \in {"transfers", "import", "submit"} => sync.id \in Ids)
  <2>1. Rows \subseteq Ids /\ sync \in Syncs BY RowsTyped DEF IInv, TypeOK
  <2>2. sync.pc \in {"transfers", "import", "submit"} => sync.id \in Rows
    BY DEF IInv, Fits, Listed, JobSteps
  <2> QED BY <2>1, <2>2 DEF Rows, Resting, Syncs
<1>2. CalmRows'
  <2> SUFFICES ASSUME NEW j \in Rows PROVE Calm(Current(j), batch[j])'
    BY <1>1 DEF CalmRows
  <2>1. Calm(Current(j), batch[j]) BY DEF QInv, CalmRows
  <2>2. CASE sync' = sync
    <3>1. Current(j)' = Current(j) BY <2>2 DEF Current
    <3>2. CASE batch'[j] = batch[j] BY <2>1, <3>1, <3>2 DEF Calm
    <3>3. CASE batch[j] \in {"queued", "active"} BY <2>1, <3>1, <3>3 DEF Calm
    <3> QED BY <1>1, <3>2, <3>3
  <2>3. CASE sync' = Resting /\ sync.pc # "save"
    <3>1. Current(j)' = Current(j) BY <1>1, <2>3 DEF Current
    <3>2. CASE batch'[j] = batch[j] BY <2>1, <3>1, <3>2 DEF Calm
    <3>3. CASE batch[j] \in {"queued", "active"} BY <2>1, <3>1, <3>3 DEF Calm
    <3> QED BY <1>1, <3>2, <3>3
  <2> QED BY <2>2, <2>3
<1>3. Configured'
  <2>1. config \notin {"ok", "unlinked"} => \A j \in Ids : batch'[j] = "none"
    BY DEF QInv, Configured
  <2> QED BY <1>1, <2>1 DEF QInv, Configured, Using
<1>4. Told' BY <1>1 DEF QInv, Told
<1>5. Reports' BY <1>1 DEF QInv, Reports, Completed
<1> QED BY <1>2, <1>3, <1>4, <1>5 DEF QInv

\* A step that adds a row or starts a failed one again, or lets one grow old.
LEMMA QuietRows ==
  ASSUME IInv, QInv, UNCHANGED <<sync, act, config, batch, have>>,
         Rows \subseteq Rows', Rows' \subseteq Ids,
         \A j \in Rows : \/ /\ jobs'[j].state = jobs[j].state /\ jobs'[j].rec = jobs[j].rec
                            /\ jobs'[j].lid = jobs[j].lid /\ jobs'[j].rel = jobs[j].rel
                         \/ jobs[j].state = "failed" /\ jobs'[j].state = "pending",
         \A j \in Rows' \ Rows : jobs'[j].state = "pending"
  PROVE  QInv'
<1>1. sync.pc \in JobSteps => sync.id \in Rows BY DEF IInv, Fits, Listed
<1>2. sync.pc = "save" => sync.id \in Rows /\ jobs[sync.id].state \in Active
  BY <1>1 DEF QInv, Reports, JobSteps
<1>3. CalmRows'
  <2> SUFFICES ASSUME NEW j \in Rows' PROVE Calm(Current(j), batch[j])'
    BY DEF CalmRows
  <2>1. CASE j \in Rows' \ Rows
    <3>1. batch[j] = "none" BY <2>1 DEF IInv, NoPast
    <3>2. Current(j)' = jobs'[j] BY <1>2, <2>1 DEF Current
    <3> QED BY <2>1, <3>1, <3>2 DEF Calm, Searched
  <2>2. CASE j \in Rows
    <3>1. Calm(Current(j), batch[j]) BY <2>2 DEF QInv, CalmRows
    <3>2. CASE sync.pc = "save" /\ sync.id = j
      <4>1. Current(j)' = Current(j) BY <3>2 DEF Current
      <4> QED BY <3>1, <4>1 DEF Calm
    <3>3. CASE ~(sync.pc = "save" /\ sync.id = j)
      <4>1. Current(j) = jobs[j] /\ Current(j)' = jobs'[j] BY <3>3 DEF Current
      <4> QED BY <2>2, <3>1, <4>1 DEF Calm, Searched
    <3> QED BY <3>2, <3>3
  <2> QED BY <2>1, <2>2
<1>4. Configured' BY DEF QInv, Configured, Using
<1>5. Told' BY DEF QInv, Told
<1>6. \A r \in Callers : Completed(r) => Completed(r)' BY DEF Completed
<1>7. Reports'
  <2>1. sync.pc = "save" => /\ jobs'[sync.id].state \in Active
                            /\ sync.row.rec = jobs'[sync.id].rec
    BY <1>2 DEF QInv, Reports, Active
  <2>1a. (sync.pc = "report" /\ sync.st \in Following) =>
           jobs'[sync.id].state \in Active /\ jobs'[sync.id].rec = sync.row.rec
    BY <1>1 DEF QInv, Reports, Active, JobSteps
  <2>2. sync.row.rec \in Callers
    <3>1. sync.row \in Job BY DEF IInv, TypeOK, Syncs
    <3> QED BY <3>1, FieldsTyped
  <2>3. /\ (sync.pc = "report" /\ sync.st = "added") => Completed(sync.row.rec)'
        /\ (sync.pc = "write" /\ sync.read = "added") => Completed(sync.row.rec)'
    BY <1>6, <2>2 DEF QInv, Reports, Completed
  <2>4. \A r \in Recs : act[r] = "added" => Completed(r)'
    BY <1>6 DEF QInv, Reports, Callers
  <2> QED BY <2>1, <2>1a, <2>3, <2>4 DEF QInv, Reports
<1> QED BY <1>3, <1>4, <1>5, <1>7 DEF QInv

\* A new row has no download.
LEMMA InsertQuiet == ASSUME IInv, IInv', QInv, NEW c \in Callers, Insert(c) PROVE QInv'
<1>1. TypeOK /\ UNCHANGED <<sync, act, config, batch, have>> BY DEF IInv, Insert, outside
<1>2. CASE UNCHANGED jobs
  <2>1. Rows' = Rows /\ Rows \subseteq Ids BY <1>1, <1>2, RowsTyped DEF Rows
  <2> QED BY <1>1, <1>2, <2>1, QuietRows
<1> DEFINE row == NewJob(cr[c].rel, c, cr[c].lid)
<1>3. CASE Len(jobs) < MaxJobs /\ jobs' = Append(jobs, row)
  <2>1. row \in Job /\ row.state = "pending"
    <3>1. row \in Job BY <1>1, CallerTyped, NewTyped
    <3> QED BY <3>1 DEF NewJob
  <2> HIDE DEF row
  <2>2. /\ Len(jobs') = Len(jobs) + 1
        /\ (\A j \in Rows : jobs'[j] = jobs[j]) /\ jobs'[Len(jobs) + 1] = row
    BY <1>1, <1>3, <2>1, AppendTyped
  <2>3. Rows \subseteq Rows' /\ Rows' \ Rows = {Len(jobs) + 1}
    <3>1. Len(jobs) \in Nat BY <1>1, RowsTyped
    <3> QED BY <2>2, <3>1 DEF Rows
  <2>4. Rows' \subseteq Ids
    <3>1. Len(jobs) \in Nat BY <1>1, RowsTyped
    <3> QED BY <1>3, <2>2, <3>1, SlskdAssumption DEF Rows, Ids
  <2> QED BY <1>1, <2>1, <2>2, <2>3, <2>4, QuietRows
<1> QED BY <1>2, <1>3 DEF Insert

\* A failed row has no download under way.
LEMMA RetryQuiet == ASSUME IInv, QInv, NEW c \in Callers, Retry(c) PROVE QInv'
<1> DEFINE j == cr[c].id
<1>1. TypeOK /\ cr[c].pc = "retry" /\ j \in Rows /\ UNCHANGED <<config, batch, have>>
  BY DEF IInv, Pointing, Retry, outside
<1>2. CASE UNCHANGED jobs /\ Throw(c)
  <2>1. \A r \in Recs : act'[r] = "added" => act[r] = "added"
    BY <1>1, <1>2 DEF Throw, TypeOK
  <2>2. sync' = sync \/ (sync' = Resting /\ sync.pc # "save")
    BY <1>1, <1>2 DEF Throw, IInv, Taking
  <2> QED BY <1>1, <1>2, <2>1, <2>2, QuietAside
<1>3. CASE UNCHANGED <<jobs, act, sync>> BY <1>1, <1>3, QuietAside
<1> DEFINE row == [NewJob(cr[c].rel, c, cr[c].lid) EXCEPT
                     !.bad = cr[c].bad, !.att = IF c = NoRec THEN jobs[j].att ELSE 0]
<1>4. CASE jobs[j].state = "failed" /\ jobs' = [jobs EXCEPT ![j] = row] /\ UNCHANGED <<act, sync>>
  <2>1. Len(jobs') = Len(jobs) /\ \A i \in Rows : i # j => jobs'[i] = jobs[i]
    <3>1. jobs \in Seq(Job) BY <1>1, RowsTyped
    <3> HIDE DEF row
    <3> QED BY <1>1, <1>4, <3>1 DEF Rows
  <2>2. Rows' = Rows /\ Rows \subseteq Ids BY <1>1, <2>1, RowsTyped DEF Rows
  <2>3. jobs'[j].state = "pending"
    <3>1. jobs'[j] = row
      <4>1. jobs \in Seq(Job) BY <1>1, RowsTyped
      <4> HIDE DEF row
      <4> QED BY <1>1, <1>4, <4>1 DEF Rows
    <3>2. row.state = "pending" BY DEF NewJob
    <3> QED BY <3>1, <3>2
  <2> QED BY <1>1, <1>4, <2>1, <2>2, <2>3, QuietRows
<1> QED BY <1>2, <1>3, <1>4 DEF Retry

\* Age changes nothing else.
LEMMA ElapseQuiet == ASSUME IInv, QInv, NEW j \in Ids, Elapse(j) PROVE QInv'
<1>1. TypeOK /\ j \in Rows /\ UNCHANGED <<sync, act, config, batch, have>>
  BY DEF IInv, Elapse, outside
<1> DEFINE row == [jobs[j] EXCEPT !.age = jobs[j].age + 1]
<1>2. jobs[j] \in Job /\ jobs \in Seq(Job) BY <1>1, RowsTyped
<1>3. jobs' = [jobs EXCEPT ![j] = row] BY DEF Elapse
<1>4. /\ row.state = jobs[j].state /\ row.rec = jobs[j].rec /\ row.lid = jobs[j].lid
      /\ row.rel = jobs[j].rel
  BY <1>2 DEF Job
<1> HIDE DEF row
<1>5. /\ Len(jobs') = Len(jobs) /\ jobs'[j] = row
      /\ \A i \in Rows : i # j => jobs'[i] = jobs[i]
  BY <1>1, <1>2, <1>3 DEF Rows
<1>6. Rows' = Rows /\ Rows \subseteq Ids BY <1>1, <1>5, RowsTyped DEF Rows
<1>7. \A i \in Rows : /\ jobs'[i].state = jobs[i].state /\ jobs'[i].rec = jobs[i].rec
                      /\ jobs'[i].lid = jobs[i].lid /\ jobs'[i].rel = jobs[i].rel
  BY <1>4, <1>5
<1> QED BY <1>1, <1>6, <1>7, QuietRows

\* Steps of a caller that write no row.
LEMMA CallersQuiet ==
  ASSUME IInv, QInv, NEW c \in Callers,
         \/ \E k \in Releases : Pick(c, k)
         \/ Find(c)
         \/ c \in Recs /\ Approved(c)
         \/ c \in Recs /\ \E rels \in {Covers[c], {}}, lid \in BOOLEAN : Approve(c, rels, lid)
  PROVE  QInv'
<1>1. TypeOK BY DEF IInv
<1>2. CASE \E k \in Releases : Pick(c, k) BY <1>2, QuietAside DEF Pick, outside
<1>3. CASE Find(c)
  <2>1. UNCHANGED <<jobs, config, batch, have>> /\ (Throw(c) \/ UNCHANGED <<act, sync>>)
    BY <1>3 DEF Find, outside
  <2>2. CASE Throw(c)
    <3>1. \A r \in Recs : act'[r] = "added" => act[r] = "added"
      BY <1>1, <2>2 DEF Throw, TypeOK
    <3>2. sync' = sync \/ (sync' = Resting /\ sync.pc # "save")
      BY <1>3, <2>2 DEF Throw, IInv, Taking, Find
    <3> QED BY <2>1, <3>1, <3>2, QuietAside
  <2>3. CASE UNCHANGED <<act, sync>> BY <2>1, <2>3, QuietAside
  <2> QED BY <2>1, <2>2, <2>3
<1>4. CASE c \in Recs /\ Approved(c)
  <2>1. \A r \in Recs : act'[r] = "added" => act[r] = "added"
    BY <1>1, <1>4 DEF Approved, TypeOK
  <2> QED BY <1>4, <2>1, QuietAside DEF Approved, outside
<1>5. CASE c \in Recs /\ \E rels \in {Covers[c], {}}, lid \in BOOLEAN : Approve(c, rels, lid)
  BY <1>5, QuietAside DEF Approve, outside
<1> QED BY <1>2, <1>3, <1>4, <1>5

\* What goes on outside.
LEMMA OutsideQuiet == ASSUME IInv, QInv, Outside, UNCHANGED faults PROVE QInv'
<1>1. TypeOK /\ ~Fault BY FaultTyped DEF IInv
<1>2. ASSUME NEW j \in Ids, NEW to \in Transfers, Transfer(j, to) PROVE QInv'
  <2>1. j \in Rows BY <1>2 DEF Transfer, IInv, NoPast
  <2>2. \A i \in Ids : batch'[i] = batch[i] \/ (batch[i] \in {"queued", "active"} /\ i \in Rows)
    BY <1>1, <1>2, <2>1 DEF Transfer, TypeOK
  <2> QED BY <1>2, <2>2, QuietAside DEF Transfer
<1>3. ASSUME NEW j \in Ids, NEW to \in {"completed", "failed"}, Imported(j, to) PROVE QInv'
  BY <1>3, QuietAside DEF Imported
<1>4. ASSUME NEW k \in Releases, LidarrGets(k) PROVE QInv'
  BY <1>4, QuietAside DEF LidarrGets
<1>5. ASSUME NEW j \in Ids, Elapse(j) PROVE QInv'
  BY <1>5, ElapseQuiet
<1>6. CASE PauseOver BY <1>6, QuietAside DEF PauseOver, outside
<1>7. ASSUME NEW to \in Configs, Edit(to) PROVE QInv'
  BY <1>1, <1>7 DEF Edit
<1> QED BY <1>2, <1>3, <1>4, <1>5, <1>6, <1>7 DEF Outside

-----------------------------------------------------------------------------
(* What holds while nothing goes wrong. *)

\* It holds at the start.
LEMMA InitQuiet == Init => QInv
<1> SUFFICES ASSUME Init PROVE QInv
  OBVIOUS
<1>1. sync.pc = "idle" /\ sync.seen = "no" BY DEF Init, Resting
<1>2. Rows = {} /\ \A j \in Ids : batch[j] = "none" BY DEF Init, Rows, NoDownloads
<1>3. \A r \in Recs : act[r] # "added" BY DEF Init
<1>4. CalmRows BY <1>2 DEF CalmRows
<1>5. Configured BY <1>1, <1>2 DEF Configured, Using
<1>6. Told BY <1>1 DEF Told
<1>7. Reports BY <1>1, <1>3 DEF Reports
<1> QED BY <1>4, <1>5, <1>6, <1>7 DEF QInv

\* A step without an incident keeps what holds without one.
LEMMA NextQuiet == ASSUME IInv, IInv', QInv, [Next]_vars, UNCHANGED faults PROVE QInv'
<1>1. ~Fault /\ NoRec \in Callers BY FaultTyped DEF IInv, Callers
<1>2. ASSUME NEW r \in Recs, NEW rels \in {Covers[r], {}}, NEW lid \in BOOLEAN,
             Approve(r, rels, lid)
      PROVE  QInv'
  <2>1. r \in Callers BY DEF Callers
  <2> QED BY <1>2, <2>1, CallersQuiet
<1>3. ASSUME NEW c \in Callers, CreateStep(c) PROVE QInv'
  BY <1>1, <1>3, CallersQuiet, InsertQuiet, RetryQuiet DEF CreateStep, QueryFails
<1>4. ASSUME NEW r \in Recs, ApproveStep(r) PROVE QInv'
  <2>1. r \in Callers BY DEF Callers
  <2>2. CASE CreateStep(r) BY <1>3, <2>1, <2>2
  <2>3. CASE Approved(r) BY <2>1, <2>3, CallersQuiet
  <2> QED BY <1>4, <2>2, <2>3 DEF ApproveStep
<1>5. CASE Trigger BY <1>5, PassQuiet
<1>6. CASE SyncStep
  <2>1. CASE CreateStep(NoRec) BY <1>1, <1>3, <2>1
  <2>2. CASE IntakeDone \/ IntakeFails \/ List \/ NextJob \/ SyncDone
    BY <2>2, PassQuiet, NextJobQuiet
  <2>3. CASE \E answer \in {"ok", "busy", "error"} : Search(answer) BY <2>3, SearchQuiet
  <2>4. CASE Look \/ Enqueue \/ Fetch \/ Transferred \/ Build \/ Submit \/ Check
    BY <2>4, LookQuiet, EnqueueQuiet, FetchQuiet, TransferredQuiet, BuildQuiet, SubmitQuiet,
       CheckQuiet
  <2>5. CASE Save \/ Report \/ WriteAction BY <2>5, SaveQuiet, ReportQuiet, WriteActionQuiet
  <2>6. CASE WriteFails BY <1>1, <2>6 DEF WriteFails
  <2> QED BY <1>6, <2>1, <2>2, <2>3, <2>4, <2>5, <2>6 DEF SyncStep
<1>7. CASE Outside BY <1>7, OutsideQuiet
<1>8. CASE Crash BY <1>1, <1>8 DEF Crash
<1>9. CASE UNCHANGED vars
  <2>1. UNCHANGED <<jobs, act, sync, config, batch, have>> BY <1>9 DEF vars, outside
  <2> QED BY <2>1, QuietAside
<1> QED BY <1>2, <1>4, <1>5, <1>6, <1>7, <1>8, <1>9 DEF Next

\* Incidents are counted, never forgotten.
LEMMA FaultsGrow == ASSUME TypeOK, [Next]_vars PROVE faults' = faults \/ faults' = faults + 1
<1>1. CASE UNCHANGED vars BY <1>1 DEF vars
<1>2. CASE Next
  BY <1>2 DEF Next, Approve, ApproveStep, CreateStep, Pick, Insert, Find, Retry, QueryFails, Approved,
     Trigger, SyncStep, IntakeDone, IntakeFails, List, NextJob, SyncDone, Search, Look, Enqueue,
     Fetch, Transferred, Build, Submit, Check, Save, WriteFails, Report, WriteAction, Outside,
     Transfer, Imported, LidarrGets, Elapse, PauseOver, Edit, Crash, Fault
<1> QED BY <1>1, <1>2

\* As long as there was no incident, a row, its download and its import agree, what the sync
\* was told is so, and what is reported is there.
THEOREM QuietInvariance == Spec => [](Quiet => QInv)
<1>1. Init => (IInv /\ (Quiet => QInv)) BY InitInv, InitQuiet
<1>2. (IInv /\ (Quiet => QInv)) /\ [Next]_vars => (IInv /\ (Quiet => QInv))'
  <2> SUFFICES ASSUME IInv, Quiet => QInv, [Next]_vars PROVE IInv' /\ (Quiet' => QInv')
    OBVIOUS
  <2>1. IInv' BY NextKeeps
  <2>2. ASSUME Quiet' PROVE QInv'
    <3>1. TypeOK /\ faults \in Nat BY FaultTyped DEF IInv
    <3>2. faults' = faults \/ faults' = faults + 1 BY <3>1, FaultsGrow
    <3>3. faults' = faults /\ Quiet BY <2>2, <3>1, <3>2 DEF Quiet
    <3> QED BY <2>1, <3>3, NextQuiet
  <2> QED BY <2>1, <2>2
<1> QED BY <1>1, <1>2, PTL DEF Spec

\* However many recommendations and the wanted list ask for a release, slskd never downloads
\* it twice at the same time.
THEOREM OneDownload == Spec => []NoSecondDownload
<1>1. IInv /\ (Quiet => QInv) => NoSecondDownload
  <2> SUFFICES ASSUME IInv, QInv, sync.pc = "enqueue", NEW j \in Rows, jobs[j].rel = rel
               PROVE  batch[j] \notin {"queued", "active"}
    BY DEF NoSecondDownload
  <2>1. Using BY DEF Using
  <2>2. sync.id \in Rows /\ job = jobs[sync.id] /\ job.state \in Searched
    BY <2>1, AtUse DEF Stands
  <2>3. Calm(jobs[j], batch[j]) BY DEF QInv, CalmRows, Current
  <2>4. CASE jobs[j].state \in Conflicting
    <3>1. j = sync.id
      BY <2>2, <2>4 DEF IInv, Unique, rel, Searched, Conflicting, Active
    <3> QED BY <2>2, <2>3, <3>1 DEF Calm
  <2>5. CASE jobs[j].state \notin Conflicting
    <3>1. jobs[j].state \in States BY RowsTyped, FieldsTyped DEF IInv
    <3> QED BY <2>3, <2>5, <3>1 DEF Calm, States
  <2> QED BY <2>4, <2>5
<1> QED BY <1>1, Invariance, QuietInvariance, PTL

\* An action says added when a job of the recommendation completed, whose files came down and,
\* if the job is Lidarr's, are in Lidarr.
THEOREM AddedTrue == Spec => []AddedIsReal
<1>1. IInv /\ (Quiet => QInv) => AddedIsReal
  <2> SUFFICES ASSUME IInv, QInv, NEW r \in Recs, act[r] = "added"
               PROVE  \E j \in Mine(r) : /\ jobs[j].state = "completed" /\ batch[j] = "done"
                                         /\ jobs[j].lid => jobs[j].rel \in have
    BY DEF AddedIsReal
  <2>1. PICK j \in Rows : jobs[j].rec = r /\ jobs[j].state = "completed"
    BY DEF QInv, Reports, Completed
  <2>2. ~(sync.pc = "save" /\ sync.id = j)
    BY <2>1 DEF QInv, Reports, Active
  <2>3. Calm(jobs[j], batch[j]) BY <2>2 DEF QInv, CalmRows, Current
  <2>4. j \in Mine(r) BY <2>1 DEF Mine
  <2> QED BY <2>1, <2>3, <2>4 DEF Calm
<1> QED BY <1>1, Invariance, QuietInvariance, PTL

-----------------------------------------------------------------------------
(* The action of a recommendation follows its jobs. *)

\* The releases a caller may ask for.
Asks(c) == IF c = NoRec THEN Wanted ELSE Covers[c]
Owned ==
  /\ \A c \in Callers : /\ cr[c].left \subseteq Asks(c)
                        /\ cr[c].pc \in {"insert", "find", "retry"} => cr[c].rel \in Asks(c)
  /\ \A j \in Rows : jobs[j].rel \in Asks(jobs[j].rec)

Busy(r) == \E j \in Rows : jobs[j].rec = r /\ jobs[j].state \in Active

\* An approval that counts on a job has one, active or about to be reported.
Won(r) == (cr[r].pc # "idle" /\ cr[r].won /\ Alone(r)) => Busy(r) \/ Reporting(r)

\* A job is under way: the action says so, or that the approval failed.
Claims(r) ==
  (/\ cr[r].pc = "idle" /\ Busy(r)
   /\ ~(Reporting(r) /\ (sync.pc # "save" \/ sync.then = "report")))
  => act[r] \in Following \cup {"failed"}

\* The action says that work is under way: there is some, or its end is about to be reported.
Ends(r) ==
  (cr[r].pc = "idle" /\ Alone(r) /\ Mine(r) # {} /\ act[r] \in Following) => Busy(r) \/ Reporting(r)

\* What is about to be written to the action is so.
Written(r) ==
  (sync.pc = "write" /\ sync.row.rec = r) =>
    /\ cr[r].pc = "idle"
    /\ Busy(r) => sync.read \in Following
    /\ (Mine(r) # {} /\ ~Busy(r)) => sync.read \notin Following

FInv == Owned /\ \A r \in Recs : Won(r) /\ Claims(r) /\ Ends(r) /\ Written(r)

\* A step of the sync between reports.
LEMMA FollowMove ==
  ASSUME FInv, UNCHANGED <<jobs, act, cr>>, sync.pc \notin {"save", "report", "write"},
         sync'.pc \notin {"report", "write"}
  PROVE  FInv'
<1>1. Rows' = Rows BY DEF Rows
<1>2. Owned' BY <1>1 DEF FInv, Owned, Asks
<1> SUFFICES ASSUME NEW r \in Recs PROVE Won(r)' /\ Claims(r)' /\ Ends(r)' /\ Written(r)'
  BY <1>2 DEF FInv
<1>3. Won(r) /\ Claims(r) /\ Ends(r) /\ ~Reporting(r) BY DEF FInv, Reporting
<1>4. (Busy(r)' <=> Busy(r)) /\ Mine(r)' = Mine(r) /\ (Alone(r)' <=> Alone(r))
  BY <1>1 DEF Busy, Mine, Alone
<1>5. Won(r)' BY <1>3, <1>4 DEF Won
<1>6. Claims(r)' BY <1>3, <1>4 DEF Claims
<1>7. Ends(r)' BY <1>3, <1>4 DEF Ends
<1>8. Written(r)' BY DEF Written
<1> QED BY <1>5, <1>6, <1>7, <1>8

\* A step outside that changes no row's state.
LEMMA FollowAside ==
  ASSUME FInv, UNCHANGED <<sync, act, cr>>, Rows' = Rows,
         \A j \in Rows : /\ jobs'[j].state = jobs[j].state /\ jobs'[j].rec = jobs[j].rec
                         /\ jobs'[j].rel = jobs[j].rel
  PROVE  FInv'
<1>1. Owned' BY DEF FInv, Owned, Asks
<1> SUFFICES ASSUME NEW r \in Recs PROVE Won(r)' /\ Claims(r)' /\ Ends(r)' /\ Written(r)'
  BY <1>1 DEF FInv
<1>2. Won(r) /\ Claims(r) /\ Ends(r) /\ Written(r) BY DEF FInv
<1>3. /\ Busy(r)' <=> Busy(r)
      /\ Mine(r)' = Mine(r) /\ (Alone(r)' <=> Alone(r)) /\ (Reporting(r)' <=> Reporting(r))
  BY DEF Busy, Mine, Alone, Reporting
<1>4. Won(r)' BY <1>2, <1>3 DEF Won
<1>5. Claims(r)' BY <1>2, <1>3 DEF Claims
<1>6. Ends(r)' BY <1>2, <1>3 DEF Ends
<1>7. Written(r)' BY <1>2, <1>3 DEF Written
<1> QED BY <1>4, <1>5, <1>6, <1>7

\* What a release that only r asks for is held by is a job of r.
LEMMA OwnRow ==
  ASSUME IInv, FInv, NEW r \in Recs, Alone(r), NEW j \in Rows, jobs[j].rel \in Covers[r]
  PROVE  jobs[j].rec = r
<1>1. jobs[j].rec \in Callers /\ jobs[j].rel \in Asks(jobs[j].rec)
  BY RowsTyped, FieldsTyped DEF IInv, FInv, Owned
<1>2. r # NoRec BY SlskdAssumption
<1>3. CASE jobs[j].rec = NoRec BY <1>1, <1>3 DEF Asks, Alone
<1>4. CASE jobs[j].rec \in Recs /\ jobs[j].rec # r
  <2>1. jobs[j].rec # NoRec BY <1>4, SlskdAssumption
  <2>2. jobs[j].rel \in Covers[jobs[j].rec] BY <1>1, <2>1 DEF Asks
  <2> QED BY <1>4, <2>2 DEF Alone
<1> QED BY <1>1, <1>3, <1>4 DEF Callers

\* The write of a job.
LEMMA SaveFollows == ASSUME IInv, QInv, FInv, Save PROVE FInv'
<1>1. /\ TypeOK /\ sync.pc = "save" /\ sync.pc \in JobSteps /\ UNCHANGED <<act, cr>>
  BY DEF IInv, Save, JobSteps
<1>2. /\ sync \in Syncs /\ sync.id \in Rows /\ job = jobs[sync.id]
      /\ sync.row \in Job /\ sync.then \in {"next", "search", "look", "report"}
      /\ Writes(sync.id, hist[sync.id], sync.row, sync.then)
  BY <1>1, AtWork DEF Syncs, Saves
<1>3. job.state \in Active /\ sync.row.rec = job.rec BY <1>1, <1>2 DEF QInv, Reports
<1> DEFINE new == [sync.row EXCEPT !.age = 0]
<1>4. jobs' = [jobs EXCEPT ![sync.id] = new] /\ (IF sync.then = "next" THEN Leave ELSE Goto(sync.then))
  BY <1>3 DEF Save, Conflicting
<1>5. /\ new \in Job /\ new.rel = job.rel /\ new.rec = job.rec /\ new.state = sync.row.state
  BY <1>2, <1>3 DEF Job, Writes
<1> HIDE DEF new
<1>6. /\ Len(jobs') = Len(jobs) /\ \A j \in Rows : jobs'[j] = (IF j = sync.id THEN new ELSE jobs[j])
  BY <1>1, <1>2, <1>4, <1>5, ExceptTyped
<1>7. Rows' = Rows BY <1>6 DEF Rows
<1>8. \/ sync.then # "report" /\ sync'.pc \notin {"save", "report", "write"}
      \/ sync.then = "report" /\ sync'.pc = "report" /\ sync'.row = sync.row
  <2>1. CASE sync.then = "next" BY <1>1, <1>4, <2>1, LeaveTyped
  <2>2. CASE sync.then # "next"
    <3>1. Goto(sync.then) BY <1>4, <2>2
    <3> QED BY <1>2, <2>2, <3>1 DEF Goto, Syncs
  <2> QED BY <2>1, <2>2
<1>9. sync.then # "report" => new.state \in Active
  BY <1>2, <1>5 DEF Writes, Searched, Active
<1>10. Owned' BY <1>1, <1>2, <1>5, <1>6, <1>7 DEF FInv, Owned, Asks
<1> SUFFICES ASSUME NEW r \in Recs PROVE Won(r)' /\ Claims(r)' /\ Ends(r)' /\ Written(r)'
  BY <1>10 DEF FInv
<1>11. Won(r) /\ Claims(r) /\ Ends(r) BY DEF FInv
<1>12. Mine(r)' = Mine(r) /\ (Alone(r)' <=> Alone(r))
  BY <1>2, <1>5, <1>6, <1>7 DEF Mine, Alone
<1>13. Written(r)' BY <1>8 DEF Written
<1>14. CASE sync.row.rec = r
  <2>1. Reporting(r) /\ Busy(r) BY <1>1, <1>2, <1>3, <1>14 DEF Reporting, Busy
  <2>2. CASE sync.then = "report"
    <3>1. Reporting(r)' /\ sync'.pc # "save" BY <1>8, <1>14, <2>2 DEF Reporting
    <3>2. Won(r)' BY <3>1 DEF Won
    <3>3. Claims(r)' BY <3>1 DEF Claims
    <3>4. Ends(r)' BY <3>1 DEF Ends
    <3> QED BY <1>13, <3>2, <3>3, <3>4
  <2>3. CASE sync.then # "report"
    <3>1. Busy(r)' BY <1>2, <1>3, <1>5, <1>6, <1>7, <1>9, <1>14, <2>3 DEF Busy
    <3>2. Won(r)' BY <3>1 DEF Won
    <3>3. Claims(r)' BY <1>1, <1>11, <2>1, <2>3 DEF Claims
    <3>4. Ends(r)' BY <3>1 DEF Ends
    <3> QED BY <1>13, <3>2, <3>3, <3>4
  <2> QED BY <2>2, <2>3
<1>15. CASE sync.row.rec # r
  <2>1. ~Reporting(r) /\ ~Reporting(r)' BY <1>8, <1>15 DEF Reporting
  <2>2. Busy(r)' <=> Busy(r) BY <1>2, <1>3, <1>5, <1>6, <1>7, <1>15 DEF Busy
  <2>3. Won(r)' BY <1>1, <1>11, <1>12, <2>1, <2>2 DEF Won
  <2>4. Claims(r)' BY <1>1, <1>11, <2>1, <2>2 DEF Claims
  <2>5. Ends(r)' BY <1>1, <1>11, <1>12, <2>1, <2>2 DEF Ends
  <2> QED BY <1>13, <2>3, <2>4, <2>5
<1> QED BY <1>14, <1>15

\* The jobs of the recommendation are added up under its lock.
LEMMA ReportFollows == ASSUME IInv, QInv, FInv, Report PROVE FInv'
<1>1. /\ TypeOK /\ sync.pc = "report" /\ sync.pc \in JobSteps /\ UNCHANGED <<jobs, act, cr>>
      /\ sync \in Syncs /\ sync.id \in Rows
  BY AtWork DEF IInv, Report, JobSteps
<1>2. Rows' = Rows BY <1>1 DEF Rows
<1>3. Owned' BY <1>1, <1>2 DEF FInv, Owned, Asks
<1>4. \/ sync.row.rec = NoRec /\ sync'.pc = "next"
      \/ /\ sync.row.rec # NoRec /\ cr[sync.row.rec].pc = "idle"
         /\ sync'.pc = "write" /\ sync'.row = sync.row
         /\ sync'.read = Reported(sync.row.rec, sync.st)
  <2>1. CASE sync.row.rec = NoRec /\ Leave BY <1>1, <2>1, LeaveTyped
  <2>2. CASE /\ sync.row.rec # NoRec /\ cr[sync.row.rec].pc = "idle"
             /\ sync' = [sync EXCEPT !.pc = "write", !.read = Reported(sync.row.rec, sync.st)]
    BY <1>1, <2>2 DEF Syncs
  <2> QED BY <2>1, <2>2 DEF Report
<1> SUFFICES ASSUME NEW r \in Recs PROVE Won(r)' /\ Claims(r)' /\ Ends(r)' /\ Written(r)'
  BY <1>3 DEF FInv
<1>5. Won(r) /\ Claims(r) /\ Ends(r) /\ r # NoRec BY SlskdAssumption DEF FInv
<1>6. (Busy(r)' <=> Busy(r)) /\ Mine(r)' = Mine(r) /\ (Alone(r)' <=> Alone(r))
  BY <1>1, <1>2 DEF Busy, Mine, Alone
<1>7. Reporting(r)' <=> Reporting(r) BY <1>1, <1>4, <1>5 DEF Reporting
<1>8. Won(r)' BY <1>1, <1>5, <1>6, <1>7 DEF Won
<1>9. Claims(r)' BY <1>1, <1>4, <1>5, <1>6, <1>7 DEF Claims
<1>10. Ends(r)' BY <1>1, <1>5, <1>6, <1>7 DEF Ends
<1>11. Written(r)'
  <2> SUFFICES ASSUME sync'.pc = "write", sync'.row.rec = r
               PROVE  /\ cr[r].pc = "idle"
                      /\ Busy(r) => sync'.read \in Following
                      /\ (Mine(r) # {} /\ ~Busy(r)) => sync'.read \notin Following
    BY <1>1, <1>6 DEF Written
  <2>1. cr[r].pc = "idle" /\ sync.row.rec = r /\ sync'.read = Reported(r, sync.st)
    BY <1>4
  <2> DEFINE mine == {jobs[j] : j \in {i \in Rows : jobs[i].rec = r}}
  <2>2. Busy(r) <=> \E m \in mine : m.state \in Active BY DEF Busy
  <2>3. \/ sync'.read = "import_pending" /\ \E m \in mine : m.state \in {"import_pending"}
        \/ sync'.read = "downloading" /\ \E m \in mine : m.state \in {"downloading"}
        \/ sync'.read = "queued" /\ \E m \in mine : m.state \in Active
        \/ sync'.read \in {"added", "needs_review", "failed"} /\ ~\E m \in mine : m.state \in Active
        \/ sync'.read = sync.st /\ ~\E m \in mine : m.state \in Active
    BY <2>1 DEF Reported, Active
  <2>4. sync.st \in Following => Busy(r)
    BY <1>1, <2>1 DEF QInv, Reports, Busy
  <2> HIDE DEF mine
  <2>5. Busy(r) => sync'.read \in Following BY <2>2, <2>3 DEF Following
  <2>6. ~Busy(r) => sync'.read \notin Following
    BY <2>2, <2>3, <2>4, FollowingNames DEF Active
  <2> QED BY <2>1, <2>5, <2>6
<1> QED BY <1>8, <1>9, <1>10, <1>11

\* The action is written, and says what the jobs say.
LEMMA WriteFollows == ASSUME IInv, FInv, WriteAction PROVE FInv'
<1>1. /\ TypeOK /\ sync.pc = "write" /\ Leave /\ UNCHANGED <<jobs, cr>>
      /\ act \in [Recs -> ActionStates] /\ act' = [act EXCEPT ![sync.row.rec] = sync.read]
  BY DEF IInv, TypeOK, WriteAction
<1>2. sync'.pc = "next" /\ Rows' = Rows BY <1>1, LeaveTyped DEF Rows
<1>3. Owned' BY <1>1, <1>2 DEF FInv, Owned, Asks
<1> SUFFICES ASSUME NEW r \in Recs PROVE Won(r)' /\ Claims(r)' /\ Ends(r)' /\ Written(r)'
  BY <1>3 DEF FInv
<1>4. Won(r) /\ Claims(r) /\ Ends(r) /\ Written(r) BY DEF FInv
<1>5. (Busy(r)' <=> Busy(r)) /\ Mine(r)' = Mine(r) /\ (Alone(r)' <=> Alone(r)) /\ ~Reporting(r)'
  BY <1>1, <1>2 DEF Busy, Mine, Alone, Reporting
<1>6. Written(r)' BY <1>2 DEF Written
<1>7. CASE sync.row.rec = r
  <2>1. cr'[r].pc = "idle" /\ act'[r] = sync.read BY <1>1, <1>4, <1>7 DEF Written
  <2>2. /\ Busy(r) => sync.read \in Following
        /\ (Mine(r) # {} /\ ~Busy(r)) => sync.read \notin Following
    BY <1>1, <1>4, <1>7 DEF Written
  <2>3. Won(r)' BY <2>1 DEF Won
  <2>4. Claims(r)' BY <1>5, <2>1, <2>2 DEF Claims
  <2>5. Ends(r)' BY <1>5, <2>1, <2>2 DEF Ends
  <2> QED BY <1>6, <2>3, <2>4, <2>5
<1>8. CASE sync.row.rec # r
  <2>1. act'[r] = act[r] /\ ~Reporting(r) BY <1>1, <1>8 DEF Reporting
  <2>2. Won(r)' BY <1>1, <1>4, <1>5, <2>1 DEF Won
  <2>3. Claims(r)' BY <1>1, <1>4, <1>5, <2>1 DEF Claims
  <2>4. Ends(r)' BY <1>1, <1>4, <1>5, <2>1 DEF Ends
  <2> QED BY <1>6, <2>2, <2>3, <2>4
<1> QED BY <1>7, <1>8

\* A step of caller c that goes on asking: it starts no job but its own.
LEMMA FollowCaller ==
  ASSUME FInv, NEW c \in Callers, UNCHANGED <<sync, act>>,
         cr[c].pc # "idle", cr'[c].pc # "idle", \A d \in Callers \ {c} : cr'[d] = cr[d],
         Owned',
         \A r \in Recs \ {c} : (Busy(r)' <=> Busy(r)) /\ Mine(r)' \subseteq Mine(r),
         (c \in Recs /\ cr'[c].won /\ Alone(c)) => Busy(c)' \/ Reporting(c)
  PROVE  FInv'
<1> SUFFICES ASSUME NEW r \in Recs PROVE Won(r)' /\ Claims(r)' /\ Ends(r)' /\ Written(r)'
  BY DEF FInv
<1>1. Won(r) /\ Claims(r) /\ Ends(r) /\ Written(r) /\ r \in Callers BY DEF FInv, Callers
<1>2. (Alone(r)' <=> Alone(r)) /\ (Reporting(r)' <=> Reporting(r)) BY DEF Alone, Reporting
<1>3. CASE r = c
  <2>1. Won(r)' BY <1>2, <1>3 DEF Won
  <2>2. Claims(r)' BY <1>3 DEF Claims
  <2>3. Ends(r)' BY <1>3 DEF Ends
  <2>4. Written(r)' BY <1>1, <1>3 DEF Written
  <2> QED BY <2>1, <2>2, <2>3, <2>4
<1>4. CASE r # c
  <2>1. (Busy(r)' <=> Busy(r)) /\ Mine(r)' \subseteq Mine(r) /\ cr'[r] = cr[r]
    BY <1>1, <1>4
  <2>2. Won(r)' BY <1>1, <1>2, <2>1 DEF Won
  <2>3. Claims(r)' BY <1>1, <1>2, <2>1 DEF Claims
  <2>4. Ends(r)' BY <1>1, <1>2, <2>1 DEF Ends
  <2>5. Written(r)' BY <1>1, <2>1 DEF Written
  <2> QED BY <2>2, <2>3, <2>4, <2>5
<1> QED BY <1>3, <1>4

\* A step of recommendation r that ends its approval, or begins one.
LEMMA FollowApproval ==
  ASSUME FInv, NEW c \in Recs, UNCHANGED <<sync, jobs>>,
         \A d \in Callers \ {c} : cr'[d] = cr[d], \A r \in Recs \ {c} : act'[r] = act[r],
         Owned', Won(c)', Claims(c)', Ends(c)', Written(c)'
  PROVE  FInv'
<1>1. Rows' = Rows BY DEF Rows
<1> SUFFICES ASSUME NEW r \in Recs \ {c} PROVE Won(r)' /\ Claims(r)' /\ Ends(r)' /\ Written(r)'
  BY DEF FInv
<1>2. Won(r) /\ Claims(r) /\ Ends(r) /\ Written(r) /\ cr'[r] = cr[r] /\ act'[r] = act[r]
  BY DEF FInv, Callers
<1>3. /\ Busy(r)' <=> Busy(r)
      /\ Mine(r)' = Mine(r) /\ (Alone(r)' <=> Alone(r)) /\ (Reporting(r)' <=> Reporting(r))
  BY <1>1 DEF Busy, Mine, Alone, Reporting
<1>4. Won(r)' BY <1>2, <1>3 DEF Won
<1>5. Claims(r)' BY <1>2, <1>3 DEF Claims
<1>6. Ends(r)' BY <1>2, <1>3 DEF Ends
<1>7. Written(r)' BY <1>2, <1>3 DEF Written
<1> QED BY <1>4, <1>5, <1>6, <1>7

\* The intake begins or ends.
LEMMA FollowIntake ==
  ASSUME FInv, UNCHANGED <<jobs, act>>, sync.pc \notin {"save", "report", "write"},
         sync'.pc \notin {"save", "report", "write"}, \A r \in Recs : cr'[r] = cr[r],
         cr'[NoRec].left \subseteq Wanted, cr'[NoRec].pc \notin {"insert", "find", "retry"}
  PROVE  FInv'
<1>1. Rows' = Rows BY DEF Rows
<1>2. Owned' BY <1>1, SlskdAssumption DEF FInv, Owned, Asks, Callers
<1> SUFFICES ASSUME NEW r \in Recs PROVE Won(r)' /\ Claims(r)' /\ Ends(r)' /\ Written(r)'
  BY <1>2 DEF FInv
<1>3. Won(r) /\ Claims(r) /\ Ends(r) /\ ~Reporting(r) BY DEF FInv, Reporting
<1>4. /\ Busy(r)' <=> Busy(r)
      /\ Mine(r)' = Mine(r) /\ (Alone(r)' <=> Alone(r)) /\ cr'[r] = cr[r]
  BY <1>1 DEF Busy, Mine, Alone
<1>5. Won(r)' BY <1>3, <1>4 DEF Won
<1>6. Claims(r)' BY <1>3, <1>4 DEF Claims
<1>7. Ends(r)' BY <1>3, <1>4 DEF Ends
<1>8. Written(r)' BY DEF Written
<1> QED BY <1>5, <1>6, <1>7, <1>8

\* The approval fails, or the intake ends with the pass.
LEMMA ThrowFollows ==
  ASSUME IInv, FInv, NEW c \in Callers, cr[c].pc # "idle", Throw(c), UNCHANGED jobs
  PROVE  FInv'
<1>1. /\ TypeOK /\ cr'[c] = Idle /\ \A d \in Callers \ {c} : cr'[d] = cr[d]
  BY ThrowTyped DEF IInv
<1>2. Idle.pc = "idle" /\ Idle.left = {} BY DEF Idle
<1>3. CASE c = NoRec
  <2>1. sync.pc = "intake" /\ sync' = Resting /\ UNCHANGED act
    BY <1>3 DEF IInv, Taking, Throw
  <2>2. sync'.pc = "idle" BY <2>1 DEF Resting
  <2>3. \A r \in Recs : cr'[r] = cr[r] BY <1>1, <1>3, SlskdAssumption DEF Callers
  <2> QED BY <1>1, <1>2, <1>3, <2>1, <2>2, <2>3, FollowIntake
<1>4. CASE c # NoRec
  <2>1. c \in Recs /\ act' = [act EXCEPT ![c] = "failed"] /\ UNCHANGED sync
        /\ act \in [Recs -> ActionStates]
    BY <1>1, <1>4 DEF Throw, Callers, TypeOK
  <2>2. act'[c] = "failed" /\ \A r \in Recs \ {c} : act'[r] = act[r] BY <2>1
  <2>3. Rows' = Rows BY DEF Rows
  <2>4. Owned' BY <1>1, <1>2, <2>3 DEF FInv, Owned, Asks
  <2>5. Won(c)' BY <1>1, <1>2 DEF Won
  <2>6. Claims(c)' BY <2>2 DEF Claims
  <2>7. Ends(c)' BY <2>2 DEF Ends, Following
  <2>8. Written(c)' BY <2>1 DEF FInv, Written
  <2> QED BY <1>1, <2>1, <2>2, <2>4, <2>5, <2>6, <2>7, <2>8, FollowApproval
<1> QED BY <1>3, <1>4

\* What a caller settles has been dealt with.
LEMMA SettleGives ==
  ASSUME TypeOK, NEW c \in Callers, NEW won \in BOOLEAN, Settle(c, won)
  PROVE  /\ cr'[c].pc = "pick" /\ cr'[c].left = cr[c].left \ {cr[c].rel}
         /\ cr'[c].won = (cr[c].won \/ won) /\ \A d \in Callers \ {c} : cr'[d] = cr[d]
<1> DEFINE new == [Idle EXCEPT !.pc = "pick", !.left = cr[c].left \ {cr[c].rel},
                               !.lid = cr[c].lid, !.won = cr[c].won \/ won]
<1>1. cr' = [cr EXCEPT ![c] = new] /\ cr \in [Callers -> Creators] BY DEF Settle, TypeOK
<1>2. /\ new.pc = "pick" /\ new.left = cr[c].left \ {cr[c].rel}
      /\ new.won = (cr[c].won \/ won)
  BY DEF Idle
<1> HIDE DEF new
<1> QED BY <1>1, <1>2

\* A row the release is held by, in an active state, is work of c if only c asks for it.
LEMMA HeldBusy ==
  ASSUME IInv, FInv, NEW c \in Recs, Alone(c), NEW k \in Asks(c), Found(k, Active) # {}
  PROVE  Busy(c)
<1>1. PICK j \in Rows : jobs[j].rel = k /\ jobs[j].state \in Active BY DEF Found
<1>2. k \in Covers[c] BY SlskdAssumption DEF Asks
<1>3. jobs[j].rec = c BY <1>1, <1>2, OwnRow
<1> QED BY <1>1, <1>3 DEF Busy

\* A release that is being worked on is counted, another is to be queued.
LEMMA PickFollows == ASSUME IInv, FInv, NEW c \in Callers, NEW k \in Releases, Pick(c, k) PROVE FInv'
<1> DEFINE free == Found(k, Active) = {}
<1>1. /\ TypeOK /\ cr[c].pc = "pick" /\ k \in cr[c].left /\ UNCHANGED <<jobs, act, sync>>
      /\ cr \in [Callers -> Creators] /\ cr[c] \in Creators
  BY DEF IInv, TypeOK, Pick
<1>2. /\ cr'[c].rel = k /\ cr'[c].pc \in {"insert", "pick"} /\ cr'[c].left \subseteq cr[c].left
      /\ cr'[c].won = (cr[c].won \/ ~free) /\ \A d \in Callers \ {c} : cr'[d] = cr[d]
  <2>1. cr' = [cr EXCEPT ![c] = [cr[c] EXCEPT !.rel = k, !.pc = IF free THEN "insert" ELSE "pick",
                                   !.left = IF free THEN cr[c].left ELSE cr[c].left \ {k},
                                   !.won = cr[c].won \/ ~free]]
    BY <1>1 DEF Pick, Creators
  <2> HIDE DEF free
  <2> QED BY <1>1, <2>1 DEF Creators
<1>3. Rows' = Rows BY <1>1 DEF Rows
<1>4. cr[c].left \subseteq Asks(c) /\ k \in Asks(c) BY <1>1 DEF FInv, Owned
<1>5. Owned'
  <2>1. /\ cr'[c].left \subseteq Asks(c) /\ cr'[c].rel \in Asks(c) BY <1>2, <1>4
  <2> QED BY <1>1, <1>2, <1>3, <2>1 DEF FInv, Owned, Asks
<1>6. \A r \in Recs : (Busy(r)' <=> Busy(r)) /\ Mine(r)' = Mine(r)
  BY <1>1, <1>3 DEF Busy, Mine
<1>7. ASSUME c \in Recs, cr'[c].won, Alone(c) PROVE Busy(c)' \/ Reporting(c)
  <2>1. CASE cr[c].won
    <3>1. Won(c) BY <1>7 DEF FInv
    <3> QED BY <1>1, <1>6, <1>7, <2>1, <3>1 DEF Won
  <2>2. CASE ~free
    <3>1. Busy(c) BY <1>4, <1>7, <2>2, HeldBusy
    <3> QED BY <1>6, <1>7, <3>1
  <2> QED BY <1>2, <1>7, <2>1, <2>2
<1> QED BY <1>1, <1>2, <1>5, <1>6, <1>7, FollowCaller

\* A caller settles a release without writing a row.
LEMMA SettleFollows ==
  ASSUME IInv, FInv, NEW c \in Callers, NEW won \in BOOLEAN, Settle(c, won), cr[c].pc # "idle",
         UNCHANGED <<jobs, act, sync>>,
         (c \in Recs /\ won /\ Alone(c)) => Busy(c)
  PROVE  FInv'
<1>1. /\ cr'[c].pc = "pick" /\ cr'[c].left = cr[c].left \ {cr[c].rel}
      /\ cr'[c].won = (cr[c].won \/ won) /\ \A d \in Callers \ {c} : cr'[d] = cr[d]
  BY SettleGives DEF IInv
<1>2. Rows' = Rows BY DEF Rows
<1>3. Owned' BY <1>1, <1>2 DEF FInv, Owned, Asks
<1>4. \A r \in Recs : (Busy(r)' <=> Busy(r)) /\ Mine(r)' = Mine(r)
  BY <1>2 DEF Busy, Mine
<1>5. ASSUME c \in Recs, cr'[c].won, Alone(c) PROVE Busy(c)' \/ Reporting(c)
  <2>1. Won(c) BY <1>5 DEF FInv
  <2> QED BY <1>1, <1>4, <1>5, <2>1 DEF Won
<1> QED BY <1>1, <1>3, <1>4, <1>5, FollowCaller

\* A caller goes on to the next query about its release.
LEMMA StepFollows ==
  ASSUME IInv, FInv, NEW c \in Callers, cr[c].pc # "idle", cr'[c].pc # "idle",
         cr'[c].left = cr[c].left, cr'[c].won = cr[c].won, cr'[c].rel = cr[c].rel,
         cr[c].rel \in Asks(c),
         \A d \in Callers \ {c} : cr'[d] = cr[d], UNCHANGED <<jobs, act, sync>>
  PROVE  FInv'
<1>1. Rows' = Rows BY DEF Rows
<1>2. Owned' BY <1>1 DEF FInv, Owned, Asks
<1>3. \A r \in Recs : (Busy(r)' <=> Busy(r)) /\ Mine(r)' = Mine(r)
  BY <1>1 DEF Busy, Mine
<1>4. ASSUME c \in Recs, cr'[c].won, Alone(c) PROVE Busy(c)' \/ Reporting(c)
  <2>1. Won(c) BY <1>4 DEF FInv
  <2> QED BY <1>3, <1>4, <2>1 DEF Won
<1> QED BY <1>2, <1>3, <1>4, FollowCaller

\* The row found is left alone, or will be retried.
LEMMA FindFollows == ASSUME IInv, FInv, NEW c \in Callers, Find(c) PROVE FInv'
<1>1. /\ TypeOK /\ cr[c].pc = "find" /\ UNCHANGED jobs /\ cr \in [Callers -> Creators]
      /\ cr[c] \in Creators /\ cr[c].rel \in Asks(c)
  BY DEF IInv, TypeOK, Find, FInv, Owned
<1>2. CASE Throw(c) BY <1>1, <1>2, ThrowFollows
<1>3. CASE /\ cr' = [cr EXCEPT ![c].pc = "insert", ![c].again = TRUE]
           /\ UNCHANGED <<act, sync>>
  <2>1. /\ cr'[c].pc = "insert" /\ cr'[c].left = cr[c].left /\ cr'[c].won = cr[c].won
        /\ cr'[c].rel = cr[c].rel /\ \A d \in Callers \ {c} : cr'[d] = cr[d]
    BY <1>1, <1>3 DEF Creators
  <2> QED BY <1>1, <1>3, <2>1, StepFollows
<1>4. ASSUME UNCHANGED <<act, sync>>, NEW j \in Found(cr[c].rel, Conflicting),
             \/ jobs[j].state # "failed" /\ Settle(c, TRUE)
             \/ Settle(c, FALSE)
      PROVE  FInv'
  <2>1. CASE jobs[j].state # "failed" /\ Settle(c, TRUE)
    <3>1. Found(cr[c].rel, Active) # {} BY <1>4, <2>1 DEF Found, Conflicting
    <3>2. (c \in Recs /\ Alone(c)) => Busy(c) BY <1>1, <3>1, HeldBusy
    <3> QED BY <1>1, <1>4, <2>1, <3>2, SettleFollows
  <2>2. CASE Settle(c, FALSE) BY <1>1, <1>4, <2>2, SettleFollows
  <2> QED BY <1>4, <2>1, <2>2
<1>5. ASSUME UNCHANGED <<act, sync>>, NEW j \in Found(cr[c].rel, Conflicting),
             cr' = [cr EXCEPT ![c].pc = "retry", ![c].id = j,
                              ![c].bad = IF c = NoRec THEN FailedPeers(j) ELSE {}]
      PROVE  FInv'
  <2> DEFINE b == IF c = NoRec THEN FailedPeers(j) ELSE {}
  <2>1. cr' = [cr EXCEPT ![c] = [cr[c] EXCEPT !.pc = "retry", !.id = j, !.bad = b]]
    BY <1>1, <1>5 DEF Creators
  <2> HIDE DEF b
  <2>2. /\ cr'[c].pc = "retry" /\ cr'[c].left = cr[c].left /\ cr'[c].won = cr[c].won
        /\ cr'[c].rel = cr[c].rel /\ \A d \in Callers \ {c} : cr'[d] = cr[d]
    BY <1>1, <2>1 DEF Creators
  <2> QED BY <1>1, <1>5, <2>2, StepFollows
<1> QED BY <1>2, <1>3, <1>4, <1>5 DEF Find

\* A caller starts a job, from nothing or from a failed row.
LEMMA StartFollows ==
  ASSUME IInv, FInv, NEW c \in Callers, cr[c].pc \in {"insert", "retry"}, Settle(c, TRUE),
         UNCHANGED <<act, sync>>, NEW j \in Rows', Rows \subseteq Rows', Rows' \ Rows \subseteq {j},
         j \in Rows => jobs[j].state = "failed", \A i \in Rows \ {j} : jobs'[i] = jobs[i],
         jobs'[j].state = "pending", jobs'[j].rec = c, jobs'[j].rel = cr[c].rel
  PROVE  FInv'
<1>1. /\ cr'[c].pc = "pick" /\ cr'[c].left = cr[c].left \ {cr[c].rel}
      /\ \A d \in Callers \ {c} : cr'[d] = cr[d]
  BY SettleGives DEF IInv
<1>2. Owned'
  <2>1. \A d \in Callers : /\ cr'[d].left \subseteq Asks(d)
                           /\ cr'[d].pc \in {"insert", "find", "retry"} => cr'[d].rel \in Asks(d)
    BY <1>1 DEF FInv, Owned
  <2>2. jobs'[j].rel \in Asks(jobs'[j].rec) BY DEF FInv, Owned
  <2>3. \A i \in Rows' : jobs'[i].rel \in Asks(jobs'[i].rec) BY <2>2 DEF FInv, Owned
  <2> QED BY <2>1, <2>3 DEF Owned, Asks
<1>3. ASSUME NEW r \in Recs \ {c} PROVE (Busy(r)' <=> Busy(r)) /\ Mine(r)' \subseteq Mine(r)
  <2>1. Mine(r)' \subseteq Mine(r) BY DEF Mine
  <2>2. "failed" \notin Active BY DEF Active
  <2>3. Busy(r)' => Busy(r) BY DEF Busy
  <2>4. Busy(r) => Busy(r)' BY <2>2 DEF Busy
  <2> QED BY <2>1, <2>3, <2>4
<1>4. Busy(c)' BY DEF Busy, Active
<1> QED BY <1>1, <1>2, <1>3, <1>4, FollowCaller

\* A new row.
LEMMA InsertFollows == ASSUME IInv, FInv, NEW c \in Callers, Insert(c) PROVE FInv'
<1>1. /\ TypeOK /\ cr[c].pc = "insert" /\ UNCHANGED <<sync, act>> /\ cr \in [Callers -> Creators]
      /\ cr[c] \in Creators /\ cr[c].rel \in Asks(c)
  BY DEF IInv, TypeOK, Insert, FInv, Owned
<1>2. CASE Step(c, "find") /\ UNCHANGED jobs
  <2>1. /\ cr'[c].pc = "find" /\ cr'[c].left = cr[c].left /\ cr'[c].won = cr[c].won
        /\ cr'[c].rel = cr[c].rel /\ \A d \in Callers \ {c} : cr'[d] = cr[d]
    BY <1>1, <1>2 DEF Creators, Step
  <2> QED BY <1>1, <1>2, <2>1, StepFollows
<1> DEFINE row == NewJob(cr[c].rel, c, cr[c].lid)
<1>3. CASE Len(jobs) < MaxJobs /\ jobs' = Append(jobs, row) /\ Settle(c, TRUE)
  <2>1. row \in Job /\ row.state = "pending" /\ row.rec = c /\ row.rel = cr[c].rel
    <3>1. row \in Job BY <1>1, CallerTyped, NewTyped
    <3> QED BY <3>1 DEF NewJob
  <2> HIDE DEF row
  <2>2. /\ Len(jobs') = Len(jobs) + 1
        /\ (\A j \in Rows : jobs'[j] = jobs[j]) /\ jobs'[Len(jobs) + 1] = row
    BY <1>1, <1>3, <2>1, AppendTyped
  <2>3. Rows \subseteq Rows' /\ Rows' \ Rows = {Len(jobs) + 1}
    <3>1. Len(jobs) \in Nat BY <1>1, RowsTyped
    <3> QED BY <2>2, <3>1 DEF Rows
  <2>4. Len(jobs) + 1 \in Rows' /\ Len(jobs) + 1 \notin Rows BY <2>3
  <2> QED BY <1>1, <1>3, <2>1, <2>2, <2>3, <2>4, StartFollows
<1> QED BY <1>2, <1>3 DEF Insert

\* A failed row starts again, or somebody was faster.
LEMMA RetryFollows == ASSUME IInv, FInv, NEW c \in Callers, Retry(c) PROVE FInv'
<1> DEFINE j == cr[c].id
<1>1. /\ TypeOK /\ cr[c].pc = "retry" /\ j \in Rows /\ cr[c].rel \in Asks(c)
  BY DEF IInv, Pointing, Retry, FInv, Owned
<1>2. CASE UNCHANGED jobs /\ Throw(c) BY <1>1, <1>2, ThrowFollows
<1>3. CASE UNCHANGED <<jobs, act, sync>> /\ Found(cr[c].rel, Active) # {} /\ Settle(c, TRUE)
  <2>1. (c \in Recs /\ Alone(c)) => Busy(c) BY <1>1, <1>3, HeldBusy
  <2> QED BY <1>1, <1>3, <2>1, SettleFollows
<1> DEFINE row == [NewJob(cr[c].rel, c, cr[c].lid) EXCEPT
                     !.bad = cr[c].bad, !.att = IF c = NoRec THEN jobs[j].att ELSE 0]
<1>4. CASE /\ jobs[j].state = "failed" /\ jobs' = [jobs EXCEPT ![j] = row]
           /\ Settle(c, TRUE) /\ UNCHANGED <<act, sync>>
  <2>1. row.state = "pending" /\ row.rec = c /\ row.rel = cr[c].rel BY DEF NewJob
  <2>2. jobs \in Seq(Job) BY <1>1, RowsTyped
  <2> HIDE DEF row
  <2>3. Len(jobs') = Len(jobs) /\ jobs'[j] = row /\ \A i \in Rows : i # j => jobs'[i] = jobs[i]
    BY <1>1, <1>4, <2>2 DEF Rows
  <2>4. Rows' = Rows BY <2>3 DEF Rows
  <2>5. \A i \in Rows \ {j} : jobs'[i] = jobs[i] BY <2>3
  <2>6. /\ jobs'[j].state = "pending" /\ jobs'[j].rec = c /\ jobs'[j].rel = cr[c].rel
        /\ j \in Rows' /\ Rows \subseteq Rows' /\ Rows' \ Rows \subseteq {j}
    BY <1>1, <2>1, <2>3, <2>4
  <2> HIDE DEF j
  <2> QED BY <1>1, <1>4, <2>5, <2>6, StartFollows
<1> QED BY <1>2, <1>3, <1>4 DEF Retry

\* An approval begins.
LEMMA ApproveFollows ==
  ASSUME IInv, FInv, NEW r \in Recs, NEW rels \in {Covers[r], {}}, NEW lid \in BOOLEAN,
         Approve(r, rels, lid)
  PROVE  FInv'
<1>1. /\ TypeOK /\ ~Locked(r) /\ UNCHANGED <<jobs, act, sync>> /\ cr \in [Callers -> Creators]
      /\ r \in Callers /\ r # NoRec
  BY SlskdAssumption DEF IInv, TypeOK, Approve, Callers
<1>2. /\ cr'[r].pc = "pick" /\ cr'[r].left = rels /\ ~cr'[r].won
      /\ \A d \in Callers \ {r} : cr'[d] = cr[d]
  <2> DEFINE new == [Idle EXCEPT !.pc = "pick", !.left = rels, !.lid = lid]
  <2>1. new.pc = "pick" /\ new.left = rels /\ ~new.won BY DEF Idle
  <2>2. cr' = [cr EXCEPT ![r] = new] BY DEF Approve
  <2> HIDE DEF new
  <2> QED BY <1>1, <2>1, <2>2
<1>3. Rows' = Rows BY <1>1 DEF Rows
<1>4. Owned'
  <2>1. cr'[r].left \subseteq Asks(r) BY <1>1, <1>2 DEF Asks
  <2> QED BY <1>1, <1>2, <1>3, <2>1 DEF FInv, Owned, Asks
<1>5. Won(r)' BY <1>2 DEF Won
<1>6. Claims(r)' BY <1>2 DEF Claims
<1>7. Ends(r)' BY <1>2 DEF Ends
<1>8. Written(r)' BY <1>1 DEF Locked, Written
<1> QED BY <1>1, <1>2, <1>4, <1>5, <1>6, <1>7, <1>8, FollowApproval

\* An approval ends, and says whether there is work.
LEMMA ApprovedFollows == ASSUME IInv, FInv, NEW r \in Recs, Approved(r) PROVE FInv'
<1>1. /\ TypeOK /\ cr[r].pc = "pick" /\ UNCHANGED <<jobs, sync>> /\ cr \in [Callers -> Creators]
      /\ act \in [Recs -> ActionStates] /\ r \in Callers
      /\ act' = [act EXCEPT ![r] = IF cr[r].won THEN "queued" ELSE "failed"]
      /\ cr' = [cr EXCEPT ![r] = Idle]
  BY DEF IInv, TypeOK, Approved, Callers
<1>2. /\ cr'[r].pc = "idle" /\ cr'[r].left = {} /\ \A d \in Callers \ {r} : cr'[d] = cr[d]
  BY <1>1 DEF Idle
<1>3. /\ act'[r] = (IF cr[r].won THEN "queued" ELSE "failed")
      /\ \A s \in Recs \ {r} : act'[s] = act[s]
  BY <1>1
<1>4. Rows' = Rows BY <1>1 DEF Rows
<1>5. Owned' BY <1>1, <1>2, <1>4 DEF FInv, Owned, Asks
<1>6. /\ Busy(r)' <=> Busy(r)
      /\ (Alone(r)' <=> Alone(r)) /\ (Reporting(r)' <=> Reporting(r))
  BY <1>1, <1>4 DEF Busy, Alone, Reporting
<1>7. Won(r) /\ Written(r) BY DEF FInv
<1>8. Won(r)' BY <1>2 DEF Won
<1>9. Claims(r)' BY <1>3 DEF Claims, Following
<1>10. Ends(r)'
  <2>1. CASE cr[r].won BY <1>1, <1>6, <1>7, <2>1 DEF Ends, Won
  <2>2. CASE ~cr[r].won BY <1>3, <2>2 DEF Ends, Following
  <2> QED BY <2>1, <2>2
<1>11. Written(r)' BY <1>1, <1>7 DEF Written
<1> QED BY <1>1, <1>2, <1>3, <1>5, <1>8, <1>9, <1>10, <1>11, FollowApproval

\* Between reports the sync goes anywhere but to one.
LEMMA MoveFollows ==
  ASSUME IInv, FInv, \/ List \/ NextJob \/ SyncDone \/ Look \/ Enqueue \/ Fetch \/ Transferred
                     \/ Build \/ Submit \/ Check
                     \/ \E answer \in {"ok", "busy", "error"} : Search(answer)
  PROVE  FInv'
<1>1. sync \in Syncs /\ UNCHANGED <<jobs, act, cr>> /\ sync.pc \notin {"save", "report", "write"}
  BY DEF IInv, TypeOK, List, NextJob, SyncDone, Search, Look, Enqueue, Fetch, Transferred, Build,
         Submit, Check
<1>2. ASSUME NEW s \in Syncs, NEW row, NEW st, NEW then, Write(s, row, st, then)
      PROVE  sync'.pc = "save"
  BY <1>2 DEF Write, Syncs
<1>3. ASSUME NEW s \in Syncs, Fail(s) PROVE sync'.pc = "save"
  BY <1>2, <1>3 DEF Fail
<1>4. Leave => sync'.pc = "next" BY DEF Leave, Resting
<1>5. \A pc \in {"import", "submit"} : Goto(pc) => sync'.pc = pc BY <1>1 DEF Goto, Syncs
<1>6. sync'.pc \notin {"report", "write"}
  <2>1. CASE SyncDone BY <2>1 DEF SyncDone, Resting
  <2>2. CASE List
    <3> DEFINE L == {j \in ActiveRows : Cardinality({i \in ActiveRows : i < j}) < Limit}
    <3>1. sync' = [sync EXCEPT !.pc = "next", !.cfg = config, !.left = L] BY <2>2 DEF List
    <3> HIDE DEF L
    <3> QED BY <1>1, <3>1 DEF Syncs
  <2>3. CASE NextJob
    <3>1. PICK j \in sync.left : NextJob!2!(j) BY <2>3 DEF NextJob
    <3> DEFINE s == [sync EXCEPT !.id = j, !.left = sync.left \ {j}, !.peer = NoPeer]
    <3>2. s \in Syncs /\ s.pc = sync.pc
      <4>1. j \in Ids /\ j \in 0..MaxJobs
        BY <1>1, SlskdAssumption DEF Syncs, Ids
      <4> QED BY <1>1, <4>1 DEF Syncs
    <3>3. \/ Fail(s)
          \/ sync' = [s EXCEPT !.pc = "look"] \/ sync' = [s EXCEPT !.id = 0]
          \/ Write(s, [jobs[j] EXCEPT !.state = "searching", !.att = jobs[j].att + 1], "none", "search")
          \/ sync' = [s EXCEPT !.pc = "transfers"] \/ sync' = [s EXCEPT !.pc = "check"]
      BY <3>1
    <3>4. CASE Fail(s) BY <1>3, <3>2, <3>4
    <3>5. CASE Write(s, [jobs[j] EXCEPT !.state = "searching", !.att = jobs[j].att + 1], "none", "search")
      BY <1>2, <3>2, <3>5
    <3>6. sync.pc = "next" BY <2>3 DEF NextJob
    <3> HIDE DEF s
    <3> QED BY <3>2, <3>3, <3>4, <3>5, <3>6 DEF Syncs
  <2>4. CASE \E answer \in {"ok", "busy", "error"} : Search(answer)
    BY <1>1, <1>2, <1>3, <2>4 DEF Search
  <2>5. CASE Look
    <3>1. \/ Leave \/ Fail(sync)
          \/ Write(sync, [job EXCEPT !.state = "failed", !.review = TRUE], "needs_review", "report")
          \/ \E p \in Peers : sync' = [sync EXCEPT !.pc = "enqueue", !.peer = p]
      BY <2>5 DEF Look
    <3> QED BY <1>1, <1>2, <1>3, <1>4, <3>1 DEF Syncs
  <2>6. CASE Enqueue BY <1>1, <1>2, <1>3, <2>6 DEF Enqueue
  <2>7. CASE Fetch BY <1>1, <2>7 DEF Fetch, Syncs
  <2>8. CASE Transferred BY <1>1, <1>2, <1>3, <1>5, <2>8 DEF Transferred
  <2>9. CASE Build BY <1>1, <1>2, <1>3, <1>5, <2>9 DEF Build
  <2>10. CASE Submit BY <1>1, <1>2, <1>3, <2>10 DEF Submit
  <2>11. CASE Check BY <1>1, <1>2, <1>3, <1>4, <2>11 DEF Check
  <2> QED BY <2>1, <2>2, <2>3, <2>4, <2>5, <2>6, <2>7, <2>8, <2>9, <2>10, <2>11
<1> QED BY <1>1, <1>6, FollowMove

\* The pass begins, and the intake ends.
LEMMA IntakeFollows ==
  ASSUME IInv, FInv, Trigger \/ IntakeDone \/ IntakeFails PROVE FInv'
<1>1. /\ cr \in [Callers -> Creators] /\ sync \in Syncs /\ NoRec \in Callers
      /\ UNCHANGED <<jobs, act>> /\ sync.pc \in {"idle", "intake"}
  BY DEF IInv, TypeOK, Callers, Trigger, IntakeDone, IntakeFails
<1>2. sync'.pc \in {"idle", "intake", "list"}
  <2>1. Resting \in Syncs /\ Resting.pc = "idle" BY RestTyped DEF Resting
  <2>2. CASE Trigger BY <2>1, <2>2 DEF Trigger, Syncs
  <2>3. CASE IntakeDone BY <1>1, <2>3 DEF IntakeDone, Syncs
  <2>4. CASE IntakeFails BY <2>1, <2>4 DEF IntakeFails
  <2> QED BY <2>2, <2>3, <2>4
<1>3. cr'[NoRec].left \subseteq Wanted /\ cr'[NoRec].pc \in {"idle", "pick"}
  <2>1. CASE Trigger
    <3> DEFINE w == IF config \in {"ok", "nopath"} THEN Wanted \ have ELSE {}
               new == [Idle EXCEPT !.pc = "pick", !.lid = TRUE, !.left = w]
    <3>1. cr'[NoRec] = new BY <1>1, <2>1 DEF Trigger
    <3>2. w \subseteq Wanted OBVIOUS
    <3> HIDE DEF w
    <3> QED BY <3>1, <3>2 DEF Idle
  <2>2. CASE IntakeDone \/ IntakeFails
    BY <1>1, <2>2 DEF IntakeDone, IntakeFails, Idle
  <2> QED BY <2>1, <2>2
<1>4. \A r \in Recs : cr'[r] = cr[r]
  <2>1. \A r \in Recs : r # NoRec BY SlskdAssumption
  <2> QED BY <1>1, <2>1 DEF Trigger, IntakeDone, IntakeFails, Callers
<1> QED BY <1>1, <1>2, <1>3, <1>4, FollowIntake

\* What goes on outside writes no action and ends no job.
LEMMA OutsideFollows == ASSUME IInv, FInv, Outside, UNCHANGED faults PROVE FInv'
<1>1. TypeOK /\ ~Fault BY FaultTyped DEF IInv
<1>2. ASSUME UNCHANGED <<jobs, sync, act, cr>> PROVE FInv'
  <2>1. Rows' = Rows BY <1>2 DEF Rows
  <2> QED BY <1>2, <2>1, FollowAside
<1>3. ASSUME NEW j \in Ids, NEW to \in Transfers, Transfer(j, to) PROVE FInv'
  BY <1>2, <1>3 DEF Transfer
<1>4. ASSUME NEW j \in Ids, NEW to \in {"completed", "failed"}, Imported(j, to) PROVE FInv'
  BY <1>2, <1>4 DEF Imported
<1>5. ASSUME NEW k \in Releases, LidarrGets(k) PROVE FInv'
  BY <1>2, <1>5 DEF LidarrGets
<1>6. ASSUME NEW j \in Ids, Elapse(j) PROVE FInv'
  <2>1. j \in Rows /\ UNCHANGED <<sync, act, cr>> BY <1>6 DEF Elapse
  <2> DEFINE row == [jobs[j] EXCEPT !.age = jobs[j].age + 1]
  <2>2. jobs[j] \in Job /\ jobs \in Seq(Job) BY <1>1, <2>1, RowsTyped
  <2>3. jobs' = [jobs EXCEPT ![j] = row] BY <1>6 DEF Elapse
  <2>4. row.state = jobs[j].state /\ row.rec = jobs[j].rec /\ row.rel = jobs[j].rel
    BY <2>2 DEF Job
  <2> HIDE DEF row
  <2>5. Len(jobs') = Len(jobs) /\ jobs'[j] = row /\ \A i \in Rows : i # j => jobs'[i] = jobs[i]
    BY <2>1, <2>2, <2>3 DEF Rows
  <2>6. Rows' = Rows BY <2>5 DEF Rows
  <2>7. \A i \in Rows : /\ jobs'[i].state = jobs[i].state /\ jobs'[i].rec = jobs[i].rec
                        /\ jobs'[i].rel = jobs[i].rel
    BY <2>4, <2>5
  <2> QED BY <2>1, <2>6, <2>7, FollowAside
<1>7. CASE PauseOver BY <1>2, <1>7 DEF PauseOver
<1>8. ASSUME NEW to \in Configs, Edit(to) PROVE FInv'
  BY <1>1, <1>8 DEF Edit
<1> QED BY <1>3, <1>4, <1>5, <1>6, <1>7, <1>8 DEF Outside

\* It holds at the start.
LEMMA InitFollows == Init => FInv
<1> SUFFICES ASSUME Init PROVE FInv
  OBVIOUS
<1>1. sync.pc = "idle" /\ Rows = {} BY DEF Init, Resting, Rows
<1>2. \A c \in Callers : cr[c].pc = "idle" /\ cr[c].left = {} BY DEF Init, Idle
<1>3. \A r \in Recs : act[r] = "none" /\ cr[r].pc = "idle" BY <1>2 DEF Init, Callers
<1>4. Owned BY <1>1, <1>2 DEF Owned
<1>5. \A r \in Recs : Won(r) BY <1>3 DEF Won
<1>6. \A r \in Recs : Claims(r) BY <1>1 DEF Claims, Busy
<1>7. \A r \in Recs : Ends(r) BY <1>1 DEF Ends, Mine
<1>8. \A r \in Recs : Written(r) BY <1>1 DEF Written
<1> QED BY <1>4, <1>5, <1>6, <1>7, <1>8 DEF FInv

\* A step without an incident keeps the actions in step with the jobs.
LEMMA NextFollows == ASSUME IInv, QInv, FInv, [Next]_vars, UNCHANGED faults PROVE FInv'
<1>1. ~Fault /\ NoRec \in Callers BY FaultTyped DEF IInv, Callers
<1>2. ASSUME NEW r \in Recs, NEW rels \in {Covers[r], {}}, NEW lid \in BOOLEAN,
             Approve(r, rels, lid)
      PROVE  FInv'
  BY <1>2, ApproveFollows
<1>3. ASSUME NEW c \in Callers, CreateStep(c) PROVE FInv'
  BY <1>1, <1>3, PickFollows, InsertFollows, FindFollows, RetryFollows DEF CreateStep, QueryFails
<1>4. ASSUME NEW r \in Recs, ApproveStep(r) PROVE FInv'
  <2>1. r \in Callers BY DEF Callers
  <2>2. CASE CreateStep(r) BY <1>3, <2>1, <2>2
  <2>3. CASE Approved(r) BY <2>3, ApprovedFollows
  <2> QED BY <1>4, <2>2, <2>3 DEF ApproveStep
<1>5. CASE Trigger BY <1>5, IntakeFollows
<1>6. CASE SyncStep
  <2>1. CASE CreateStep(NoRec) BY <1>1, <1>3, <2>1
  <2>2. CASE IntakeDone \/ IntakeFails BY <2>2, IntakeFollows
  <2>3. CASE \/ List \/ NextJob \/ SyncDone \/ Look \/ Enqueue \/ Fetch \/ Transferred
             \/ Build \/ Submit \/ Check
             \/ \E answer \in {"ok", "busy", "error"} : Search(answer)
    BY <2>3, MoveFollows
  <2>4. CASE Save \/ Report \/ WriteAction BY <2>4, SaveFollows, ReportFollows, WriteFollows
  <2>5. CASE WriteFails BY <1>1, <2>5 DEF WriteFails
  <2> QED BY <1>6, <2>1, <2>2, <2>3, <2>4, <2>5 DEF SyncStep
<1>7. CASE Outside BY <1>7, OutsideFollows
<1>8. CASE Crash BY <1>1, <1>8 DEF Crash
<1>9. CASE UNCHANGED vars
  <2>1. UNCHANGED <<jobs, act, cr, sync>> /\ Rows' = Rows BY <1>9 DEF vars, Rows
  <2> QED BY <2>1, FollowAside
<1> QED BY <1>2, <1>4, <1>5, <1>6, <1>7, <1>8, <1>9 DEF Next

\* As long as there was no incident, the action of a recommendation and its jobs agree but for
\* an approval in hand and a report in hand.
THEOREM FollowInvariance == Spec => [](Quiet => FInv)
<1>1. Init => (IInv /\ (Quiet => QInv) /\ (Quiet => FInv)) BY InitInv, InitQuiet, InitFollows
<1>2. (IInv /\ (Quiet => QInv) /\ (Quiet => FInv)) /\ [Next]_vars
        => (IInv /\ (Quiet => QInv) /\ (Quiet => FInv))'
  <2> SUFFICES ASSUME IInv, Quiet => QInv, Quiet => FInv, [Next]_vars
               PROVE  IInv' /\ (Quiet' => QInv') /\ (Quiet' => FInv')
    OBVIOUS
  <2>1. IInv' BY NextKeeps
  <2>2. ASSUME Quiet' PROVE QInv' /\ FInv'
    <3>1. TypeOK /\ faults \in Nat BY FaultTyped DEF IInv
    <3>2. faults' = faults \/ faults' = faults + 1 BY <3>1, FaultsGrow
    <3>3. faults' = faults /\ Quiet BY <2>2, <3>1, <3>2 DEF Quiet
    <3> QED BY <2>1, <3>3, NextQuiet, NextFollows
  <2> QED BY <2>1, <2>2
<1> QED BY <1>1, <1>2, PTL DEF Spec

\* Outside of approvals and reports, the action of a recommendation claims no end while one of
\* its jobs is under way, and no work when all have ended.
THEOREM ActionsFollow == Spec => []ActionFollows
<1>1. (Quiet => FInv) => ActionFollows
  <2> SUFFICES ASSUME FInv, NEW r \in Recs, cr[r].pc = "idle", ~Reporting(r)
               PROVE  /\ Mine(r) \cap ActiveRows # {} => act[r] \in Following \cup {"failed"}
                      /\ (Mine(r) # {} /\ Mine(r) \cap ActiveRows = {} /\ Alone(r))
                           => act[r] \notin Following
    BY DEF ActionFollows
  <2>1. Claims(r) /\ Ends(r) BY DEF FInv
  <2>2. Busy(r) <=> Mine(r) \cap ActiveRows # {} BY DEF Busy, Mine, ActiveRows
  <2> QED BY <2>1, <2>2 DEF Claims, Ends
<1> QED BY <1>1, FollowInvariance, PTL

-----------------------------------------------------------------------------
(* A sync runs out of steps: it is over before long, whatever slskd, Lidarr *)
(* and the database answer, and the next one can start.                     *)

\* how many steps the sync has left with the job under work: a failure to write it fails the
\* job, a failure to write that it failed is the end of it
JobLeft(s) ==
  IF s.pc = "save" THEN IF s.then = "search" THEN 11 ELSE IF s.then = "look" THEN 9
                        ELSE IF s.then = "report" /\ s.st = "failed" THEN 3 ELSE 6
  ELSE IF s.pc = "report" THEN IF s.st = "failed" THEN 2 ELSE 5
  ELSE IF s.pc = "write" THEN IF s.st = "failed" THEN 1 ELSE 4
  ELSE IF s.pc = "transfers" THEN IF s.seen = "no" THEN 10 ELSE 9
  ELSE IF s.pc = "search" THEN 10
  ELSE IF s.pc \in {"look", "import"} THEN 8
  ELSE IF s.pc \in {"enqueue", "submit", "check"} THEN 7
  ELSE 0

\* what a caller has spent on the release it is at
Spent(d) ==
  IF d.pc = "insert" THEN IF d.again THEN 3 ELSE 1
  ELSE IF d.pc = "find" THEN IF d.again THEN 4 ELSE 2
  ELSE IF d.pc = "retry" THEN 5 ELSE 0

\* how many steps a sync has left at most: intake, list, at most Limit jobs
SyncLeft(s, d) ==
  IF s.pc = "idle" THEN 0
  ELSE IF s.pc = "intake" THEN 12 * Limit + 3 + 6 * Cardinality(d.left) - Spent(d)
  ELSE IF s.pc = "list" THEN 12 * Limit + 2
  ELSE 12 * Cardinality(s.left) + JobLeft(s) + 1

\* The release a caller is at is one it has left to deal with.
Hunts(d) == d.pc \in {"insert", "find", "retry"} => d.rel \in d.left

\* Every step of a sync uses up some of its steps, and only a trigger gives it more.
SyncStepCounts ==
  [][/\ SyncStep => SyncLeft(sync, cr[NoRec])' < SyncLeft(sync, cr[NoRec])
     /\ SyncLeft(sync, cr[NoRec])' > SyncLeft(sync, cr[NoRec]) => Trigger]_vars

\* A set of numbers up to n that is not empty has a greatest one.
LEMMA Greatest ==
  ASSUME NEW n \in Nat, NEW S \in SUBSET (1 .. n), S # {}
  PROVE  \E m \in S : \A i \in S : i <= m
<1> DEFINE R == OpToRel(<, Nat)
           T == {k \in Nat : \E i \in S : k = n - i}
<1>1. IsWellFoundedOn(R, Nat)
  BY NatLessThanWellFounded
<1>2. T \subseteq Nat /\ T # {}
  <2>1. PICK i \in S : i \in 1 .. n
    OBVIOUS
  <2>2. n - i \in T
    BY <2>1
  <2> QED BY <2>2
<1>3. PICK k \in T : \A l \in T : ~(<<l, k>> \in R)
  <2> HIDE DEF R, T
  <2> QED BY <1>1, <1>2, WFMin
<1>4. \A l \in T : ~(l < k)
  <2> SUFFICES ASSUME NEW l \in T, l < k PROVE FALSE
    OBVIOUS
  <2> HIDE DEF T
  <2>1. <<l, k>> \in R
    BY <1>2 DEF R, OpToRel
  <2> QED BY <1>3, <2>1
<1>5. PICK m \in S : k = n - m
  BY <1>3
<1>6. ASSUME NEW i \in S PROVE i <= m
  <2>1. n - i \in T
    OBVIOUS
  <2>2. ~(n - i < n - m)
    BY <1>4, <1>5, <2>1
  <2> QED BY <2>2
<1> QED BY <1>6

\* The members of a set of numbers with fewer than l members before them are l at most.
LEMMA FirstFew ==
  ASSUME NEW n \in Nat, NEW A \in SUBSET (1 .. n), NEW l \in Nat
  PROVE  LET F == {j \in A : Cardinality({i \in A : i < j}) < l}
         IN  IsFiniteSet(F) /\ Cardinality(F) \in Nat /\ Cardinality(F) <= l
<1> DEFINE B(j) == {i \in A : i < j}
           F == {j \in A : Cardinality(B(j)) < l}
<1>1. IsFiniteSet(1 .. n)
  BY FS_Interval
<1>2. IsFiniteSet(F) /\ \A j \in A : IsFiniteSet(B(j))
  BY <1>1, FS_Subset
<1>3. Cardinality(F) \in Nat
  BY <1>2, FS_CardinalityType
<1> SUFFICES Cardinality(F) <= l
  BY <1>2, <1>3
<1>4. CASE F = {}
  <2> HIDE DEF F
  <2> QED BY <1>4, FS_EmptySet
<1>5. CASE F # {}
  <2>1. PICK m \in F : \A i \in F : i <= m
    <3>1. F \in SUBSET (1 .. n)
      OBVIOUS
    <3> HIDE DEF F
    <3> QED BY <1>5, <3>1, Greatest
  <2>2. m \in A /\ Cardinality(B(m)) < l
    OBVIOUS
  <2>3. F \ {m} \subseteq B(m)
    <3> SUFFICES ASSUME NEW i \in F, i # m PROVE i \in A /\ i < m
      OBVIOUS
    <3>1. i \in A /\ i \in 1 .. n /\ m \in 1 .. n /\ i <= m
      BY <2>1, <2>2
    <3> QED BY <3>1
  <2>4. IsFiniteSet(B(m)) /\ Cardinality(B(m)) \in Nat
    BY <1>2, <2>2, FS_CardinalityType
  <2> HIDE DEF F, B
  <2>5. Cardinality(F \ {m}) <= Cardinality(B(m))
    BY <2>3, <2>4, FS_Subset
  <2>6. Cardinality(F \ {m}) = Cardinality(F) - 1
    BY <1>2, <2>1, FS_RemoveElement
  <2> QED BY <1>3, <2>2, <2>4, <2>5, <2>6
<1> QED BY <1>4, <1>5

\* A list of jobs is finite, and so is what is left of the one under work.
LEMMA ListTyped ==
  ASSUME NEW s \in Syncs
  PROVE  IsFiniteSet(s.left) /\ Cardinality(s.left) \in Nat /\ JobLeft(s) \in 0 .. 11
<1>1. s.left \subseteq Ids
  BY DEF Syncs
<1>2. IsFiniteSet(Ids)
  BY SlskdAssumption, FS_Interval DEF Ids
<1>3. IsFiniteSet(s.left) /\ Cardinality(s.left) \in Nat
  BY <1>1, <1>2, FS_Subset, FS_CardinalityType
<1>4. JobLeft(s) \in 0 .. 11
  BY DEF JobLeft
<1> QED BY <1>3, <1>4

\* What a step at a job does to the list and to the steps left.
LEMMA JobStepCounts ==
  ASSUME TypeOK,
         \/ \E answer \in {"ok", "busy", "error"} : Search(answer)
         \/ Look \/ Enqueue \/ Fetch \/ Transferred \/ Build \/ Submit \/ Check
         \/ Save \/ WriteFails \/ Report \/ WriteAction
  PROVE  /\ sync.pc \in JobSteps /\ sync'.pc \in JobSteps \cup {"next"}
         /\ sync'.left = sync.left /\ JobLeft(sync') < JobLeft(sync)
<1> DEFINE Counted == /\ sync.pc \in JobSteps /\ sync'.pc \in JobSteps \cup {"next"}
                      /\ sync'.left = sync.left /\ JobLeft(sync') < JobLeft(sync)
<1>0. sync \in Syncs
  BY DEF TypeOK
<1>1. ASSUME NEW row, NEW st, NEW then, Write(sync, row, st, then)
      PROVE  sync'.pc = "save" /\ sync'.st = st /\ sync'.then = then /\ sync'.left = sync.left
  BY <1>0, <1>1 DEF Write, Syncs
<1>2. ASSUME Fail(sync)
      PROVE  sync'.pc = "save" /\ sync'.left = sync.left /\ JobLeft(sync') = 3
  BY <1>1, <1>2 DEF Fail, JobLeft
<1>3. ASSUME Leave PROVE sync'.pc = "next" /\ sync'.left = sync.left /\ JobLeft(sync') = 0
  BY <1>3 DEF Leave, Resting, JobLeft
<1>4. ASSUME NEW pc, Goto(pc)
      PROVE  /\ sync'.pc = pc /\ sync'.left = sync.left /\ sync'.st = sync.st
             /\ sync'.then = sync.then /\ sync'.seen = sync.seen
  BY <1>0, <1>4 DEF Goto, Syncs
<1>5. ASSUME NEW answer \in {"ok", "busy", "error"}, Search(answer) PROVE Counted
  <2>1. sync.pc = "search" /\ JobLeft(sync) = 10
    BY <1>5 DEF Search, JobLeft
  <2>2. \/ \E row : Write(sync, row, "none", "look")
        \/ \E row : Write(sync, row, "none", "next")
        \/ Fail(sync)
    BY <1>5 DEF Search
  <2> QED BY <1>1, <1>2, <2>1, <2>2 DEF JobLeft, JobSteps
<1>6. CASE Look
  <2>1. sync.pc = "look" /\ JobLeft(sync) = 8
    BY <1>6 DEF Look, JobLeft
  <2>2. \/ Leave \/ Fail(sync) \/ \E row : Write(sync, row, "needs_review", "report")
        \/ \E p : sync' = [sync EXCEPT !.pc = "enqueue", !.peer = p]
    BY <1>6 DEF Look
  <2>3. ASSUME NEW p, sync' = [sync EXCEPT !.pc = "enqueue", !.peer = p]
        PROVE  sync'.pc = "enqueue" /\ sync'.left = sync.left
    BY <1>0, <2>3 DEF Syncs
  <2>4. Leave \/ Fail(sync) \/ (\E row : Write(sync, row, "needs_review", "report"))
        \/ (sync'.pc = "enqueue" /\ sync'.left = sync.left)
    BY <2>2, <2>3
  <2> QED BY <1>1, <1>2, <1>3, <2>1, <2>4 DEF JobLeft, JobSteps
<1>7. CASE Enqueue
  <2>1. sync.pc = "enqueue" /\ JobLeft(sync) = 7
    BY <1>7 DEF Enqueue, JobLeft
  <2>2. Fail(sync) \/ \E row : Write(sync, row, "queued", "report")
    BY <1>7 DEF Enqueue
  <2> QED BY <1>1, <1>2, <2>1, <2>2 DEF JobLeft, JobSteps
<1>8. CASE Fetch
  <2>1. sync.pc = "transfers" /\ sync.seen = "no" /\ JobLeft(sync) = 10
    BY <1>8 DEF Fetch, JobLeft
  <2>2. sync'.pc = "transfers" /\ sync'.left = sync.left /\ sync'.seen \in {"yes", "broken"}
    BY <1>0, <1>8, <2>1 DEF Fetch, Syncs
  <2> QED BY <2>1, <2>2 DEF JobLeft, JobSteps
<1>9. CASE Transferred
  <2>1. sync.pc = "transfers" /\ sync.seen # "no" /\ JobLeft(sync) = 9
    BY <1>9 DEF Transferred, JobLeft
  <2>2. \/ Fail(sync) \/ Goto("import")
        \/ \E row, st : Write(sync, row, st, "report")
    BY <1>9 DEF Transferred
  <2> QED BY <1>1, <1>2, <1>4, <2>1, <2>2 DEF JobLeft, JobSteps
<1>10. CASE Build
  <2>1. sync.pc = "import" /\ JobLeft(sync) = 8
    BY <1>10 DEF Build, JobLeft
  <2>2. Fail(sync) \/ Goto("submit") \/ \E row : Write(sync, row, "skipped", "report")
    BY <1>10 DEF Build
  <2> QED BY <1>1, <1>2, <1>4, <2>1, <2>2 DEF JobLeft, JobSteps
<1>11. CASE Submit
  <2>1. sync.pc = "submit" /\ JobLeft(sync) = 7
    BY <1>11 DEF Submit, JobLeft
  <2>2. Fail(sync) \/ \E row : Write(sync, row, "import_pending", "report")
    BY <1>11 DEF Submit
  <2> QED BY <1>1, <1>2, <2>1, <2>2 DEF JobLeft, JobSteps
<1>12. CASE Check
  <2>1. sync.pc = "check" /\ JobLeft(sync) = 7
    BY <1>12 DEF Check, JobLeft
  <2>2. Fail(sync) \/ \E row, st : Write(sync, row, st, "report")
    BY <1>12 DEF Check
  <2> QED BY <1>1, <1>2, <2>1, <2>2 DEF JobLeft, JobSteps
<1>13. CASE Save
  <2>1. sync.pc = "save" /\ sync.then \in {"next", "search", "look", "report"}
    BY <1>0, <1>13 DEF Save, Syncs
  <2>2. Leave \/ (sync.then # "next" /\ Goto(sync.then))
    BY <1>13 DEF Save
  <2> QED BY <1>3, <1>4, <2>1, <2>2 DEF JobLeft, JobSteps
<1>14. CASE WriteFails
  <2>1. sync.pc \in {"save", "write"} /\ (Leave \/ (sync.st # "failed" /\ Fail(sync)))
    BY <1>14 DEF WriteFails
  <2> QED BY <1>2, <1>3, <2>1 DEF JobLeft, JobSteps
<1>15. CASE Report
  <2>1. sync.pc = "report"
    BY <1>15 DEF Report
  <2>2. Leave \/ \E a : sync' = [sync EXCEPT !.pc = "write", !.read = a]
    BY <1>15 DEF Report
  <2>3. ASSUME NEW a, sync' = [sync EXCEPT !.pc = "write", !.read = a]
        PROVE  sync'.pc = "write" /\ sync'.left = sync.left /\ sync'.st = sync.st
    BY <1>0, <2>3 DEF Syncs
  <2>4. Leave \/ (sync'.pc = "write" /\ sync'.left = sync.left /\ sync'.st = sync.st)
    BY <2>2, <2>3
  <2> QED BY <1>3, <2>1, <2>4 DEF JobLeft, JobSteps
<1>16. CASE WriteAction
  <2>1. sync.pc = "write" /\ Leave
    BY <1>16 DEF WriteAction
  <2> QED BY <1>3, <2>1 DEF JobLeft, JobSteps
<1> QED BY <1>5, <1>6, <1>7, <1>8, <1>9, <1>10, <1>11, <1>12, <1>13, <1>14, <1>15, <1>16

\* What a step of the intake does to its caller.
LEMMA CreatorCounts ==
  ASSUME TypeOK, NEW c \in Callers, Hunts(cr[c]), CreateStep(c)
  PROVE  \/ Throw(c)
         \/ /\ sync' = sync /\ Hunts(cr'[c]) /\ Spent(cr[c]) \in 0 .. 5 /\ Spent(cr'[c]) \in 0 .. 5
            /\ \/ cr'[c].left = cr[c].left /\ Spent(cr[c]) < Spent(cr'[c])
               \/ \E k \in cr[c].left : cr'[c].left = cr[c].left \ {k}
<1> DEFINE d == cr[c]  e == cr'[c]
<1>0. d \in Creators /\ cr \in [Callers -> Creators] /\ Spent(d) \in 0 .. 5 /\ Spent(e) \in 0 .. 5
  BY DEF TypeOK, Spent
<1>1. ASSUME NEW won, Settle(c, won), d.pc \in {"insert", "find", "retry"}
      PROVE  Hunts(e) /\ \E k \in d.left : e.left = d.left \ {k}
  <2>1. e = [Idle EXCEPT !.pc = "pick", !.left = d.left \ {d.rel}, !.lid = d.lid, !.won = d.won \/ won]
    BY <1>0, <1>1 DEF Settle
  <2>2. e.pc = "pick" /\ e.left = d.left \ {d.rel}
    BY <2>1 DEF Idle
  <2> QED BY <1>1, <2>2 DEF Hunts
<1>2. ASSUME NEW k \in Releases, Pick(c, k)
      PROVE  /\ sync' = sync /\ Hunts(e)
             /\ \/ e.left = d.left /\ Spent(d) < Spent(e)
                \/ e.left = d.left \ {k} /\ k \in d.left
  <2>1. /\ d.pc = "pick" /\ k \in d.left /\ sync' = sync /\ e.rel = k
        /\ \/ e.pc = "insert" /\ e.left = d.left
           \/ e.pc = "pick" /\ e.left = d.left \ {k}
    BY <1>0, <1>2 DEF Pick, Creators
  <2> QED BY <2>1 DEF Hunts, Spent
<1>3. CASE Insert(c)
  <2>1. d.pc = "insert" /\ sync' = sync /\ (Settle(c, TRUE) \/ Step(c, "find"))
    BY <1>3 DEF Insert
  <2>2. ASSUME Step(c, "find") PROVE Hunts(e) /\ e.left = d.left /\ Spent(d) < Spent(e)
    <3>1. e.pc = "find" /\ e.rel = d.rel /\ e.left = d.left /\ e.again = d.again
      BY <1>0, <2>2 DEF Step, Creators
    <3> QED BY <2>1, <3>1 DEF Hunts, Spent
  <2> QED BY <1>0, <1>1, <2>1, <2>2
<1>4. CASE Find(c)
  <2>1. /\ d.pc = "find"
        /\ \/ Throw(c)
           \/ /\ sync' = sync
              /\ \/ ~d.again /\ cr' = [cr EXCEPT ![c].pc = "insert", ![c].again = TRUE]
                 \/ \E won \in BOOLEAN : Settle(c, won)
                 \/ \E j : cr' = [cr EXCEPT ![c].pc = "retry", ![c].id = j,
                                     ![c].bad = IF c = NoRec THEN FailedPeers(j) ELSE {}]
    BY <1>4 DEF Find
  <2>0. d.pc = "find" /\ d.rel \in d.left
    BY <2>1 DEF Hunts
  <2>2. ASSUME ~d.again, cr' = [cr EXCEPT ![c].pc = "insert", ![c].again = TRUE]
        PROVE  Hunts(e) /\ e.left = d.left /\ Spent(d) < Spent(e)
    <3>1. e.pc = "insert" /\ e.rel = d.rel /\ e.left = d.left /\ e.again = TRUE
      BY <1>0, <2>2 DEF Creators
    <3>2. Spent(d) = 2 /\ Spent(e) = 3
      BY <2>0, <2>2, <3>1 DEF Spent
    <3> QED BY <2>0, <3>1, <3>2 DEF Hunts
  <2>3. ASSUME NEW j, cr' = [cr EXCEPT ![c].pc = "retry", ![c].id = j,
                                      ![c].bad = IF c = NoRec THEN FailedPeers(j) ELSE {}]
        PROVE  Hunts(e) /\ e.left = d.left /\ Spent(d) < Spent(e)
    <3>1. e.pc = "retry" /\ e.rel = d.rel /\ e.left = d.left
      BY <1>0, <2>3 DEF Creators
    <3>2. Spent(d) \in {2, 4} /\ Spent(e) = 5
      BY <2>0, <3>1 DEF Spent
    <3> QED BY <2>0, <3>1, <3>2 DEF Hunts
  <2> QED BY <1>0, <1>1, <2>1, <2>2, <2>3
<1>5. CASE Retry(c)
  <2>1. d.pc = "retry" /\ (Throw(c) \/ (sync' = sync /\ Settle(c, TRUE)))
    BY <1>5 DEF Retry
  <2> QED BY <1>0, <1>1, <2>1
<1>6. CASE QueryFails(c)
  BY <1>6 DEF QueryFails
<1> QED BY <1>0, <1>2, <1>3, <1>4, <1>5, <1>6 DEF CreateStep

\* Other steps leave what the sync and the intake have to do, end them, or begin them.
LEMMA OthersLeave ==
  ASSUME TypeOK, [Next]_vars, ~SyncStep
  PROVE  \/ sync' = sync /\ cr'[NoRec] = cr[NoRec]
         \/ sync' = Resting /\ cr'[NoRec] = Idle
         \/ Trigger /\ Hunts(cr'[NoRec])
<1>0. NoRec \in Callers /\ \A r \in Recs : r \in Callers /\ r # NoRec
  BY SlskdAssumption DEF Callers
<1>1. ASSUME NEW r \in Recs, ApproveStep(r)
      PROVE  sync' = sync /\ cr'[NoRec] = cr[NoRec]
  BY <1>0, <1>1 DEF ApproveStep, CreateStep, Pick, Insert, Find, Retry, QueryFails, Approved,
     Settle, Step, Throw, TypeOK
<1>2. ASSUME NEW r \in Recs, NEW rels, NEW lid, Approve(r, rels, lid)
      PROVE  sync' = sync /\ cr'[NoRec] = cr[NoRec]
  BY <1>0, <1>2 DEF Approve, TypeOK
<1>3. Trigger => Hunts(cr'[NoRec])
  <2> SUFFICES ASSUME Trigger PROVE cr'[NoRec].pc = "pick"
    BY DEF Hunts
  <2>1. PICK l : cr' = [cr EXCEPT ![NoRec] = [Idle EXCEPT !.pc = "pick", !.lid = TRUE, !.left = l]]
    BY DEF Trigger
  <2>2. cr'[NoRec] = [Idle EXCEPT !.pc = "pick", !.lid = TRUE, !.left = l]
    BY <1>0, <2>1 DEF TypeOK
  <2> QED BY <2>2 DEF Idle
<1>4. Outside => sync' = sync /\ cr' = cr
  BY DEF Outside, Transfer, Imported, LidarrGets, Elapse, PauseOver, Edit
<1>5. Crash => sync' = Resting /\ cr'[NoRec] = Idle
  BY <1>0 DEF Crash
<1>6. UNCHANGED vars => sync' = sync /\ cr' = cr
  BY DEF vars
<1> QED BY <1>1, <1>2, <1>3, <1>4, <1>5, <1>6 DEF Next

\* A step of a sync uses up at least one, and leaves the intake with a release in hand.
LEMMA SyncCounts ==
  ASSUME IInv, TypeOK', IsFiniteSet(Releases), Hunts(cr[NoRec]), SyncStep
  PROVE  SyncLeft(sync', cr'[NoRec]) < SyncLeft(sync, cr[NoRec]) /\ Hunts(cr'[NoRec])
<1> DEFINE d == cr[NoRec]  e == cr'[NoRec]
<1>0. TypeOK /\ NoRec \in Callers /\ Limit \in Nat \ {0}
  BY SlskdAssumption DEF IInv, Callers
<1>1. /\ sync \in Syncs /\ Cardinality(sync.left) \in Nat /\ Cardinality(sync'.left) \in Nat
      /\ IsFiniteSet(sync.left) /\ JobLeft(sync) \in 0 .. 11 /\ JobLeft(sync') \in 0 .. 11
  <2>1. sync \in Syncs /\ sync' \in Syncs
    BY <1>0 DEF TypeOK
  <2> QED BY <2>1, ListTyped
<1>2. IsFiniteSet(d.left) /\ Cardinality(d.left) \in Nat /\ Cardinality(e.left) \in Nat
  <2>1. d.left \subseteq Releases /\ e.left \subseteq Releases
    BY <1>0 DEF TypeOK, Creators
  <2> QED BY <2>1, FS_Subset, FS_CardinalityType
<1>3. Hunts(Idle) /\ SyncLeft(Resting, Idle) = 0
  BY DEF Hunts, Idle, Resting, SyncLeft
<1>4. sync.pc = "intake" => SyncLeft(sync, d) \in Int /\ SyncLeft(sync, d) > 12 * Limit + 2
  <2>1. Spent(d) > 0 => d.pc \in {"insert", "find", "retry"}
    BY DEF Spent
  <2>2. Spent(d) \in 0 .. 5 BY DEF Spent
  <2>3. Spent(d) > 0 => Cardinality(d.left) > 0
    <3> SUFFICES ASSUME d.left # {} PROVE Cardinality(d.left) > 0
      BY <2>1 DEF Hunts
    <3>1. PICK k \in d.left : TRUE OBVIOUS
    <3>2. Cardinality(d.left) # 0
      BY <1>2, <3>1, FS_EmptySet
    <3> QED BY <1>2, <3>2
  <2> QED BY <1>0, <1>2, <2>2, <2>3 DEF SyncLeft
<1>5. sync.pc # "idle" => SyncLeft(sync, d) > 0
  <2>1. CASE sync.pc = "intake" BY <1>0, <1>4, <2>1
  <2>2. CASE sync.pc = "list" BY <1>0, <2>2 DEF SyncLeft
  <2>3. CASE sync.pc \notin {"idle", "intake", "list"} BY <1>1, <2>3 DEF SyncLeft
  <2> QED BY <2>1, <2>2, <2>3
<1>6. ASSUME sync' = Resting, e = Idle, sync.pc # "idle"
      PROVE  SyncLeft(sync', e) < SyncLeft(sync, d) /\ Hunts(e)
  BY <1>3, <1>5, <1>6
<1>7. CASE CreateStep(NoRec)
  <2>1. d.pc # "idle" /\ sync.pc = "intake"
    <3>1. d.pc # "idle"
      BY <1>7 DEF CreateStep, Pick, Insert, Find, Retry, QueryFails
    <3> QED BY <3>1 DEF IInv, Taking
  <2>2. CASE Throw(NoRec)
    <3>1. sync' = Resting /\ e = Idle
      BY <1>0, <2>2 DEF Throw, TypeOK
    <3> QED BY <1>6, <2>1, <3>1
  <2>3. CASE /\ sync' = sync /\ Hunts(e) /\ Spent(d) \in 0 .. 5 /\ Spent(e) \in 0 .. 5
             /\ e.left = d.left /\ Spent(d) < Spent(e)
    BY <1>0, <1>2, <2>1, <2>3 DEF SyncLeft
  <2>4. ASSUME sync' = sync, Hunts(e), Spent(d) \in 0 .. 5, Spent(e) \in 0 .. 5,
               NEW k \in d.left, e.left = d.left \ {k}
        PROVE  SyncLeft(sync', e) < SyncLeft(sync, d)
    <3>1. Cardinality(e.left) = Cardinality(d.left) - 1
      <4>1. PICK s : s = d.left OBVIOUS
      <4>2. IsFiniteSet(s) /\ k \in s /\ e.left = s \ {k}
        BY <1>2, <2>4, <4>1
      <4>3. Cardinality(s \ {k}) = Cardinality(s) - 1
        BY ONLY <4>2, FS_RemoveElement
      <4> QED BY <4>1, <4>2, <4>3
    <3>2. /\ SyncLeft(sync, d) = 12 * Limit + 3 + 6 * Cardinality(d.left) - Spent(d)
          /\ SyncLeft(sync', e) = 12 * Limit + 3 + 6 * (Cardinality(d.left) - 1) - Spent(e)
      BY <2>1, <2>4, <3>1 DEF SyncLeft
    <3> QED BY <1>0, <1>2, <2>4, <3>2
  <2> QED BY <1>0, <1>7, <2>2, <2>3, <2>4, CreatorCounts
<1>8. CASE IntakeDone
  <2>1. sync.pc = "intake" /\ sync'.pc = "list" /\ e = Idle
    BY <1>0, <1>1, <1>8 DEF IntakeDone, Syncs, TypeOK
  <2>2. SyncLeft(sync', e) = 12 * Limit + 2
    BY <2>1 DEF SyncLeft
  <2> QED BY <1>0, <1>3, <1>4, <2>1, <2>2
<1>9. CASE IntakeFails
  <2>1. sync.pc = "intake" /\ sync' = Resting /\ e = Idle
    BY <1>0, <1>9 DEF IntakeFails, TypeOK
  <2> QED BY <1>6, <2>1
<1>10. CASE List
  <2>1. /\ sync.pc = "list" /\ sync'.pc = "next" /\ cr' = cr
        /\ sync'.left = {j \in ActiveRows : Cardinality({i \in ActiveRows : i < j}) < Limit}
    BY <1>1, <1>10 DEF List, Syncs
  <2>2. ActiveRows \subseteq 1 .. Len(jobs) /\ Len(jobs) \in Nat
    BY <1>0, RowsTyped DEF ActiveRows, Rows
  <2>3. Cardinality(sync'.left) <= Limit
    <3>1. PICK A \in SUBSET (1 .. Len(jobs)) : A = ActiveRows
      BY <2>2
    <3>2. Cardinality({j \in A : Cardinality({i \in A : i < j}) < Limit}) <= Limit
      BY <1>0, <2>2, FirstFew
    <3> QED BY <2>1, <3>1, <3>2
  <2>4. SyncLeft(sync, d) = 12 * Limit + 2 /\ SyncLeft(sync', e) = 12 * Cardinality(sync'.left) + 1
    <3>1. JobLeft(sync') = 0
      BY <2>1 DEF JobLeft
    <3> QED BY <1>1, <2>1, <3>1 DEF SyncLeft
  <2> QED BY <1>0, <1>1, <2>1, <2>3, <2>4
<1>11. CASE NextJob
  <2>1. PICK j \in sync.left :
          LET s == [sync EXCEPT !.id = j, !.left = sync.left \ {j}, !.peer = NoPeer] IN
          \/ \E row, st, then : Write(s, row, st, then)
          \/ sync' = [s EXCEPT !.id = 0]
          \/ \E pc \in {"look", "transfers", "check"} : sync' = [s EXCEPT !.pc = pc]
    BY <1>11 DEF NextJob, Fail
  <2>2. PICK s : s = [sync EXCEPT !.id = j, !.left = sync.left \ {j}, !.peer = NoPeer]
    OBVIOUS
  <2>3. sync.pc = "next" /\ cr' = cr
    BY <1>11 DEF NextJob
  <2>4. s \in Syncs /\ s.left = sync.left \ {j} /\ s.pc = "next"
    <3>1. j \in Ids /\ sync.left \ {j} \in SUBSET Ids
      BY <1>1 DEF Syncs
    <3>2. j \in 0 .. MaxJobs
      BY <3>1, SlskdAssumption DEF Ids
    <3>3. NoPeer \in Peers \cup {NoPeer}
      OBVIOUS
    <3> QED BY <1>1, <2>2, <2>3, <3>1, <3>2, <3>3 DEF Syncs
  <2>5. sync'.left = sync.left \ {j} /\ sync'.pc \in {"save", "next", "look", "transfers", "check"}
    <3>1. \/ \E row, st, then : Write(s, row, st, then)
          \/ sync' = [s EXCEPT !.id = 0]
          \/ \E pc \in {"look", "transfers", "check"} : sync' = [s EXCEPT !.pc = pc]
      BY <2>1, <2>2
    <3>2. ASSUME NEW row, NEW st, NEW then, Write(s, row, st, then)
          PROVE  sync'.left = s.left /\ sync'.pc = "save"
      BY <2>4, <3>2 DEF Write, Syncs
    <3>3. ASSUME sync' = [s EXCEPT !.id = 0] PROVE sync'.left = s.left /\ sync'.pc = "next"
      BY <2>4, <3>3 DEF Syncs
    <3>4. ASSUME NEW pc \in {"look", "transfers", "check"}, sync' = [s EXCEPT !.pc = pc]
          PROVE  sync'.left = s.left /\ sync'.pc = pc
      BY <2>4, <3>4 DEF Syncs
    <3> QED BY <2>4, <3>1, <3>2, <3>3, <3>4
  <2>6. Cardinality(sync'.left) = Cardinality(sync.left) - 1
    <3>1. PICK l : l = sync.left OBVIOUS
    <3>2. IsFiniteSet(l) /\ j \in l /\ sync'.left = l \ {j}
      BY <1>1, <2>5, <3>1
    <3>3. Cardinality(l \ {j}) = Cardinality(l) - 1
      BY ONLY <3>2, FS_RemoveElement
    <3> QED BY <3>1, <3>2, <3>3
  <2>7. SyncLeft(sync, d) = 12 * Cardinality(sync.left) + 1
        /\ SyncLeft(sync', e) = 12 * (Cardinality(sync.left) - 1) + JobLeft(sync') + 1
    <3>1. JobLeft(sync) = 0
      BY <2>3 DEF JobLeft
    <3> QED BY <1>1, <2>3, <2>5, <2>6, <3>1 DEF SyncLeft
  <2> QED BY <1>1, <2>3, <2>7
<1>12. CASE SyncDone
  <2>1. sync.pc = "next" /\ sync' = Resting /\ cr' = cr
    BY <1>12 DEF SyncDone
  <2>2. SyncLeft(sync', e) = 0
    BY <2>1 DEF SyncLeft, Resting
  <2> QED BY <1>5, <2>1, <2>2
<1>13. CASE \/ \E answer \in {"ok", "busy", "error"} : Search(answer)
            \/ Look \/ Enqueue \/ Fetch \/ Transferred \/ Build \/ Submit \/ Check
            \/ Save \/ WriteFails \/ Report \/ WriteAction
  <2>1. /\ sync.pc \in JobSteps /\ sync'.pc \in JobSteps \cup {"next"}
        /\ sync'.left = sync.left /\ JobLeft(sync') < JobLeft(sync)
    BY <1>0, <1>13, JobStepCounts
  <2>2. cr' = cr
    BY <1>13 DEF Search, Look, Enqueue, Fetch, Transferred, Build, Submit, Check, Save, WriteFails,
       Report, WriteAction
  <2>3. /\ SyncLeft(sync, d) = 12 * Cardinality(sync.left) + JobLeft(sync) + 1
        /\ SyncLeft(sync', e) = 12 * Cardinality(sync.left) + JobLeft(sync') + 1
    BY <2>1 DEF SyncLeft, JobSteps
  <2> QED BY <1>1, <2>1, <2>2, <2>3
<1> QED BY <1>7, <1>8, <1>9, <1>10, <1>11, <1>12, <1>13 DEF SyncStep

\* A sync that found n releases wanted is over after 6 * n + 12 * Limit + 3 steps at most:
\* no answer makes it try again, and every job of its list is worked on once.
THEOREM StepsRunOut == IsFiniteSet(Releases) => (Spec => SyncStepCounts)
<1> SUFFICES ASSUME IsFiniteSet(Releases) PROVE Spec => SyncStepCounts
  OBVIOUS
<1> DEFINE HInv == Hunts(cr[NoRec])
<1>1. Init => HInv
  BY DEF Init, Hunts, Idle, Callers
<1>2. ASSUME IInv, IInv', HInv, [Next]_vars
      PROVE  /\ HInv'
             /\ SyncStep => SyncLeft(sync', cr'[NoRec]) < SyncLeft(sync, cr[NoRec])
             /\ SyncLeft(sync', cr'[NoRec]) > SyncLeft(sync, cr[NoRec]) => Trigger
  <2>1. TypeOK /\ TypeOK'
    BY <1>2 DEF IInv
  <2>2. /\ Cardinality(sync.left) \in Nat /\ JobLeft(sync) \in 0 .. 11 /\ Limit \in Nat
        /\ Cardinality(cr[NoRec].left) \in Nat
    <3>1. cr[NoRec].left \subseteq Releases
      BY <2>1 DEF TypeOK, Callers, Creators
    <3>2. sync \in Syncs
      BY <2>1 DEF TypeOK
    <3> QED BY <3>1, <3>2, ListTyped, SlskdAssumption, FS_Subset, FS_CardinalityType
  <2>3. CASE SyncStep
    <3>1. SyncLeft(sync', cr'[NoRec]) < SyncLeft(sync, cr[NoRec]) /\ HInv'
      BY <1>2, <2>1, <2>3, SyncCounts
    <3>2. ~(SyncLeft(sync', cr'[NoRec]) > SyncLeft(sync, cr[NoRec]))
      <4>1. SyncLeft(sync, cr[NoRec]) \in Int /\ SyncLeft(sync', cr'[NoRec]) \in Int
        <5>1. Spent(cr[NoRec]) \in Int /\ Spent(cr'[NoRec]) \in Int
          BY DEF Spent
        <5>2. Cardinality(sync'.left) \in Nat /\ JobLeft(sync') \in 0 .. 11 /\ Cardinality(cr'[NoRec].left) \in Nat
          <6>1. cr'[NoRec].left \subseteq Releases
            BY <2>1 DEF TypeOK, Callers, Creators
          <6>2. sync' \in Syncs
            BY <2>1 DEF TypeOK
          <6> QED BY <6>1, <6>2, ListTyped, FS_Subset, FS_CardinalityType
        <5> QED BY <2>2, <5>1, <5>2 DEF SyncLeft
      <4> QED BY <3>1, <4>1
    <3> QED BY <3>1, <3>2
  <2>4. CASE ~SyncStep
    <3>1. CASE sync' = sync /\ cr'[NoRec] = cr[NoRec]
      <4>1. SyncLeft(sync, cr[NoRec]) \in Int
        <5>1. Spent(cr[NoRec]) \in Int
          BY DEF Spent
        <5> QED BY <2>2, <5>1 DEF SyncLeft
      <4> QED BY <1>2, <2>4, <3>1, <4>1
    <3>2. CASE sync' = Resting /\ cr'[NoRec] = Idle
      <4>1. HInv' /\ SyncLeft(sync', cr'[NoRec]) = 0
        BY <3>2 DEF Hunts, Idle, Resting, SyncLeft
      <4>2. SyncLeft(sync, cr[NoRec]) \in Int /\ SyncLeft(sync, cr[NoRec]) >= 0
        <5>1. Spent(cr[NoRec]) \in 0 .. 5 /\ (Spent(cr[NoRec]) > 0 => cr[NoRec].left # {})
          BY <1>2 DEF Spent, Hunts
        <5>2. cr[NoRec].left # {} => Cardinality(cr[NoRec].left) > 0
          <6>1. IsFiniteSet(cr[NoRec].left)
            BY <2>1, FS_Subset DEF TypeOK, Callers, Creators
          <6>2. cr[NoRec].left # {} => Cardinality(cr[NoRec].left) # 0
            BY <6>1, FS_EmptySet
          <6> QED BY <2>2, <6>2
        <5> QED BY <2>2, <5>1, <5>2 DEF SyncLeft
      <4> QED BY <2>4, <4>1, <4>2
    <3>3. CASE Trigger /\ Hunts(cr'[NoRec])
      BY <2>4, <3>3
    <3> QED BY <1>2, <2>1, <2>4, <3>1, <3>2, <3>3, OthersLeave
  <2> QED BY <2>3, <2>4
<1>3. IInv /\ IInv' /\ HInv /\ [Next]_vars =>
        /\ HInv'
        /\ [/\ SyncStep => SyncLeft(sync, cr[NoRec])' < SyncLeft(sync, cr[NoRec])
            /\ SyncLeft(sync, cr[NoRec])' > SyncLeft(sync, cr[NoRec]) => Trigger]_vars
  BY <1>2
<1> HIDE DEF HInv
<1> QED BY <1>1, <1>3, Invariance, PTL DEF Spec, SyncStepCounts
=============================================================================
