----------------------------- MODULE SlskdJobs -----------------------------
(***************************************************************************)
(* The acquisition jobs of one slskd target: the rows of slskd_jobs        *)
(* (db/queries/slskd-jobs.ts), the approvals that queue releases           *)
(* (core/slskd/runner.ts), the background sync that takes in what Lidarr   *)
(* wants and moves every job from search to import                         *)
(* (core/slskd/orchestrator.ts), and the action of the recommendation that *)
(* follows (core/targets/slskd-recommendation.ts).                         *)
(*                                                                         *)
(* One action per awaited call.  slskd, Lidarr and the peers answer as     *)
(* they like; `faults` counts what an operator would call an incident.     *)
(***************************************************************************)
EXTENDS Naturals, FiniteSets, Sequences

CONSTANTS
  Recs,         \* recommendations
  Releases,     \* release groups; with the target they are the work keys
  Covers,       \* the releases an approval of each recommendation queues
  Wanted,       \* releases Lidarr monitors
  Peers,        \* who offers a release: a peer and one folder
  NoRec, NoPeer,
  Configs,      \* configurations the target may have
  MaxRetries,   \* SLSKD_MAX_AUTO_RETRIES
  MaxChecks,    \* MAX_IMPORT_CHECKS
  Limit,        \* jobs one sync works on
  MaxJobs, MaxApprovals, MaxFaults   \* bounds

ASSUME SlskdAssumption ==
  /\ NoRec \notin Recs /\ NoPeer \notin Peers /\ Releases # {}
  /\ Covers \in [Recs -> SUBSET Releases] /\ Wanted \subseteq Releases
  /\ Configs \subseteq {"ok", "nopath", "nolidarr", "unlinked"}
  /\ MaxRetries \in Nat /\ MaxChecks \in Nat \ {0} /\ Limit \in Nat \ {0}
  /\ MaxJobs \in Nat /\ MaxApprovals \in Nat /\ MaxFaults \in Nat

VARIABLES
  jobs,       \* the rows, oldest first
  act,        \* the slskd action of each recommendation
  cr,         \* createSlskdJob and its callers: an approval, or the intake (NoRec)
  sync,       \* the one run of the orchestrator
  paced,      \* searchPacing: slskd asked for a pause that has not passed
  config,     \* the target's configuration
  batch,      \* slskd: the download of each job
  cmd,        \* Lidarr: the import command of each job
  have,       \* Lidarr: releases whose tracks all have files
  hist,       \* what happened to each job since it was created or approved again
  approvals,  \* approvals so far
  faults      \* crashes, lost answers, failed writes and edits of the target so far

vars == <<jobs, act, cr, sync, paced, config, batch, cmd, have, hist, approvals, faults>>
outside == <<config, batch, cmd, have>>

Ids == 1..MaxJobs
Rows == 1..Len(jobs)
Callers == Recs \cup {NoRec}

Active == {"pending", "searching", "queued", "downloading", "import_pending"}
\* the states of the unique index on the work key
Conflicting == Active \cup {"failed"}
States == Conflicting \cup {"completed", "cancelled"}
Following == {"queued", "downloading", "import_pending"}
ActionStates == Following \cup {"none", "added", "failed", "needs_review", "skipped"}
Transfers == {"none", "queued", "active", "done", "failed"}
Fault == faults < MaxFaults /\ faults' = faults + 1

\* age: 0 just written, 1 past the search timeout or the first cooldown, 2 past the longest
Job == [rel: Releases, rec: Callers, lid: BOOLEAN, state: States, att: Nat,
        found: BOOLEAN, peer: Peers \cup {NoPeer}, bad: SUBSET Peers,
        checks: 0..MaxChecks, review: BOOLEAN, age: 0..2]

NewJob(rel, rec, lid) ==
  [rel |-> rel, rec |-> rec, lid |-> lid, state |-> "pending", att |-> 0,
   found |-> FALSE, peer |-> NoPeer, bad |-> {}, checks |-> 0, review |-> FALSE, age |-> 0]

\* searches made, peers whose download failed, automatic retries
NoHist == [searches |-> 0, tried |-> {}, retries |-> 0]

Idle == [pc |-> "idle", left |-> {}, rel |-> CHOOSE k \in Releases : TRUE, id |-> 0,
         bad |-> {}, lid |-> FALSE, won |-> FALSE, again |-> FALSE]

NoDownloads == [j \in Ids |-> "none"]
Resting == [pc |-> "idle", cfg |-> "ok", left |-> {}, id |-> 0, peer |-> NoPeer,
            row |-> NewJob(CHOOSE k \in Releases : TRUE, NoRec, FALSE), st |-> "none",
            then |-> "next", read |-> "none", seen |-> "no", snap |-> NoDownloads]

Creators ==
  [pc: {"idle", "pick", "insert", "find", "retry"}, left: SUBSET Releases, rel: Releases,
   id: 0..MaxJobs, bad: SUBSET Peers, lid: BOOLEAN, won: BOOLEAN, again: BOOLEAN]
Syncs ==
  [pc: {"idle", "intake", "list", "next", "search", "look", "enqueue", "transfers",
        "import", "submit", "check", "save", "report", "write"},
   cfg: {"ok", "nopath", "nolidarr", "unlinked"}, left: SUBSET Ids, id: 0..MaxJobs,
   peer: Peers \cup {NoPeer}, row: Job, st: ActionStates,
   then: {"next", "search", "look", "report"}, read: ActionStates,
   seen: {"no", "yes", "broken"}, snap: [Ids -> Transfers]]

TypeOK ==
  /\ jobs \in Seq(Job) /\ Len(jobs) <= MaxJobs
  /\ act \in [Recs -> ActionStates]
  /\ cr \in [Callers -> Creators]
  /\ sync \in Syncs
  /\ paced \in BOOLEAN
  /\ config \in {"ok", "nopath", "nolidarr", "unlinked"}
  /\ batch \in [Ids -> Transfers]
  /\ cmd \in [Ids -> {"none", "running", "completed", "failed"}]
  /\ have \subseteq Releases
  /\ hist \in [Ids -> [searches: Nat, tried: SUBSET Peers, retries: Nat]]
  /\ approvals \in 0..MaxApprovals
  /\ faults \in 0..MaxFaults

Init ==
  /\ jobs = <<>>
  /\ act = [r \in Recs |-> "none"]
  /\ cr = [c \in Callers |-> Idle]
  /\ sync = Resting
  /\ paced = FALSE
  /\ config \in Configs
  /\ batch = NoDownloads
  /\ cmd = [j \in Ids |-> "none"]
  /\ have = {}
  /\ hist = [j \in Ids |-> NoHist]
  /\ approvals = 0
  /\ faults = 0

-----------------------------------------------------------------------------
(* createSlskdJob, one query at a time, for each of its callers. *)

Found(rel, states) == {j \in Rows : jobs[j].rel = rel /\ jobs[j].state \in states}

Step(c, pc) == cr' = [cr EXCEPT ![c].pc = pc]
\* the release is dealt with; `won` when its job is, or will be, worked on
Settle(c, won) ==
  cr' = [cr EXCEPT ![c] = [Idle EXCEPT !.pc = "pick", !.left = cr[c].left \ {cr[c].rel},
                                       !.lid = cr[c].lid, !.won = cr[c].won \/ won]]
\* createSlskdJob throws: the approval has failed, the sync is over
Throw(c) ==
  /\ cr' = [cr EXCEPT ![c] = Idle]
  /\ IF c = NoRec THEN sync' = Resting /\ UNCHANGED act
     ELSE act' = [act EXCEPT ![c] = "failed"] /\ UNCHANGED sync

\* findActiveJob, by queueArtist, queueAlbum and intakeWantedReleases
Pick(c, rel) ==
  /\ cr[c].pc = "pick" /\ rel \in cr[c].left
  /\ cr' = [cr EXCEPT ![c].rel = rel,
             ![c].pc = IF Found(rel, Active) = {} THEN "insert" ELSE "pick",
             ![c].left = IF Found(rel, Active) = {} THEN cr[c].left ELSE cr[c].left \ {rel},
             ![c].won = cr[c].won \/ Found(rel, Active) # {}]
  /\ UNCHANGED <<jobs, act, sync, paced, hist, approvals, faults, outside>>

\* mutant: the work keys have no unique index
InsertAlways(c) ==
  /\ cr[c].pc = "insert" /\ Len(jobs) < MaxJobs
  /\ jobs' = Append(jobs, NewJob(cr[c].rel, c, cr[c].lid))
  /\ Settle(c, TRUE)
  /\ UNCHANGED <<act, sync, paced, hist, approvals, faults, outside>>

\* INSERT ... ON CONFLICT DO NOTHING
Insert(c) ==
  /\ cr[c].pc = "insert"
  /\ IF Found(cr[c].rel, Conflicting) = {}
     THEN /\ Len(jobs) < MaxJobs
          /\ jobs' = Append(jobs, NewJob(cr[c].rel, c, cr[c].lid))
          /\ Settle(c, TRUE)
     ELSE Step(c, "find") /\ UNCHANGED jobs
  /\ UNCHANGED <<act, sync, paced, hist, approvals, faults, outside>>

\* mutant: an attempt too many
MayRetryOnceMore(c, j) ==
  IF c = NoRec
  THEN jobs[j].att <= MaxRetries + 1 /\ jobs[j].age >= (IF jobs[j].att > 1 THEN 2 ELSE 1)
  ELSE jobs[j].age >= 1

\* retryFailedSlskdJob: the intake is held to its budget, both to a cooldown
MayRetry(c, j) ==
  IF c = NoRec
  THEN jobs[j].att <= MaxRetries /\ jobs[j].age >= (IF jobs[j].att > 1 THEN 2 ELSE 1)
  ELSE jobs[j].age >= 1

\* collectFailedReleases
FailedPeers(j) == jobs[j].bad \cup ({jobs[j].peer} \ {NoPeer})

\* findSlskdJobByWorkKey, and what is done about the row found
Find(c) ==
  /\ cr[c].pc = "find"
  /\ \/ /\ Found(cr[c].rel, Conflicting) = {}
        /\ IF cr[c].again THEN Throw(c)
           ELSE /\ cr' = [cr EXCEPT ![c].pc = "insert", ![c].again = TRUE]
                /\ UNCHANGED <<act, sync>>
     \/ \E j \in Found(cr[c].rel, Conflicting) :
          /\ \/ jobs[j].state # "failed" /\ Settle(c, TRUE)
             \/ jobs[j].state = "failed" /\ ~MayRetry(c, j) /\ Settle(c, FALSE)
             \/ /\ jobs[j].state = "failed" /\ MayRetry(c, j)
                /\ cr' = [cr EXCEPT ![c].pc = "retry", ![c].id = j,
                            ![c].bad = IF c = NoRec THEN FailedPeers(j) ELSE {}]
          /\ UNCHANGED <<act, sync>>
  /\ UNCHANGED <<jobs, paced, hist, approvals, faults, outside>>

\* mutant: the retry forgets which peers failed
RetryForgetful(c) ==
  /\ cr[c].pc = "retry"
  /\ LET j == cr[c].id IN
     /\ jobs[j].state = "failed"
     /\ jobs' = [jobs EXCEPT ![j] =
          [NewJob(cr[c].rel, c, cr[c].lid) EXCEPT !.att = IF c = NoRec THEN jobs[j].att ELSE 0]]
     /\ hist' = [hist EXCEPT ![j] =
          IF c = NoRec THEN [hist[j] EXCEPT !.retries = hist[j].retries + 1] ELSE NoHist]
     /\ Settle(c, TRUE) /\ UNCHANGED <<act, sync>>
  /\ UNCHANGED <<paced, approvals, faults, outside>>

\* UPDATE ... WHERE state = 'failed': the row starts again for this caller.  The code keeps the
\* last 20 failed releases, more than the retry budget lets the intake collect.
Retry(c) ==
  /\ cr[c].pc = "retry"
  /\ LET j == cr[c].id IN
     \/ /\ jobs[j].state = "failed"
        /\ jobs' = [jobs EXCEPT ![j] =
             [NewJob(cr[c].rel, c, cr[c].lid) EXCEPT
                !.bad = cr[c].bad, !.att = IF c = NoRec THEN jobs[j].att ELSE 0]]
        /\ hist' = [hist EXCEPT ![j] =
             IF c = NoRec THEN [hist[j] EXCEPT !.retries = hist[j].retries + 1] ELSE NoHist]
        /\ Settle(c, TRUE) /\ UNCHANGED <<act, sync>>
     \/ /\ jobs[j].state # "failed"
        /\ IF Found(cr[c].rel, Active) # {} THEN Settle(c, TRUE) /\ UNCHANGED <<act, sync>>
           ELSE Throw(c)
        /\ UNCHANGED <<jobs, hist>>
  /\ UNCHANGED <<paced, approvals, faults, outside>>

\* a query of a caller fails
QueryFails(c) ==
  /\ Fault /\ cr[c].pc \in {"insert", "find", "retry"} /\ Throw(c)
  /\ UNCHANGED <<jobs, paced, hist, approvals, outside>>

-----------------------------------------------------------------------------
(* An approval, inside the approval lock of its recommendation. *)

\* the sync holds the lock of the recommendation it reports to from read to write
Locked(r) == cr[r].pc # "idle" \/ (sync.pc = "write" /\ sync.row.rec = r)

\* addArtist or addAlbum; MusicBrainz may know no release.  A combined approval
\* has added the artist to Lidarr.
Approve(r, rels, lid) ==
  /\ ~Locked(r) /\ approvals < MaxApprovals
  /\ rels \in {Covers[r], {}}
  /\ cr' = [cr EXCEPT ![r] = [Idle EXCEPT !.pc = "pick", !.left = rels, !.lid = lid]]
  /\ approvals' = approvals + 1
  /\ UNCHANGED <<jobs, act, sync, paced, hist, faults, outside>>

\* the approval saves what became of the target
Approved(r) ==
  /\ cr[r].pc = "pick" /\ cr[r].left = {}
  /\ act' = [act EXCEPT ![r] = IF cr[r].won THEN "queued" ELSE "failed"]
  /\ cr' = [cr EXCEPT ![r] = Idle]
  /\ UNCHANGED <<jobs, sync, paced, hist, approvals, faults, outside>>

-----------------------------------------------------------------------------
(* The sync: intake, then the oldest active jobs one by one. *)

\* triggerSync with no run under way: runSync.  A call during a run joins it.
Trigger ==
  /\ sync.pc = "idle"
  /\ sync' = [Resting EXCEPT !.pc = "intake", !.cfg = config]
  /\ cr' = [cr EXCEPT ![NoRec] = [Idle EXCEPT
              !.pc = "pick", !.lid = TRUE,
              !.left = IF config \in {"ok", "nopath"} THEN Wanted \ have ELSE {}]]
  /\ UNCHANGED <<jobs, act, paced, hist, approvals, faults, outside>>

IntakeDone ==
  /\ sync.pc = "intake" /\ cr[NoRec].pc = "pick" /\ cr[NoRec].left = {}
  /\ sync' = [sync EXCEPT !.pc = "list"]
  /\ cr' = [cr EXCEPT ![NoRec] = Idle]
  /\ UNCHANGED <<jobs, act, paced, hist, approvals, faults, outside>>

\* getWantedMissing throws, which ends the run before any job is looked at
IntakeFails ==
  /\ sync.pc = "intake" /\ cr[NoRec].pc = "pick" /\ sync.cfg \in {"ok", "nopath"}
  /\ sync' = Resting
  /\ cr' = [cr EXCEPT ![NoRec] = Idle]
  /\ UNCHANGED <<jobs, act, paced, hist, approvals, faults, outside>>

ActiveRows == {j \in Rows : jobs[j].state \in Active}

\* listPendingJobs and listTargets
List ==
  /\ sync.pc = "list"
  /\ sync' = [sync EXCEPT !.pc = "next", !.cfg = config,
                !.left = {j \in ActiveRows : Cardinality({i \in ActiveRows : i < j}) < Limit}]
  /\ UNCHANGED <<jobs, act, cr, paced, hist, approvals, faults, outside>>

\* updateJobState(row), then updateRecommendationAction(st) if there is one to make
Write(s, row, st, then) ==
  sync' = [s EXCEPT !.pc = "save", !.row = row, !.st = st, !.then = then]
\* failJob
Fail(s) == Write(s, [jobs[s.id] EXCEPT !.state = "failed", !.review = FALSE], "failed", "report")
Goto(pc) == sync' = [sync EXCEPT !.pc = pc]
\* on to the next job of the list
Leave == sync' = [Resting EXCEPT !.pc = "next", !.cfg = sync.cfg, !.left = sync.left,
                                 !.seen = sync.seen, !.snap = sync.snap]

\* the job at the head of the list, and the branch processJobs takes with it
NextJob ==
  /\ sync.pc = "next"
  /\ \E j \in sync.left :
       /\ \A k \in sync.left : j <= k
       /\ LET row == jobs[j]
              s == [sync EXCEPT !.id = j, !.left = sync.left \ {j}, !.peer = NoPeer]
          IN \/ sync.cfg \in {"nopath", "nolidarr"} /\ Fail(s)
             \/ /\ sync.cfg \in {"ok", "unlinked"}
                /\ \/ /\ row.state \in {"pending", "searching"}
                      /\ \/ row.found /\ sync' = [s EXCEPT !.pc = "look"]
                         \/ ~row.found /\ paced /\ sync' = [s EXCEPT !.id = 0]
                         \/ /\ ~row.found /\ ~paced
                            /\ Write(s, [row EXCEPT !.state = "searching", !.att = row.att + 1],
                                     "none", "search")
                   \/ row.state \in {"queued", "downloading"} /\ sync' = [s EXCEPT !.pc = "transfers"]
                   \/ /\ row.state = "import_pending"
                      /\ IF sync.cfg = "ok" THEN sync' = [s EXCEPT !.pc = "check"] ELSE Fail(s)
  /\ UNCHANGED <<jobs, act, cr, paced, hist, approvals, faults, outside>>

SyncDone ==
  /\ sync.pc = "next" /\ sync.left = {}
  /\ sync' = Resting
  /\ UNCHANGED <<jobs, act, cr, paced, hist, approvals, faults, outside>>

job == jobs[sync.id]
rel == job.rel

\* createSearch: found an id, put off (409 or 429, the attempt is given back), or failed
Search(answer) ==
  /\ sync.pc = "search"
  /\ \/ /\ answer = "ok" /\ Write(sync, [job EXCEPT !.found = TRUE], "none", "look")
        /\ UNCHANGED paced
     \/ /\ answer = "busy" /\ Write(sync, [job EXCEPT !.att = job.att - 1], "none", "next")
        /\ paced' = TRUE
     \/ answer = "error" /\ Fail(sync) /\ UNCHANGED paced
  /\ IF answer = "busy" THEN UNCHANGED hist
     ELSE hist' = [hist EXCEPT ![sync.id].searches = hist[sync.id].searches + 1]
  /\ UNCHANGED <<jobs, act, cr, approvals, faults, outside>>

TimedOut == job.found /\ job.age >= 1

\* isSearchComplete and getSearchResults, and what is made of them
Look ==
  /\ sync.pc = "look"
  /\ \E complete \in BOOLEAN, offers \in SUBSET Peers :
       LET results == offers \ job.bad
           ended == complete \/ TimedOut
       IN \/ ~ended /\ Leave
          \/ ended /\ results = {} /\ Fail(sync)
          \/ /\ ended /\ results # {}
             /\ \/ Write(sync, [job EXCEPT !.state = "failed", !.review = TRUE],
                         "needs_review", "report")
                \/ \E p \in results : sync' = [sync EXCEPT !.pc = "enqueue", !.peer = p]
          \/ Fail(sync)    \* slskd does not answer
  /\ UNCHANGED <<jobs, act, cr, paced, hist, approvals, faults, outside>>

\* enqueueResult: accepted, refused, or accepted with the answer lost
Enqueue ==
  /\ sync.pc = "enqueue"
  /\ \/ /\ batch' = [batch EXCEPT ![sync.id] = "queued"]
        /\ Write(sync, [job EXCEPT !.state = "queued", !.peer = sync.peer], "queued", "report")
        /\ UNCHANGED faults
     \/ Fail(sync) /\ UNCHANGED <<batch, faults>>
     \/ Fault /\ Fail(sync) /\ batch' = [batch EXCEPT ![sync.id] = "queued"]
  /\ UNCHANGED <<jobs, act, cr, paced, hist, approvals, config, cmd, have>>

\* getDownloads, once for all the jobs of a run; when it fails so do they
Fetch ==
  /\ sync.pc = "transfers" /\ sync.seen = "no"
  /\ \/ sync' = [sync EXCEPT !.seen = "yes", !.snap = batch] /\ UNCHANGED faults
     \/ Fault /\ sync' = [sync EXCEPT !.seen = "broken"]
  /\ UNCHANGED <<jobs, act, cr, paced, hist, approvals, outside>>

\* processTransferJob: failed, under way, or all there; then to Lidarr if it is linked
Transferred ==
  /\ sync.pc = "transfers" /\ sync.seen # "no"
  /\ LET st == IF sync.seen = "yes" THEN sync.snap[sync.id] ELSE "failed" IN
     \/ st = "failed" /\ Fail(sync)
     \/ /\ st \in {"none", "queued", "active"}
        /\ LET to == IF st = "active" THEN "downloading" ELSE "queued"
           IN Write(sync, [job EXCEPT !.state = to], to, "report")
     \/ st = "done" /\ ~job.lid /\ Write(sync, [job EXCEPT !.state = "completed"], "added", "report")
     \/ st = "done" /\ job.lid /\ sync.cfg = "unlinked" /\ Fail(sync)
     \/ st = "done" /\ job.lid /\ sync.cfg = "ok" /\ Goto("import")
  /\ UNCHANGED <<jobs, act, cr, paced, hist, approvals, faults, outside>>

\* buildLidarrManualImport: refused, nothing left to import, or a list of files
Build ==
  /\ sync.pc = "import"
  /\ \/ rel \in have /\ Write(sync, [job EXCEPT !.state = "cancelled"], "skipped", "report")
     \/ rel \notin have /\ Goto("submit")
     \/ Fail(sync)
  /\ UNCHANGED <<jobs, act, cr, paced, hist, approvals, faults, outside>>

\* manualImport, then its checkpoint
Submit ==
  /\ sync.pc = "submit"
  /\ \/ /\ cmd' = [cmd EXCEPT ![sync.id] = "running"]
        /\ Write(sync, [job EXCEPT !.state = "import_pending", !.checks = 0],
                 "import_pending", "report")
        /\ UNCHANGED faults
     \/ Fail(sync) /\ UNCHANGED <<cmd, faults>>
     \/ Fault /\ Fail(sync) /\ cmd' = [cmd EXCEPT ![sync.id] = "running"]
  /\ UNCHANGED <<jobs, act, cr, paced, hist, approvals, config, batch, have>>

\* mutant: an import that ended is an import that worked
CheckCommandOnly ==
  /\ sync.pc = "check"
  /\ \/ cmd[sync.id] = "failed" /\ Fail(sync)
     \/ cmd[sync.id] = "completed"
        /\ Write(sync, [job EXCEPT !.state = "completed"], "added", "report")
     \/ cmd[sync.id] = "running" /\ Leave
  /\ UNCHANGED <<jobs, act, cr, paced, hist, approvals, faults, outside>>

\* mutant: the checks are not counted
CheckForever ==
  /\ sync.pc = "check"
  /\ \/ cmd[sync.id] = "failed" /\ Fail(sync)
     \/ /\ cmd[sync.id] = "completed" /\ rel \in have
        /\ Write(sync, [job EXCEPT !.state = "completed"], "added", "report")
     \/ /\ cmd[sync.id] = "running" \/ rel \notin have
        /\ Write(sync, job, "import_pending", "report")
  /\ UNCHANGED <<jobs, act, cr, paced, hist, approvals, faults, outside>>

\* processImportPending; Lidarr may not answer
Check ==
  /\ sync.pc = "check"
  /\ LET imported == cmd[sync.id] = "completed" /\ rel \in have
         checks == job.checks + 1
     IN \/ cmd[sync.id] = "failed" /\ Fail(sync) /\ UNCHANGED faults
        \/ /\ imported /\ UNCHANGED faults
           /\ Write(sync, [job EXCEPT !.state = "completed"], "added", "report")
        \/ /\ cmd[sync.id] # "failed" /\ ~imported /\ UNCHANGED faults
           /\ IF checks >= MaxChecks THEN Fail(sync)
              ELSE Write(sync, [job EXCEPT !.checks = checks], "import_pending", "report")
        \/ Fault /\ Fail(sync)
  /\ UNCHANGED <<jobs, act, cr, paced, hist, approvals, outside>>

\* updateSlskdJobState; the index refuses a second row for the work key
Save ==
  /\ sync.pc = "save"
  /\ IF /\ sync.row.state \in Conflicting /\ job.state \notin Conflicting
        /\ Found(rel, Conflicting) # {}
     THEN Leave /\ UNCHANGED <<jobs, hist>>
     ELSE /\ jobs' = [jobs EXCEPT ![sync.id] = [sync.row EXCEPT !.age = 0]]
          /\ IF sync.then = "next" THEN Leave ELSE Goto(sync.then)
          /\ hist' = IF sync.row.state = "failed" /\ sync.row.peer # NoPeer
                     THEN [hist EXCEPT ![sync.id].tried = hist[sync.id].tried \cup {sync.row.peer}]
                     ELSE hist
  /\ UNCHANGED <<act, cr, paced, approvals, faults, outside>>

\* a write that fails: the job fails, unless that is what could not be written
WriteFails ==
  /\ sync.pc \in {"save", "write"} /\ Fault
  /\ IF sync.st = "failed" THEN Leave ELSE Fail(sync)
  /\ UNCHANGED <<jobs, act, cr, paced, hist, approvals, outside>>

\* the action that the jobs of recommendation r add up to
Reported(r, st) ==
  LET mine == {jobs[j] : j \in {i \in Rows : jobs[i].rec = r}}
      some(states) == \E m \in mine : m.state \in states
  IN IF some({"import_pending"}) THEN "import_pending"
     ELSE IF some({"downloading"}) THEN "downloading"
     ELSE IF some(Active) THEN "queued"
     ELSE IF some({"completed"}) THEN "added"
     ELSE IF \E m \in mine : m.state = "failed" /\ m.review THEN "needs_review"
     ELSE IF some({"failed"}) THEN "failed" ELSE st

\* mutant: the report does not wait for the lock
ReportUnlocked ==
  /\ sync.pc = "report"
  /\ LET r == sync.row.rec IN
     \/ r = NoRec /\ Leave
     \/ r # NoRec /\ sync' = [sync EXCEPT !.pc = "write", !.read = Reported(r, sync.st)]
  /\ UNCHANGED <<jobs, act, cr, paced, hist, approvals, faults, outside>>

\* updateSlskdRecommendationAction reads the jobs once it has the approval lock
Report ==
  /\ sync.pc = "report"
  /\ LET r == sync.row.rec IN
     \/ r = NoRec /\ Leave
     \/ /\ r # NoRec /\ cr[r].pc = "idle"
        /\ sync' = [sync EXCEPT !.pc = "write", !.read = Reported(r, sync.st)]
  /\ UNCHANGED <<jobs, act, cr, paced, hist, approvals, faults, outside>>

WriteAction ==
  /\ sync.pc = "write"
  /\ act' = [act EXCEPT ![sync.row.rec] = sync.read]
  /\ Leave
  /\ UNCHANGED <<jobs, cr, paced, hist, approvals, faults, outside>>

-----------------------------------------------------------------------------
(* What goes on outside. *)

Transfer(j, to) ==
  /\ \/ batch[j] = "queued" /\ to \in {"active", "done", "failed"}
     \/ batch[j] = "active" /\ to \in {"done", "failed"}
  /\ batch' = [batch EXCEPT ![j] = to]
  /\ UNCHANGED <<jobs, act, cr, sync, paced, hist, approvals, faults, config, cmd, have>>

\* the command ends; tracks may be missing though it completed
Imported(j, to) ==
  /\ cmd[j] = "running" /\ to \in {"completed", "failed"}
  /\ cmd' = [cmd EXCEPT ![j] = to]
  /\ \/ to = "completed" /\ have' = have \cup {jobs[j].rel}
     \/ UNCHANGED have
  /\ UNCHANGED <<jobs, act, cr, sync, paced, hist, approvals, faults, config, batch>>

\* Lidarr finds a release on its own
LidarrGets(k) ==
  /\ k \notin have /\ have' = have \cup {k}
  /\ UNCHANGED <<jobs, act, cr, sync, paced, hist, approvals, faults, config, batch, cmd>>

\* time: a search in hand grows old between runs, a failed job cools down
Elapse(j) ==
  /\ j \in Rows
  /\ \/ jobs[j].state = "searching" /\ jobs[j].found /\ jobs[j].age = 0 /\ sync.pc = "idle"
     \/ jobs[j].state = "failed" /\ jobs[j].age < 2 /\ (sync.id # j \/ sync.pc = "idle")
  /\ jobs' = [jobs EXCEPT ![j].age = jobs[j].age + 1]
  /\ UNCHANGED <<act, cr, sync, paced, hist, approvals, faults, outside>>

PauseOver ==
  /\ paced /\ paced' = FALSE
  /\ UNCHANGED <<jobs, act, cr, sync, hist, approvals, faults, outside>>

\* an admin edits the target; a linked target is not saved without a path
Edit(to) ==
  /\ Fault /\ to \in Configs \ {config, "nopath"}
  /\ config' = to
  /\ UNCHANGED <<jobs, act, cr, sync, paced, hist, approvals, batch, cmd, have>>

\* the process dies and starts again
Crash ==
  /\ Fault
  /\ sync' = Resting /\ paced' = FALSE
  /\ cr' = [c \in Callers |-> Idle]
  /\ UNCHANGED <<jobs, act, hist, approvals, outside>>

CreateStep(c) == (\E k \in Releases : Pick(c, k)) \/ Insert(c) \/ Find(c) \/ Retry(c) \/ QueryFails(c)
ApproveStep(r) == CreateStep(r) \/ Approved(r)
SyncStep ==
  \/ CreateStep(NoRec) \/ IntakeDone \/ IntakeFails \/ List \/ NextJob \/ SyncDone
  \/ (\E answer \in {"ok", "busy", "error"} : Search(answer))
  \/ Look \/ Enqueue \/ Fetch \/ Transferred \/ Build \/ Submit \/ Check
  \/ Save \/ WriteFails \/ Report \/ WriteAction
Outside ==
  \/ \E j \in Ids, to \in Transfers : Transfer(j, to)
  \/ \E j \in Ids, to \in {"completed", "failed"} : Imported(j, to)
  \/ \E k \in Releases : LidarrGets(k)
  \/ \E j \in Ids : Elapse(j)
  \/ PauseOver
  \/ \E to \in Configs : Edit(to)

Next ==
  \/ \E r \in Recs : \E rels \in {Covers[r], {}}, lid \in BOOLEAN : Approve(r, rels, lid)
  \/ \E r \in Recs : ApproveStep(r)
  \/ Trigger \/ SyncStep \/ Outside \/ Crash

Spec == Init /\ [][Next]_vars

\* The cron triggers a sync every ten minutes and no await is left without a timeout.  Lidarr
\* answers at last when asked what it wants, slskd lets a search through at last, and both
\* come to an end with what they accepted.
FairSpec ==
  /\ Spec
  /\ WF_vars(Trigger) /\ WF_vars(SyncStep) /\ WF_vars(PauseOver)
  /\ SF_vars(IntakeDone) /\ SF_vars(Search("ok") \/ Search("error"))
  /\ \A r \in Recs : WF_vars(ApproveStep(r))
  /\ \A j \in Ids : /\ WF_vars(\E to \in {"done", "failed"} : Transfer(j, to))
                    /\ WF_vars(\E to \in {"completed", "failed"} : Imported(j, to))
                    /\ SF_vars(Elapse(j))

-----------------------------------------------------------------------------
(* Properties.  Quiet: nothing an operator would call an incident has happened. *)

Quiet == faults = 0

\* docs/OPERATIONS.md "retries up to three times": since a job was created or approved
\* again no more than 1 + MaxRetries searches are made for it; an incident can cost one more.
RetryBudget == \A j \in Rows : hist[j].searches <= MaxRetries + 1 + faults

\* A retry of the intake never goes back to a peer and folder whose download failed.
RetrySkipsFailed == sync.pc = "enqueue" => sync.peer \notin hist[sync.id].tried

\* However many recommendations and the wanted list ask for a release, slskd never downloads
\* it twice at the same time.
NoSecondDownload ==
  Quiet /\ sync.pc = "enqueue" =>
    \A j \in Rows : jobs[j].rel = rel => batch[j] \notin {"queued", "active"}

Mine(r) == {j \in Rows : jobs[j].rec = r}
Reporting(r) == sync.pc \in {"save", "report", "write"} /\ sync.row.rec = r
\* nobody else asks for what r covers
Alone(r) == /\ Covers[r] \cap Wanted = {}
            /\ \A s \in Recs \ {r} : Covers[s] \cap Covers[r] = {}

\* Outside of approvals, and of the moment between the write of a job and its report, the
\* action of a recommendation does not claim an end while one of its jobs is under way, nor
\* work when all of them have ended.  (An approval that is repeated and fails says failed
\* until the job is next reported.)
ActionFollows ==
  Quiet => \A r \in Recs : (cr[r].pc = "idle" /\ ~Reporting(r)) =>
    /\ Mine(r) \cap ActiveRows # {} => act[r] \in Following \cup {"failed"}
    /\ (Mine(r) # {} /\ Mine(r) \cap ActiveRows = {} /\ Alone(r)) => act[r] \notin Following

\* An action says added when a job of the recommendation completed, all of whose files came
\* down and, if the job is Lidarr's, are tracks in Lidarr.
AddedIsReal ==
  Quiet => \A r \in Recs : act[r] = "added" =>
    \E j \in Mine(r) : /\ jobs[j].state = "completed" /\ batch[j] = "done"
                       /\ jobs[j].lid => jobs[j].rel \in have

\* Every job comes to an end, however busy slskd and however long the list.
JobsSettle == \A j \in Ids : (j \in ActiveRows) ~> (j \notin ActiveRows)
=============================================================================
