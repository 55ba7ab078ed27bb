----------------------------- MODULE Approvals -----------------------------
(***************************************************************************)
(* What becomes of an approved recommendation: the approve and reject      *)
(* routes (server/routes/recommendations.ts), the worker that retries      *)
(* deferred Lidarr approvals (core/targets/lidarr-retry-worker.ts), the    *)
(* updates that follow a slskd download (core/targets/slskd-               *)
(* recommendation.ts) and the auto-approval of a new batch                 *)
(* (core/pipeline/auto-approve.ts), on the row of each recommendation.     *)
(*                                                                         *)
(* The routes, the worker and the downloads work inside the lock of        *)
(* ApprovalLocks; auto-approval does not.  Lidarr and slskd answer as they *)
(* like.  A retry window is early, due or late instead of having a clock.  *)
(***************************************************************************)
EXTENDS Naturals, FiniteSets

CONSTANTS
  Recs,       \* recommendations
  Albums,     \* those of kind album; the others are of kind artist
  AutoRecs,   \* those of a batch that is auto-approved
  Lidarrs,    \* targets of type lidarr
  Slskds,     \* targets of type slskd
  NoTarget,
  MaxFaults   \* bound on crashes and failed writes

ASSUME ApprovalsAssumption ==
  /\ Albums \subseteq Recs /\ AutoRecs \subseteq Recs
  /\ Lidarrs \cap Slskds = {} /\ NoTarget \notin Lidarrs \cup Slskds
  /\ MaxFaults \in Nat

Targets == Lidarrs \cup Slskds

VARIABLES
  row,      \* the recommendation: status, targetActions, whether lidarrArtistId is set
  cs,       \* what the holder of the approval lock is doing
  auto,     \* what auto-approval is doing with a recommendation
  cand,     \* the candidates listWaiting gave the retry worker
  job,      \* the slskd job of a recommendation
  call,     \* updates of slskd actions that wait for the approval lock
  alerts,   \* approval_failed events since the last approval
  faults    \* crashes and failed writes so far

vars == <<row, cs, auto, cand, job, call, alerts, faults>>

Statuses == {"pending", "approved", "added_to_lidarr", "waiting", "add_failed", "rejected"}
ActiveJobs == {"queued", "downloading", "import_pending"}
EndedJobs == {"completed", "needs_review", "failed", "skipped"}
ActionStates ==
  {"none", "added", "queued", "failed", "waiting", "downloading", "import_pending",
   "needs_review", "skipped"}

Actions == [st: ActionStates, win: {"none", "early", "due", "late"},
            follow: Slskds \cup {NoTarget}, told: BOOLEAN]

\* an action without a retry window
Act(st) == [st |-> st, win |-> "none", follow |-> NoTarget, told |-> FALSE]
NoActions == [t \in Targets |-> Act("none")]

Rows == [status: Statuses, acts: [Targets -> Actions], lid: BOOLEAN]

Idle(who) == [who |-> who, row |-> [status |-> "pending", acts |-> NoActions, lid |-> FALSE],
              acts |-> NoActions, lid |-> FALSE, left |-> {}, enabled |-> {},
              targets |-> {}, comb |-> NoTarget, changed |-> FALSE, alert |-> FALSE]
Free == Idle("free")

Sections ==
  [who: {"free", "approve", "retry", "alert", "new", "listed", "auto", "done"},
   row: Rows, acts: [Targets -> Actions], lid: BOOLEAN,
   left: SUBSET Targets, enabled: SUBSET Targets, targets: SUBSET Targets,
   comb: Slskds \cup {NoTarget}, changed: BOOLEAN, alert: BOOLEAN]

TypeOK ==
  /\ row \in [Recs -> Rows]
  /\ cs \in [Recs -> Sections] /\ auto \in [Recs -> Sections]
  /\ \A r \in Recs : cs[r].targets \subseteq cs[r].enabled
  /\ cand \subseteq Recs
  /\ job \in [Recs -> [Slskds -> {"none"} \cup ActiveJobs \cup EndedJobs]]
  /\ call \in [Recs -> SUBSET Slskds]
  /\ alerts \in [Recs -> Nat]
  /\ faults \in 0..MaxFaults

Init ==
  /\ row = [r \in Recs |-> [status |-> "pending", acts |-> NoActions, lid |-> FALSE]]
  /\ cs = [r \in Recs |-> Free]
  /\ auto = [r \in Recs |-> Idle(IF r \in AutoRecs THEN "new" ELSE "done")]
  /\ cand = {}
  /\ job = [r \in Recs |-> [s \in Slskds |-> "none"]]
  /\ call = [r \in Recs |-> {}]
  /\ alerts = [r \in Recs |-> 0]
  /\ faults = 0

-----------------------------------------------------------------------------
(* Statuses and actions. *)

Waiting(a) == a.st = "waiting"
\* hasRetryState: waiting, or failed when its window passed
Retained(a) == a.win # "none"
HasWaiting(acts) == \E t \in Targets : Waiting(acts[t])

\* mutant: whatever failed is reported as waiting
DeriveHopeful(acts, lid) ==
  IF lid \/ \E t \in Lidarrs : acts[t].st = "added" THEN "added_to_lidarr"
  ELSE IF \E t \in Targets : acts[t].st \in {"added", "queued"} THEN "approved"
  ELSE "waiting"

\* deriveStatusFromActions
Derive(acts, lid) ==
  IF lid \/ \E t \in Lidarrs : acts[t].st = "added" THEN "added_to_lidarr"
  ELSE IF \E t \in Targets : acts[t].st \in {"added", "queued"} THEN "approved"
  ELSE IF HasWaiting(acts) THEN "waiting" ELSE "add_failed"

\* mutant: every retry starts a window
FreshWindow(t, res, follow, prior) ==
  IF res = "ok" THEN Act(IF t \in Slskds THEN "queued" ELSE "added")
  ELSE IF res = "temporary" /\ t \in Lidarrs
    THEN [Act("waiting") EXCEPT !.win = "early", !.follow = follow]
  ELSE Act("failed")

\* targetAction: a temporary Lidarr failure waits, in the window of the action
\* before if that was waiting too
TargetAction(t, res, follow, prior) ==
  IF res = "ok" THEN Act(IF t \in Slskds THEN "queued" ELSE "added")
  ELSE IF res = "temporary" /\ t \in Lidarrs
    THEN [Act("waiting") EXCEPT
            !.win = IF Waiting(prior) /\ prior.win = "late" THEN "late" ELSE "early",
            !.follow = follow]
  ELSE Act("failed")

\* queueArtist or queueAlbum: an active job is taken over, else one is created
\* unless the last one failed a short while ago.  The lookup before it may find nothing or
\* throw, so a call may fail while a job is active
Queue(r, t, res) ==
  job' = IF t \in Slskds /\ res = "ok" /\ job[r][t] \notin ActiveJobs
         THEN [job EXCEPT ![r][t] = "queued"] ELSE job

Results == {"ok", "temporary", "permanent"}

-----------------------------------------------------------------------------
(* PATCH and bulk approve, inside the lock from begin to write. *)

\* the targets of the attempt: the one selected, else those without success;
\* a follow-up of a deferred Lidarr approval waits for that one.  In the combined
\* mode (l is given) Lidarr comes first and the selected slskd target follows.
ApproveBegin(r, enabled, sel, l) ==
  LET prior == row[r].acts
      asked == IF sel # NoTarget THEN {sel}
               ELSE {t \in enabled : prior[t].st \notin {"added", "queued"}}
      combined == l # NoTarget /\ r \notin Albums
      follows == {prior[t].follow : t \in {u \in Targets : Retained(prior[u])}}
  IN /\ cs[r].who = "free"
     /\ sel # NoTarget => sel \in enabled
     /\ l # NoTarget => l \in enabled /\ sel \in Slskds
     /\ cs' = [cs EXCEPT ![r] = [Free EXCEPT
          !.who = "approve", !.row = row[r], !.lid = row[r].lid,
          !.enabled = enabled, !.targets = asked,
          !.left = IF combined THEN {l} ELSE IF r \in Albums THEN asked ELSE asked \ follows,
          !.comb = IF combined THEN sel ELSE NoTarget]]
     /\ UNCHANGED <<row, auto, cand, job, call, alerts, faults>>

\* the slskd target to queue once Lidarr took the artist
FollowUp(r, t) ==
  LET prior == cs[r].row.acts[t]
  IN IF cs[r].comb # NoTarget THEN cs[r].comb
     ELSE IF Retained(prior) /\ prior.follow \in cs[r].targets THEN prior.follow ELSE NoTarget

\* addArtistToTarget, or one round of approveAlbumToTargets
ApproveAttempt(r, t, res) ==
  LET sec == cs[r]
      prior == sec.row.acts[t]
      saved == IF Retained(prior) THEN prior.follow ELSE sec.comb
      added == res = "ok" /\ t \in Lidarrs
  IN /\ sec.who = "approve" /\ t \in sec.left
     /\ Queue(r, t, res)
     /\ cs' = [cs EXCEPT ![r] = [sec EXCEPT
          !.acts[t] = TargetAction(t, res, saved, prior),
          !.lid = @ \/ (added /\ r \notin Albums),
          !.left = (@ \ {t}) \cup (IF added /\ r \notin Albums /\ FollowUp(r, t) # NoTarget
                                   THEN {FollowUp(r, t)} ELSE {})]]
     /\ UNCHANGED <<row, auto, cand, call, alerts, faults>>

Tried(acts) == {t \in Targets : acts[t].st # "none"}
Merge(prior, acts) == [t \in Targets |-> IF t \in Tried(acts) THEN acts[t] ELSE prior[t]]

\* mutant: any Lidarr result makes it added_to_lidarr
FirstStatusTrusting(r, acts) ==
  IF HasWaiting(acts) THEN "waiting"
  ELSE IF Tried(acts) \cap Lidarrs # {} THEN "added_to_lidarr"
  ELSE IF \E t \in Slskds : acts[t].st = "queued" THEN "approved" ELSE "add_failed"

\* the status of a first approval
FirstStatus(r, acts) ==
  IF Tried(acts) = {} THEN IF r \in Albums THEN "add_failed" ELSE "approved"
  ELSE IF HasWaiting(acts) THEN "waiting"
  ELSE IF \E t \in Lidarrs : acts[t].st = "added" THEN "added_to_lidarr"
  ELSE IF \E t \in Slskds : acts[t].st = "queued" THEN "approved" ELSE "add_failed"

ApproveWrite(r) ==
  LET sec == cs[r]
      acts == Merge(sec.row.acts, sec.acts)
  IN /\ sec.who = "approve" /\ sec.left = {}
     /\ row' = [row EXCEPT ![r] =
          [status |-> IF Tried(sec.row.acts) # {} THEN Derive(acts, sec.lid)
                      ELSE FirstStatus(r, sec.acts),
           acts |-> acts, lid |-> sec.lid]]
     /\ alerts' = [alerts EXCEPT ![r] = 0]
     /\ cs' = [cs EXCEPT ![r] = Free]
     /\ UNCHANGED <<auto, cand, job, call, faults>>

\* reject, bulk reject, and restore to pending
Decide(r, st) ==
  /\ cs[r].who = "free"
  /\ row' = [row EXCEPT ![r].status = st]
  /\ UNCHANGED <<cs, auto, cand, job, call, alerts, faults>>

-----------------------------------------------------------------------------
(* The retry worker: one candidate after the other, each inside its lock. *)

Retrying == \E r \in Recs : cs[r].who \in {"retry", "alert"}

\* listWaitingApprovals
Listed(r) ==
  \/ row[r].status = "waiting"
  \/ row[r].status \in {"approved", "added_to_lidarr", "add_failed"} /\ HasWaiting(row[r].acts)

RetryList ==
  /\ cand = {} /\ ~Retrying
  /\ \E r \in Recs : Listed(r)
  /\ cand' = {r \in Recs : Listed(r)}
  /\ UNCHANGED <<row, cs, auto, job, call, alerts, faults>>

\* mutant: the decision read inside the lock is not looked at
RetryUndecided(r, enabled) ==
  /\ r \in cand /\ ~Retrying /\ cs[r].who = "free"
  /\ cand' = cand \ {r}
  /\ cs' = [cs EXCEPT ![r] = [Free EXCEPT
       !.who = "retry", !.row = row[r], !.acts = row[r].acts, !.lid = row[r].lid,
       !.enabled = enabled,
       !.left = {t \in Targets : Waiting(row[r].acts[t]) /\ row[r].acts[t].win = "due"}]]
  /\ UNCHANGED <<row, auto, job, call, alerts, faults>>

\* read the row again, fail what is late, attempt what is due
RetryBegin(r, enabled) ==
  LET acts == row[r].acts
      late == {t \in Targets : Waiting(acts[t]) /\ acts[t].win = "late"}
  IN /\ r \in cand /\ ~Retrying /\ cs[r].who = "free"
     /\ cand' = cand \ {r}
     /\ cs' = IF row[r].status \in {"rejected", "pending"} THEN cs
              ELSE [cs EXCEPT ![r] = [Free EXCEPT
                !.who = "retry", !.row = row[r], !.lid = row[r].lid, !.enabled = enabled,
                !.acts = [t \in Targets |-> IF t \in late
                            THEN [acts[t] EXCEPT !.st = "failed", !.told = TRUE] ELSE acts[t]],
                !.left = {t \in Targets : Waiting(acts[t]) /\ acts[t].win = "due"},
                !.changed = late # {},
                !.alert = late # {} /\ \A t \in Targets : ~acts[t].told]]
     /\ UNCHANGED <<row, auto, job, call, alerts, faults>>

\* a block fails the action, and a disabled target is left alone
RetrySkip(r, t, blocked) ==
  /\ cs[r].who = "retry" /\ t \in cs[r].left
  /\ blocked \/ t \notin cs[r].enabled
  /\ cs' = [cs EXCEPT ![r] = [cs[r] EXCEPT
       !.left = @ \ {t},
       !.acts[t] = IF blocked THEN Act("failed") ELSE @,
       !.changed = @ \/ blocked]]
  /\ UNCHANGED <<row, auto, cand, job, call, alerts, faults>>

\* mutant: the saved options lose followUpTargetId
OwedNothing(r, t) == NoTarget

\* the follow-up a successful retry of an artist still has to queue
Owed(r, t) ==
  LET f == cs[r].acts[t].follow
  IN IF r \notin Albums /\ f \in cs[r].enabled /\ cs[r].acts[f].st \notin {"added", "queued"}
     THEN f ELSE NoTarget

\* addArtist or addAlbum with retryExisting; a success queues the follow-up
RetryAttempt(r, t, res, fres) ==
  LET sec == cs[r]
      added == res = "ok"
      f == Owed(r, t)
      after == TargetAction(t, res, sec.acts[t].follow, sec.acts[t])
  IN /\ sec.who = "retry" /\ t \in sec.left \cap sec.enabled
     /\ IF added /\ f # NoTarget
        THEN Queue(r, f, fres)
        ELSE UNCHANGED job
     /\ cs' = [cs EXCEPT ![r] = [sec EXCEPT
          !.left = @ \ {t}, !.changed = TRUE,
          !.lid = @ \/ (added /\ r \notin Albums),
          !.acts = IF added /\ f # NoTarget
                   THEN [@ EXCEPT ![t] = after, ![f] = TargetAction(f, fres, NoTarget, Act("none"))]
                   ELSE [@ EXCEPT ![t] = after]]]
     /\ UNCHANGED <<row, auto, cand, call, alerts, faults>>

\* the recorder or a query throws: the other attempts wait for the next round;
\* a follow-up may have been attempted already
RetryThrow(r, f, fres) ==
  /\ cs[r].who = "retry" /\ cs[r].left # {}
  /\ f # NoTarget =>
       /\ \E t \in cs[r].left \cap cs[r].enabled : f = Owed(r, t)
       /\ Queue(r, f, fres)
  /\ f = NoTarget => UNCHANGED job
  /\ cs' = [cs EXCEPT ![r] = [cs[r] EXCEPT
       !.left = {},
       !.acts = IF f # NoTarget
               THEN [@ EXCEPT ![f] = TargetAction(f, fres, NoTarget, Act("none"))] ELSE @]]
  /\ UNCHANGED <<row, auto, cand, call, alerts, faults>>

\* mutant: the alert is sent before the write, which may fail
AlertBeforeWrite(r) ==
  LET sec == cs[r]
  IN /\ sec.who = "retry" /\ sec.left = {}
     /\ alerts' = IF sec.alert THEN [alerts EXCEPT ![r] = @ + 1] ELSE alerts
     /\ cs' = [cs EXCEPT ![r] = Free]
     /\ \/ /\ row' = IF sec.changed
                     THEN [row EXCEPT ![r] = [status |-> Derive(sec.acts, sec.lid),
                                              acts |-> sec.acts, lid |-> sec.lid]]
                     ELSE row
           /\ UNCHANGED faults
        \/ /\ faults < MaxFaults
           /\ faults' = faults + 1
           /\ UNCHANGED row
     /\ UNCHANGED <<auto, cand, job, call>>

\* write the row, unless nothing changed; then send the alert
RetryWrite(r) ==
  LET sec == cs[r]
  IN /\ sec.who = "retry" /\ sec.left = {}
     /\ row' = IF sec.changed
               THEN [row EXCEPT ![r] = [status |-> Derive(sec.acts, sec.lid),
                                        acts |-> sec.acts, lid |-> sec.lid]]
               ELSE row
     /\ cs' = [cs EXCEPT ![r] = IF sec.alert THEN [Free EXCEPT !.who = "alert"] ELSE Free]
     /\ UNCHANGED <<auto, cand, job, call, alerts, faults>>

\* notify, which may throw
Alert(r, sent) ==
  /\ cs[r].who = "alert"
  /\ alerts' = IF sent THEN [alerts EXCEPT ![r] = @ + 1] ELSE alerts
  /\ cs' = [cs EXCEPT ![r] = Free]
  /\ UNCHANGED <<row, auto, cand, job, call, faults>>

-----------------------------------------------------------------------------
(* slskd: a job moves on and the action follows inside the lock. *)

\* the orchestrator writes the state of a job, then calls
\* updateSlskdRecommendationAction before it turns to the next job
JobMove(r, s, to) ==
  /\ job[r][s] \in ActiveJobs /\ s \notin call[r]
  /\ to \in IF job[r][s] = "import_pending" THEN {"import_pending", "completed", "failed"}
            ELSE ActiveJobs \cup EndedJobs
  /\ job' = [job EXCEPT ![r][s] = to]
  /\ call' = [call EXCEPT ![r] = @ \cup {s}]
  /\ UNCHANGED <<row, cs, auto, cand, alerts, faults>>

\* mutant: the row is written without waiting for the approval lock
SlskdUpdateAtOnce(r, s) ==
  LET acts == [row[r].acts EXCEPT ![s] =
                 Act(IF job[r][s] = "completed" THEN "added" ELSE job[r][s])]
  IN /\ s \in call[r]
     /\ call' = [call EXCEPT ![r] = @ \ {s}]
     /\ row' = [row EXCEPT ![r] = [row[r] EXCEPT
          !.acts = acts,
          !.status = IF job[r][s] = "failed" THEN Derive(acts, row[r].lid) ELSE @]]
     /\ UNCHANGED <<cs, auto, cand, job, alerts, faults>>

\* only a failed download derives the status again
SlskdUpdate(r, s) ==
  LET acts == [row[r].acts EXCEPT ![s] =
                 Act(IF job[r][s] = "completed" THEN "added" ELSE job[r][s])]
  IN /\ s \in call[r] /\ cs[r].who = "free"
     /\ call' = [call EXCEPT ![r] = @ \ {s}]
     /\ row' = [row EXCEPT ![r] = [row[r] EXCEPT
          !.acts = acts,
          !.status = IF job[r][s] = "failed" THEN Derive(acts, row[r].lid) ELSE @]]
     /\ UNCHANGED <<cs, auto, cand, job, alerts, faults>>

-----------------------------------------------------------------------------
(* Auto-approval of a batch: no lock, and a list read at the start. *)

AutoList ==
  /\ \E r \in AutoRecs : auto[r].who = "new"
  /\ auto' = [r \in Recs |-> Idle(IF auto[r].who = "new" /\ row[r].status = "pending"
                                  THEN "listed" ELSE "done")]
  /\ UNCHANGED <<row, cs, cand, job, call, alerts, faults>>

\* one candidate at a time, unless canApprove refuses it; without targets it is
\* approved for discovery only, an album without a release group or album target fails
AutoBegin(r, enabled, allowed) ==
  /\ auto[r].who = "listed"
  /\ \A q \in Recs : auto[q].who # "auto"
  /\ IF allowed /\ enabled # {}
     THEN auto' = [auto EXCEPT ![r] = [Idle("auto") EXCEPT !.left = enabled]]
     ELSE auto' = [auto EXCEPT ![r] = Idle("done")]
  /\ IF allowed /\ enabled = {}
     THEN \E st \in {"approved"} \cup (IF r \in Albums THEN {"add_failed"} ELSE {}) :
            row' = [row EXCEPT ![r].status = st, ![r].acts = NoActions]
     ELSE UNCHANGED row
  /\ UNCHANGED <<cs, cand, job, call, alerts, faults>>

\* lid is whether the last Lidarr result was a success, targets those with a result
AutoAttempt(r, t, res) ==
  LET sec == auto[r]
  IN /\ sec.who = "auto" /\ t \in sec.left
     /\ Queue(r, t, res)
     /\ auto' = [auto EXCEPT ![r] = [sec EXCEPT
          !.acts[t] = TargetAction(t, res, NoTarget, Act("none")),
          !.lid = IF t \in Lidarrs THEN res = "ok" ELSE @,
          !.targets = @ \cup {t},
          !.left = @ \ {t}]]
     /\ UNCHANGED <<row, cs, cand, call, alerts, faults>>

\* the call throws instead: what is left of the batch is dropped, the row written
AutoThrow(r, t) ==
  /\ auto[r].who = "auto" /\ t \in auto[r].left
  /\ auto' = [q \in Recs |->
       IF q = r THEN [auto[r] EXCEPT !.acts[t] = Act("failed"), !.left = {}] ELSE Idle("done")]
  /\ UNCHANGED <<row, cs, cand, job, call, alerts, faults>>

\* mutant: the Lidarr result is taken for a success
AutoStatusTrusting(sec) ==
  IF HasWaiting(sec.acts) THEN "waiting"
  ELSE IF sec.targets \cap Lidarrs # {} THEN "added_to_lidarr"
  ELSE IF \E t \in Slskds : sec.acts[t].st = "queued" THEN "approved" ELSE "add_failed"

\* Lidarr decides, the other targets only count without it
AutoStatus(sec) ==
  IF HasWaiting(sec.acts) THEN "waiting"
  ELSE IF sec.lid THEN "added_to_lidarr"
  ELSE IF sec.targets \cap Lidarrs # {} THEN "add_failed"
  ELSE IF \E t \in Slskds : sec.acts[t].st = "queued" THEN "approved" ELSE "add_failed"

\* the row as it was read decides; what others wrote since is overwritten
AutoWrite(r) ==
  LET sec == auto[r]
  IN /\ sec.who = "auto" /\ sec.left = {}
     /\ row' = [row EXCEPT ![r] = [status |-> AutoStatus(sec), acts |-> sec.acts,
                                   lid |-> @.lid \/ (sec.lid /\ r \notin Albums)]]
     /\ auto' = [auto EXCEPT ![r] = Idle("done")]
     /\ UNCHANGED <<cs, cand, job, call, alerts, faults>>

\* a cancelled run: the targets and recommendations that are left are dropped; so
\* are the results, when writing them throws
AutoStop(written) ==
  /\ \E r \in Recs : auto[r].who \in {"listed", "auto"}
  /\ auto' = [r \in Recs |->
       IF auto[r].who = "auto" /\ Tried(auto[r].acts) # {} /\ written
       THEN [auto[r] EXCEPT !.left = {}] ELSE Idle("done")]
  /\ UNCHANGED <<row, cs, cand, job, call, alerts, faults>>

-----------------------------------------------------------------------------
(* Time, failures, and the specification. *)

\* nextAttemptAt passes, or the whole window; sections are short against both
Elapse(r, t, win) ==
  /\ cs[r].who = "free" /\ Waiting(row[r].acts[t])
  /\ <<row[r].acts[t].win, win>> \in {<<"early", "due">>, <<"early", "late">>, <<"due", "late">>}
  /\ row' = [row EXCEPT ![r].acts[t].win = win]
  /\ UNCHANGED <<cs, auto, cand, job, call, alerts, faults>>

\* a write or a query throws inside a section, which ends without its write
SectionFails(r) ==
  /\ cs[r].who \in {"approve", "retry"} /\ faults < MaxFaults
  /\ cs' = [cs EXCEPT ![r] = Free]
  /\ faults' = faults + 1
  /\ UNCHANGED <<row, auto, cand, job, call, alerts>>

Crash ==
  /\ faults < MaxFaults
  /\ cs' = [r \in Recs |-> Free]
  /\ auto' = [r \in Recs |-> Idle("done")]
  /\ cand' = {}
  /\ call' = [r \in Recs |-> {}]
  /\ faults' = faults + 1
  /\ UNCHANGED <<row, job, alerts>>

ApproveStep(r) ==
  \/ \E t \in Targets, res \in Results : ApproveAttempt(r, t, res)
  \/ ApproveWrite(r)

RetryStep(r) ==
  \/ \E t \in Targets : \E blocked \in BOOLEAN : RetrySkip(r, t, blocked)
  \/ \E t \in Targets, res, fres \in Results : RetryAttempt(r, t, res, fres)
  \/ \E f \in Slskds \cup {NoTarget}, fres \in Results : RetryThrow(r, f, fres)
  \/ RetryWrite(r)
  \/ \E sent \in BOOLEAN : Alert(r, sent)

AutoStep(r) ==
  \/ \E enabled \in SUBSET Targets, allowed \in BOOLEAN : AutoBegin(r, enabled, allowed)
  \/ \E t \in Targets, res \in Results : AutoAttempt(r, t, res)
  \/ \E t \in Targets : AutoThrow(r, t)
  \/ AutoWrite(r)

Next ==
  \/ RetryList \/ AutoList \/ Crash
  \/ \E written \in BOOLEAN : AutoStop(written)
  \/ \E r \in Recs :
       \/ \E enabled \in SUBSET Targets, sel \in Targets \cup {NoTarget},
             l \in Lidarrs \cup {NoTarget} : ApproveBegin(r, enabled, sel, l)
       \/ \E st \in {"rejected", "pending"} : Decide(r, st)
       \/ \E enabled \in SUBSET Targets : RetryBegin(r, enabled)
       \/ ApproveStep(r) \/ RetryStep(r) \/ AutoStep(r) \/ SectionFails(r)
       \/ \E s \in Slskds : SlskdUpdate(r, s) \/ \E to \in ActiveJobs \cup EndedJobs : JobMove(r, s, to)
       \/ \E t \in Targets, win \in {"due", "late"} : Elapse(r, t, win)

Spec == Init /\ [][Next]_vars

\* Sections end (every call has a timeout), the cron comes back every five minutes,
\* the lock is first come first served so the worker gets it, and time passes.
FairSpec ==
  /\ Spec
  /\ SF_vars(RetryList)
  /\ \A r \in Recs :
       /\ WF_vars(ApproveStep(r)) /\ WF_vars(RetryStep(r))
       /\ SF_vars(\E enabled \in SUBSET Targets : RetryBegin(r, enabled))
       /\ \A t \in Targets : SF_vars(Elapse(r, t, "late"))

-----------------------------------------------------------------------------
(* Properties. *)

\* Nobody overwrites what another wrote after it read the row: between the read
\* and the write of an approval or a retry the row does not change, unless
\* auto-approval, which takes no lock, works on it.
NoLostUpdate ==
  \A r \in Recs \ AutoRecs : cs[r].who \in {"approve", "retry"} => cs[r].row = row[r]

\* A recommendation shown as waiting has an action the worker will retry.
WaitingIsRetried ==
  \A r \in Recs : row[r].status = "waiting" => HasWaiting(row[r].acts)

\* A recommendation shown as added to Lidarr was added: by this approval or, when
\* lidarrArtistId is known, by an earlier one.
AddedMeansAdded ==
  \A r \in Recs : row[r].status = "added_to_lidarr" =>
    row[r].lid \/ \E l \in Lidarrs : row[r].acts[l].st = "added"

\* However often the worker runs, stops half-way or finds two deadlines passed,
\* an approval is followed by one approval_failed event at the most.  This and what
\* follows is not so for rows that auto-approval overwrites without the lock.
OneAlertPerApproval == \A r \in Recs \ AutoRecs : alerts[r] <= 1

\* An action says a download is under way only if it is, except while the update
\* that will correct it waits for the lock.
SlskdFollowed ==
  \A r \in Recs \ AutoRecs : \A s \in Slskds :
    (faults = 0 /\ cs[r].who = "free" /\ s \notin call[r] /\ row[r].acts[s].st \in ActiveJobs)
      => job[r][s] \in ActiveJobs

\* A rejected or restored recommendation is brought back by an approval of the
\* user, or by a download of an earlier approval that fails, and by nothing else.
DecisionsStand ==
  [][\A r \in Recs \ AutoRecs :
       (row[r].status \in {"rejected", "pending"} /\ row'[r].status # row[r].status) =>
         \/ row'[r].status \in {"rejected", "pending"}
         \/ cs[r].who = "approve"
         \/ \E s \in Slskds : s \in call[r] \ call'[r] /\ job[r][s] = "failed"]_vars

\* When a retry gets the artist into Lidarr at last, the slskd half of a combined
\* approval is started too, if its target is still enabled.
RetryKeepsFollowUp ==
  [][\A r \in Recs \ AutoRecs : \A l \in Lidarrs :
       LET f == row[r].acts[l].follow IN
       (/\ cs[r].who = "retry" /\ Waiting(row[r].acts[l]) /\ row'[r].acts[l].st = "added"
        /\ f \in cs[r].enabled /\ r \notin Albums)
         => row'[r].acts[f].st # "none"]_vars

\* Deferred work does not wait for ever: it is done, fails when its window has
\* passed, or the user decides otherwise.
WaitingResolves ==
  \A r \in Recs : \A l \in Lidarrs :
    Waiting(row[r].acts[l]) ~>
      (~Waiting(row[r].acts[l]) \/ row[r].status \in {"rejected", "pending"})
=============================================================================
