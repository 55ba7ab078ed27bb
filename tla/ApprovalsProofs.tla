-------------------------- MODULE ApprovalsProofs --------------------------
(***************************************************************************)
(* What holds of the approvals for any recommendations and targets and any *)
(* number of failures: the type invariant, that nobody writes over a row   *)
(* that changed since it was read, that a status shown as waiting or as    *)
(* added is backed by the actions of the row, and what rows tell of alerts,*)
(* downloads, decisions and follow-ups.                                    *)
(***************************************************************************)
EXTENDS Approvals, FiniteSetTheorems, TLAPS

-----------------------------------------------------------------------------
(* The inductive invariant. *)

\* Only Lidarr approvals wait, so a download update never overwrites one.
NoSlskdWaits(acts) == \A s \in Slskds : acts[s].st # "waiting"

HasAdded(acts) == \E l \in Lidarrs : acts[l].st = "added"

\* A status in a row that says waiting or added has its reason in the row.
RowSound(w) ==
  /\ w.status = "waiting" => HasWaiting(w.acts)
  /\ w.status = "added_to_lidarr" => w.lid \/ HasAdded(w.acts)
  /\ NoSlskdWaits(w.acts)

SectionSound(x) == NoSlskdWaits(x.acts) /\ NoSlskdWaits(x.row.acts)

\* Auto-approval tries each target once, so its last Lidarr success stays in its results.
AutoSound(x) ==
  /\ NoSlskdWaits(x.acts)
  /\ \A t \in x.left : x.acts[t].st = "none"
  /\ x.lid => HasAdded(x.acts)

Sound(r) ==
  /\ RowSound(row[r]) /\ SectionSound(cs[r]) /\ AutoSound(auto[r])
  /\ auto[r].who # "done" => r \in AutoRecs

IInv == TypeOK /\ NoLostUpdate /\ \A r \in Recs : Sound(r)

-----------------------------------------------------------------------------
(* The operators. *)

\* An action without a retry window is an action.
LEMMA ActType ==
  ASSUME NEW st \in ActionStates
  PROVE  Act(st) \in Actions /\ Act(st).st = st
BY DEF Act, Actions

\* Nothing has been tried in the empty actions.
LEMMA NoActionsType ==
  /\ NoActions \in [Targets -> Actions] /\ NoSlskdWaits(NoActions)
  /\ \A t \in Targets : NoActions[t].st = "none"
<1>1. Act("none") \in Actions /\ Act("none").st = "none"
  BY ActType DEF ActionStates
<1> QED BY <1>1 DEF NoActions, NoSlskdWaits, Targets

\* A section that holds nothing is sound, whoever it stands for.
LEMMA IdleType ==
  ASSUME NEW who \in {"free", "approve", "retry", "alert", "new", "listed", "auto", "done"}
  PROVE  /\ Idle(who) \in Sections /\ Idle(who).who = who
         /\ Idle(who).targets \subseteq Idle(who).enabled
         /\ SectionSound(Idle(who)) /\ AutoSound(Idle(who))
<1>1. [status |-> "pending", acts |-> NoActions, lid |-> FALSE] \in Rows
  BY NoActionsType DEF Rows, Statuses
<1>2. Idle(who) \in Sections
  BY <1>1, NoActionsType DEF Idle, Sections
<1>3. SectionSound(Idle(who)) /\ AutoSound(Idle(who))
  BY NoActionsType DEF Idle, SectionSound, AutoSound
<1> QED BY <1>2, <1>3 DEF Idle

\* A free section is sound.
LEMMA FreeType ==
  /\ Free \in Sections /\ Free.who = "free" /\ Free.targets \subseteq Free.enabled
  /\ SectionSound(Free)
BY IdleType DEF Free

\* What an attempt leaves behind: only Lidarr waits, and added means a success.
LEMMA TargetActionType ==
  ASSUME NEW t \in Targets, NEW res \in Results, NEW follow \in Slskds \cup {NoTarget},
         NEW prior \in Actions
  PROVE  /\ TargetAction(t, res, follow, prior) \in Actions
         /\ t \in Slskds => TargetAction(t, res, follow, prior).st # "waiting"
         /\ t \in Lidarrs => (TargetAction(t, res, follow, prior).st = "added") <=> (res = "ok")
<1> DEFINE a == TargetAction(t, res, follow, prior)
<1>0. Lidarrs \cap Slskds = {}
  BY ApprovalsAssumption
<1>1. CASE res = "ok"
  <2>1. a = Act(IF t \in Slskds THEN "queued" ELSE "added")
    BY <1>1 DEF TargetAction
  <2> QED BY <2>1, <1>0, <1>1, ActType DEF ActionStates
<1>2. CASE res = "temporary" /\ t \in Lidarrs
  <2>1. a = [Act("waiting") EXCEPT
               !.win = IF Waiting(prior) /\ prior.win = "late" THEN "late" ELSE "early",
               !.follow = follow]
    BY <1>2 DEF TargetAction
  <2>2. a = [st |-> "waiting",
             win |-> IF Waiting(prior) /\ prior.win = "late" THEN "late" ELSE "early",
             follow |-> follow, told |-> FALSE]
    BY <2>1 DEF Act
  <2>3. a \in Actions
    BY <2>2 DEF Actions, ActionStates
  <2> QED BY <2>2, <2>3, <1>0, <1>2
<1>3. CASE res # "ok" /\ ~(res = "temporary" /\ t \in Lidarrs)
  <2>1. a = Act("failed")
    BY <1>3 DEF TargetAction
  <2> QED BY <2>1, <1>3, ActType DEF ActionStates
<1> QED BY <1>1, <1>2, <1>3

\* deriveStatusFromActions reports waiting and added for a reason.
LEMMA DeriveSound ==
  ASSUME NEW acts, NEW lid \in BOOLEAN
  PROVE  /\ Derive(acts, lid) \in Statuses
         /\ Derive(acts, lid) = "waiting" => HasWaiting(acts)
         /\ Derive(acts, lid) = "added_to_lidarr" => lid \/ HasAdded(acts)
BY DEF Derive, Statuses, HasAdded

\* So does the status of a first approval.
LEMMA FirstStatusSound ==
  ASSUME NEW r, NEW acts
  PROVE  /\ FirstStatus(r, acts) \in Statuses
         /\ FirstStatus(r, acts) = "waiting" => HasWaiting(acts)
         /\ FirstStatus(r, acts) = "added_to_lidarr" => HasAdded(acts)
BY DEF FirstStatus, Statuses, HasAdded

\* So does the status of an auto-approval, whose last Lidarr success is in its results.
LEMMA AutoStatusSound ==
  ASSUME NEW x
  PROVE  /\ AutoStatus(x) \in Statuses
         /\ AutoStatus(x) = "waiting" => HasWaiting(x.acts)
         /\ AutoStatus(x) = "added_to_lidarr" => x.lid
BY DEF AutoStatus, Statuses

\* Merging the results of an attempt over the earlier actions keeps what was tried.
LEMMA MergeSound ==
  ASSUME NEW prior \in [Targets -> Actions], NEW acts \in [Targets -> Actions],
         NoSlskdWaits(prior), NoSlskdWaits(acts)
  PROVE  /\ Merge(prior, acts) \in [Targets -> Actions] /\ NoSlskdWaits(Merge(prior, acts))
         /\ HasWaiting(acts) => HasWaiting(Merge(prior, acts))
         /\ HasAdded(acts) => HasAdded(Merge(prior, acts))
<1>1. Slskds \subseteq Targets /\ Lidarrs \subseteq Targets
  BY DEF Targets
<1>2. \A t \in Targets : Merge(prior, acts)[t] = IF acts[t].st # "none" THEN acts[t] ELSE prior[t]
  BY DEF Merge, Tried
<1>3. Merge(prior, acts) \in [Targets -> Actions]
  BY DEF Merge
<1>4. NoSlskdWaits(Merge(prior, acts))
  BY <1>1, <1>2 DEF NoSlskdWaits
<1>5. HasWaiting(acts) => HasWaiting(Merge(prior, acts))
  BY <1>2 DEF HasWaiting, Waiting
<1>6. HasAdded(acts) => HasAdded(Merge(prior, acts))
  BY <1>1, <1>2 DEF HasAdded
<1> QED BY <1>3, <1>4, <1>5, <1>6
-----------------------------------------------------------------------------
(* Steps that work on one recommendation. *)

\* The type of what sections do not hold.
OtherTypes ==
  /\ cand \subseteq Recs
  /\ job \in [Recs -> [Slskds -> {"none"} \cup ActiveJobs \cup EndedJobs]]
  /\ call \in [Recs -> SUBSET Slskds]
  /\ alerts \in [Recs -> Nat]
  /\ faults \in 0..MaxFaults

\* A section that still holds the row it read may change what else it holds.
LEMMA SectionStep ==
  ASSUME IInv, OtherTypes', NEW r \in Recs, NEW x \in Sections,
         x.targets \subseteq x.enabled, SectionSound(x),
         x.who \in {"approve", "retry"} => r \in AutoRecs \/ x.row = row[r],
         cs' = [cs EXCEPT ![r] = x], UNCHANGED <<row, auto>>
  PROVE  IInv'
<1>1. cs' \in [Recs -> Sections] /\ cs'[r] = x /\ \A q \in Recs \ {r} : cs'[q] = cs[q]
  BY DEF IInv, TypeOK
<1>2. TypeOK'
  BY <1>1 DEF IInv, TypeOK, OtherTypes
<1>3. NoLostUpdate'
  BY <1>1 DEF IInv, NoLostUpdate
<1>4. \A q \in Recs : Sound(q)'
  BY <1>1 DEF IInv, Sound
<1> QED BY <1>2, <1>3, <1>4 DEF IInv

\* The end of a section, and a step outside every section, may write a sound row.
LEMMA RowStep ==
  ASSUME IInv, OtherTypes', NEW r \in Recs, NEW w \in Rows, RowSound(w),
         row' = [row EXCEPT ![r] = w], UNCHANGED auto,
         NEW x \in Sections, x.targets \subseteq x.enabled, SectionSound(x),
         x.who \notin {"approve", "retry"}, cs' = [cs EXCEPT ![r] = x]
  PROVE  IInv'
<1>1. cs' \in [Recs -> Sections] /\ cs'[r] = x /\ \A q \in Recs \ {r} : cs'[q] = cs[q]
  BY DEF IInv, TypeOK
<1>2. row' \in [Recs -> Rows] /\ row'[r] = w /\ \A q \in Recs \ {r} : row'[q] = row[q]
  BY DEF IInv, TypeOK
<1>3. TypeOK'
  BY <1>1, <1>2 DEF IInv, TypeOK, OtherTypes
<1>4. NoLostUpdate'
  BY <1>1, <1>2 DEF IInv, NoLostUpdate
<1>5. \A q \in Recs : Sound(q)'
  BY <1>1, <1>2 DEF IInv, Sound
<1> QED BY <1>3, <1>4, <1>5 DEF IInv

\* A section that is free stays so when somebody else writes the row.
LEMMA FreeRowStep ==
  ASSUME IInv, OtherTypes', NEW r \in Recs, NEW w \in Rows, RowSound(w),
         row' = [row EXCEPT ![r] = w], cs[r].who = "free", UNCHANGED <<cs, auto>>
  PROVE  IInv'
<1>1. /\ cs[r] \in Sections /\ cs[r].targets \subseteq cs[r].enabled /\ SectionSound(cs[r])
      /\ cs' = [cs EXCEPT ![r] = cs[r]]
  BY DEF IInv, TypeOK, Sound
<1> QED BY <1>1, RowStep

\* Auto-approval changes what it holds, and the rows of its own batch.
LEMMA AutoChange ==
  ASSUME IInv, OtherTypes', auto' \in [Recs -> Sections],
         \A q \in Recs : AutoSound(auto'[q]) /\ (auto'[q].who # "done" => q \in AutoRecs),
         row' \in [Recs -> Rows], \A q \in Recs : RowSound(row'[q]),
         \A q \in Recs \ AutoRecs : row'[q] = row[q], UNCHANGED cs
  PROVE  IInv'
<1>1. TypeOK'
  BY DEF IInv, TypeOK, OtherTypes
<1>2. NoLostUpdate'
  BY DEF IInv, NoLostUpdate
<1>3. \A q \in Recs : Sound(q)'
  BY DEF IInv, Sound
<1> QED BY <1>1, <1>2, <1>3 DEF IInv

\* Queueing leaves every job in a state it can have.
LEMMA QueueType ==
  ASSUME IInv, NEW r \in Recs, NEW t, NEW res, Queue(r, t, res)
  PROVE  job' \in [Recs -> [Slskds -> {"none"} \cup ActiveJobs \cup EndedJobs]]
BY DEF IInv, TypeOK, Queue, ActiveJobs

-----------------------------------------------------------------------------
(* Approval, rejection and restoration. *)

\* An approval begins with the row as it is now.
LEMMA ApproveBeginKeeps ==
  ASSUME IInv, NEW r \in Recs, NEW enabled \in SUBSET Targets,
         NEW sel \in Targets \cup {NoTarget}, NEW l \in Lidarrs \cup {NoTarget},
         ApproveBegin(r, enabled, sel, l)
  PROVE  IInv'
<1> DEFINE prior == row[r].acts
           asked == IF sel # NoTarget THEN {sel}
                    ELSE {t \in enabled : prior[t].st \notin {"added", "queued"}}
           combined == l # NoTarget /\ r \notin Albums
           follows == {prior[t].follow : t \in {u \in Targets : Retained(prior[u])}}
           left == IF combined THEN {l} ELSE IF r \in Albums THEN asked ELSE asked \ follows
           comb == IF combined THEN sel ELSE NoTarget
           x == [Free EXCEPT
                  !.who = "approve", !.row = row[r], !.lid = row[r].lid,
                  !.enabled = enabled, !.targets = asked, !.left = left, !.comb = comb]
<1>1. /\ sel # NoTarget => sel \in enabled
      /\ l # NoTarget => l \in enabled /\ sel \in Slskds
      /\ cs' = [cs EXCEPT ![r] = x] /\ UNCHANGED <<row, auto, cand, job, call, alerts, faults>>
  BY DEF ApproveBegin
<1>2. asked \subseteq enabled /\ enabled \subseteq Targets
  BY <1>1
<1>3. row[r] \in Rows /\ row[r].lid \in BOOLEAN /\ NoSlskdWaits(row[r].acts)
  BY DEF IInv, TypeOK, Rows, Sound, RowSound
<1>4. left \in SUBSET Targets
  BY <1>1, <1>2
<1>5. comb \in Slskds \cup {NoTarget}
  BY <1>1
<1>6. /\ x \in Sections /\ x.who = "approve" /\ x.row = row[r] /\ x.acts = Free.acts
      /\ x.targets = asked /\ x.enabled = enabled
  <2> HIDE DEF asked, left, comb
  <2> QED BY <1>2, <1>3, <1>4, <1>5, FreeType DEF Sections
<1>7. SectionSound(x)
  BY <1>3, <1>6, FreeType DEF SectionSound
<1>8. OtherTypes'
  BY <1>1 DEF IInv, TypeOK, OtherTypes
<1> HIDE DEF x
<1> QED BY <1>1, <1>2, <1>6, <1>7, <1>8, SectionStep

\* An attempt changes what the section holds, never the row it read.
LEMMA ApproveAttemptKeeps ==
  ASSUME IInv, NEW r \in Recs, NEW t \in Targets, NEW res \in Results, ApproveAttempt(r, t, res)
  PROVE  IInv'
<1> DEFINE sec == cs[r]
           prior == sec.row.acts[t]
           saved == IF Retained(prior) THEN prior.follow ELSE sec.comb
           added == res = "ok" /\ t \in Lidarrs
           a == TargetAction(t, res, saved, prior)
           left == (sec.left \ {t}) \cup (IF added /\ r \notin Albums /\ FollowUp(r, t) # NoTarget
                                          THEN {FollowUp(r, t)} ELSE {})
           x == [sec EXCEPT !.acts = [sec.acts EXCEPT ![t] = a],
                            !.lid = sec.lid \/ (added /\ r \notin Albums), !.left = left]
<1>1. sec \in Sections /\ SectionSound(sec) /\ sec.targets \subseteq sec.enabled
  BY DEF IInv, TypeOK, Sound
<1>2. /\ sec.who = "approve" /\ Queue(r, t, res) /\ cs' = [cs EXCEPT ![r] = x]
      /\ UNCHANGED <<row, auto, cand, call, alerts, faults>>
  BY DEF ApproveAttempt
<1>3. prior \in Actions /\ saved \in Slskds \cup {NoTarget}
  BY <1>1 DEF Sections, Rows, Actions
<1>4. a \in Actions /\ (t \in Slskds => a.st # "waiting")
  BY <1>3, TargetActionType
<1>5. left \subseteq Targets
  <2>1. FollowUp(r, t) \in Slskds \cup {NoTarget}
    BY <1>1, <1>3 DEF FollowUp, Sections, Rows, Actions
  <2> QED BY <2>1, <1>1 DEF Sections, Targets
<1>6. [sec.acts EXCEPT ![t] = a] \in [Targets -> Actions] /\ NoSlskdWaits([sec.acts EXCEPT ![t] = a])
  BY <1>1, <1>4 DEF Sections, SectionSound, NoSlskdWaits, Targets
<1>7. /\ x \in Sections /\ x.who = "approve" /\ x.row = sec.row
      /\ x.targets = sec.targets /\ x.enabled = sec.enabled /\ x.acts = [sec.acts EXCEPT ![t] = a]
  <2> HIDE DEF a, left, added
  <2> QED BY <1>1, <1>2, <1>5, <1>6 DEF Sections
<1>8. SectionSound(x)
  BY <1>1, <1>6, <1>7 DEF SectionSound
<1>9. x.who \in {"approve", "retry"} => r \in AutoRecs \/ x.row = row[r]
  BY <1>2, <1>7 DEF IInv, NoLostUpdate
<1>10. OtherTypes'
  BY <1>2 DEF IInv, TypeOK, OtherTypes, Queue, ActiveJobs
<1> HIDE DEF x
<1> QED BY <1>1, <1>2, <1>7, <1>8, <1>9, <1>10, SectionStep

\* The row an approval writes is sound: its status comes from its actions.
LEMMA ApproveWriteKeeps ==
  ASSUME IInv, NEW r \in Recs, ApproveWrite(r)
  PROVE  IInv'
<1> DEFINE sec == cs[r]
           acts == Merge(sec.row.acts, sec.acts)
           st == IF Tried(sec.row.acts) # {} THEN Derive(acts, sec.lid) ELSE FirstStatus(r, sec.acts)
           w == [status |-> st, acts |-> acts, lid |-> sec.lid]
<1>1. sec \in Sections /\ SectionSound(sec)
  BY DEF IInv, TypeOK, Sound
<1>2. /\ row' = [row EXCEPT ![r] = w] /\ cs' = [cs EXCEPT ![r] = Free]
      /\ alerts' = [alerts EXCEPT ![r] = 0] /\ UNCHANGED <<auto, cand, job, call, faults>>
  BY DEF ApproveWrite
<1>3. /\ sec.lid \in BOOLEAN /\ acts \in [Targets -> Actions] /\ NoSlskdWaits(acts)
      /\ HasWaiting(sec.acts) => HasWaiting(acts)
      /\ HasAdded(sec.acts) => HasAdded(acts)
  BY <1>1, MergeSound DEF Sections, Rows, SectionSound
<1> HIDE DEF acts
<1>4. /\ st \in Statuses /\ (st = "waiting" => HasWaiting(acts))
      /\ st = "added_to_lidarr" => sec.lid \/ HasAdded(acts)
  BY <1>3, DeriveSound, FirstStatusSound
<1>5. w \in Rows /\ RowSound(w)
  <2> HIDE DEF st
  <2> QED BY <1>3, <1>4 DEF Rows, RowSound
<1>6. OtherTypes'
  BY <1>2 DEF IInv, TypeOK, OtherTypes
<1> HIDE DEF w
<1> QED BY <1>2, <1>5, <1>6, FreeType, RowStep

\* A decision writes the status alone, and only between two sections.
LEMMA DecideKeeps ==
  ASSUME IInv, NEW r \in Recs, NEW st \in {"rejected", "pending"}, Decide(r, st)
  PROVE  IInv'
<1> DEFINE w == [row[r] EXCEPT !.status = st]
<1>1. row[r] \in Rows /\ RowSound(row[r])
  BY DEF IInv, TypeOK, Sound
<1>2. w \in Rows /\ RowSound(w)
  BY <1>1 DEF Rows, Statuses, RowSound
<1>3. OtherTypes'
  BY DEF Decide, IInv, TypeOK, OtherTypes
<1>4. row' = [row EXCEPT ![r] = w] /\ cs[r].who = "free" /\ UNCHANGED <<cs, auto>>
  BY DEF Decide
<1> HIDE DEF w
<1> QED BY <1>2, <1>3, <1>4, FreeRowStep
-----------------------------------------------------------------------------
(* The retry worker. *)

\* The worker begins with the row as it is now; what is late fails before the attempts.
LEMMA RetryBeginKeeps ==
  ASSUME IInv, NEW r \in Recs, NEW enabled \in SUBSET Targets, RetryBegin(r, enabled)
  PROVE  IInv'
<1> DEFINE old == row[r].acts
           late == {t \in Targets : Waiting(old[t]) /\ old[t].win = "late"}
           acts == [t \in Targets |-> IF t \in late
                      THEN [old[t] EXCEPT !.st = "failed", !.told = TRUE] ELSE old[t]]
           left == {t \in Targets : Waiting(old[t]) /\ old[t].win = "due"}
           alert == late # {} /\ \A t \in Targets : ~old[t].told
           x == [Free EXCEPT
                  !.who = "retry", !.row = row[r], !.lid = row[r].lid, !.enabled = enabled,
                  !.acts = acts, !.left = left, !.changed = late # {}, !.alert = alert]
<1>1. /\ cs' = IF row[r].status \in {"rejected", "pending"} THEN cs ELSE [cs EXCEPT ![r] = x]
      /\ cand' = cand \ {r} /\ UNCHANGED <<row, auto, job, call, alerts, faults>>
  BY DEF RetryBegin
<1>2. OtherTypes'
  BY <1>1 DEF IInv, TypeOK, OtherTypes
<1>3. row[r] \in Rows /\ old \in [Targets -> Actions] /\ NoSlskdWaits(old)
  BY DEF IInv, TypeOK, Rows, Sound, RowSound
<1>4. acts \in [Targets -> Actions] /\ NoSlskdWaits(acts)
  <2>1. \A t \in Targets : old[t] \in Actions
    BY <1>3
  <2>2. \A t \in Targets : /\ [old[t] EXCEPT !.st = "failed", !.told = TRUE] \in Actions
                          /\ [old[t] EXCEPT !.st = "failed", !.told = TRUE].st = "failed"
    BY <2>1 DEF Actions, ActionStates
  <2>3. acts \in [Targets -> Actions]
    BY <2>1, <2>2
  <2>4. \A t \in Targets : acts[t].st \in {old[t].st, "failed"}
    BY <2>2
  <2> QED BY <2>3, <2>4, <1>3 DEF NoSlskdWaits, Targets
<1>5. left \in SUBSET Targets /\ (late # {}) \in BOOLEAN /\ alert \in BOOLEAN
  OBVIOUS
<1>6. /\ x \in Sections /\ x.row = row[r] /\ x.acts = acts
      /\ x.targets = Free.targets /\ Free.targets = {}
  <2>1. Free.targets = {}
    BY DEF Free, Idle
  <2> HIDE DEF acts, left, late, alert
  <2> QED BY <1>3, <1>4, <1>5, <2>1, FreeType DEF Sections, Rows
<1>7. SectionSound(x)
  BY <1>3, <1>4, <1>6 DEF SectionSound
<1>8. CASE row[r].status \in {"rejected", "pending"}
  <2>1. cs[r] \in Sections /\ cs' = [cs EXCEPT ![r] = cs[r]]
    BY <1>1, <1>8 DEF IInv, TypeOK
  <2>2. /\ cs[r].targets \subseteq cs[r].enabled /\ SectionSound(cs[r])
        /\ cs[r].who \in {"approve", "retry"} => r \in AutoRecs \/ cs[r].row = row[r]
    BY DEF IInv, TypeOK, Sound, NoLostUpdate
  <2> QED BY <1>1, <1>2, <2>1, <2>2, SectionStep
<1>9. CASE row[r].status \notin {"rejected", "pending"}
  <2>1. cs' = [cs EXCEPT ![r] = x] /\ UNCHANGED <<row, auto>>
    BY <1>1, <1>9
  <2> HIDE DEF x
  <2> QED BY <1>2, <1>6, <1>7, <2>1, SectionStep
<1> QED BY <1>8, <1>9

\* What the worker may make of the section it holds: other actions, of the same row.
LEMMA RetryChange ==
  ASSUME IInv, OtherTypes', NEW r \in Recs, cs[r].who = "retry", NEW left \in SUBSET Targets,
         NEW acts \in [Targets -> Actions], NoSlskdWaits(acts),
         NEW lid \in BOOLEAN, NEW changed \in BOOLEAN,
         cs' = [cs EXCEPT ![r] = [cs[r] EXCEPT !.left = left, !.acts = acts, !.lid = lid,
                                               !.changed = changed]],
         UNCHANGED <<row, auto>>
  PROVE  IInv'
<1> DEFINE x == [cs[r] EXCEPT !.left = left, !.acts = acts, !.lid = lid, !.changed = changed]
<1>1. cs[r] \in Sections /\ SectionSound(cs[r]) /\ cs[r].targets \subseteq cs[r].enabled
  BY DEF IInv, TypeOK, Sound
<1>2. /\ x \in Sections /\ x.row = cs[r].row /\ x.acts = acts
      /\ x.targets = cs[r].targets /\ x.enabled = cs[r].enabled
  BY <1>1 DEF Sections
<1>3. SectionSound(x)
  BY <1>1, <1>2 DEF SectionSound
<1>4. r \in AutoRecs \/ x.row = row[r]
  BY <1>2 DEF IInv, NoLostUpdate
<1>5. cs' = [cs EXCEPT ![r] = x]
  OBVIOUS
<1> HIDE DEF x
<1> QED BY <1>1, <1>2, <1>3, <1>4, <1>5, SectionStep

\* One target of the section gets another action.
LEMMA OneAction ==
  ASSUME NEW acts \in [Targets -> Actions], NoSlskdWaits(acts), NEW t \in Targets, NEW a \in Actions,
         t \in Slskds => a.st # "waiting"
  PROVE  [acts EXCEPT ![t] = a] \in [Targets -> Actions] /\ NoSlskdWaits([acts EXCEPT ![t] = a])
BY DEF NoSlskdWaits, Targets

\* A blocked or disabled target is left without an attempt.
LEMMA RetrySkipKeeps ==
  ASSUME IInv, NEW r \in Recs, NEW t \in Targets, NEW blocked \in BOOLEAN, RetrySkip(r, t, blocked)
  PROVE  IInv'
<1> DEFINE sec == cs[r]
           a == IF blocked THEN Act("failed") ELSE sec.acts[t]
           x == [sec EXCEPT !.left = sec.left \ {t}, !.acts = [sec.acts EXCEPT ![t] = a],
                            !.lid = sec.lid, !.changed = sec.changed \/ blocked]
<1>1. sec \in Sections /\ NoSlskdWaits(sec.acts)
  BY DEF IInv, TypeOK, Sound, SectionSound
<1>2. sec.who = "retry" /\ UNCHANGED <<row, auto, cand, job, call, alerts, faults>>
  BY DEF RetrySkip
<1>3. cs' = [cs EXCEPT ![r] = [sec EXCEPT
               !.left = sec.left \ {t},
               !.acts = [sec.acts EXCEPT ![t] = a],
               !.changed = sec.changed \/ blocked]]
  BY <1>1 DEF RetrySkip, Sections
<1>4. x = [sec EXCEPT !.left = sec.left \ {t}, !.acts = [sec.acts EXCEPT ![t] = a],
                      !.changed = sec.changed \/ blocked]
  BY <1>1 DEF Sections
<1>5. a \in Actions /\ (t \in Slskds => a.st # "waiting")
  BY <1>1, ActType DEF Sections, ActionStates, NoSlskdWaits
<1>6. [sec.acts EXCEPT ![t] = a] \in [Targets -> Actions] /\ NoSlskdWaits([sec.acts EXCEPT ![t] = a])
  <2> HIDE DEF a
  <2> QED BY <1>1, <1>5, OneAction DEF Sections
<1>7. /\ sec.left \ {t} \in SUBSET Targets /\ sec.lid \in BOOLEAN
      /\ (sec.changed \/ blocked) \in BOOLEAN
  BY <1>1 DEF Sections
<1>8. OtherTypes'
  BY <1>2 DEF IInv, TypeOK, OtherTypes
<1>9. cs' = [cs EXCEPT ![r] = x]
  BY <1>3, <1>4
<1> QED BY <1>2, <1>6, <1>7, <1>8, <1>9, RetryChange

\* A follow-up is a slskd target.
LEMMA OwedType ==
  ASSUME IInv, NEW r \in Recs, NEW t \in Targets
  PROVE  Owed(r, t) \in Slskds \cup {NoTarget} /\ cs[r].acts[t].follow \in Slskds \cup {NoTarget}
<1>1. cs[r].acts[t] \in Actions
  BY DEF IInv, TypeOK, Sections
<1> QED BY <1>1 DEF Owed, Actions

\* A retry changes the action of its target and of the follow-up.
LEMMA RetryAttemptKeeps ==
  ASSUME IInv, NEW r \in Recs, NEW t \in Targets, NEW res \in Results, NEW fres \in Results,
         RetryAttempt(r, t, res, fres)
  PROVE  IInv'
<1> DEFINE sec == cs[r]
           added == res = "ok"
           f == Owed(r, t)
           after == TargetAction(t, res, sec.acts[t].follow, sec.acts[t])
           fafter == TargetAction(f, fres, NoTarget, Act("none"))
           one == [sec.acts EXCEPT ![t] = after]
           acts == IF added /\ f # NoTarget THEN [one EXCEPT ![f] = fafter] ELSE one
           lid == sec.lid \/ (added /\ r \notin Albums)
<1>1. sec \in Sections /\ NoSlskdWaits(sec.acts)
  BY DEF IInv, TypeOK, Sound, SectionSound
<1>2. /\ sec.who = "retry" /\ UNCHANGED <<row, auto, cand, call, alerts, faults>>
      /\ Queue(r, f, fres) \/ UNCHANGED job
  BY DEF RetryAttempt
<1>3. f \in Slskds \cup {NoTarget} /\ sec.acts[t].follow \in Slskds \cup {NoTarget}
  BY OwedType
<1>4. after \in Actions /\ (t \in Slskds => after.st # "waiting")
  <2> sec.acts[t] \in Actions
    BY <1>1 DEF Sections
  <2> QED BY <1>3, TargetActionType
<1>5. one \in [Targets -> Actions] /\ NoSlskdWaits(one)
  <2> HIDE DEF after
  <2> QED BY <1>1, <1>4, OneAction DEF Sections
<1>6. ASSUME added, f # NoTarget
      PROVE  [one EXCEPT ![f] = fafter] \in [Targets -> Actions] /\ NoSlskdWaits([one EXCEPT ![f] = fafter])
  <2>1. f \in Targets /\ f \in Slskds
    BY <1>3, <1>6 DEF Targets
  <2>2. Act("none") \in Actions /\ NoTarget \in Slskds \cup {NoTarget}
    BY ActType DEF ActionStates
  <2>3. fafter \in Actions /\ (f \in Slskds => fafter.st # "waiting")
    <3> HIDE DEF f
    <3> QED BY <2>1, <2>2, TargetActionType
  <2> HIDE DEF f, fafter, one
  <2> QED BY <1>5, <2>1, <2>3, OneAction
<1>7. cs' = [cs EXCEPT ![r] = [sec EXCEPT !.left = sec.left \ {t}, !.acts = acts, !.lid = lid,
                                          !.changed = TRUE]]
  BY <1>1 DEF RetryAttempt, Sections
<1>8. sec.left \ {t} \in SUBSET Targets /\ lid \in BOOLEAN /\ TRUE \in BOOLEAN
  BY <1>1 DEF Sections
<1>9. OtherTypes'
  <2> HIDE DEF f
  <2>1. job' \in [Recs -> [Slskds -> {"none"} \cup ActiveJobs \cup EndedJobs]]
    BY <1>2, QueueType DEF IInv, TypeOK
  <2> QED BY <1>2, <2>1 DEF IInv, TypeOK, OtherTypes
<1>10. acts \in [Targets -> Actions] /\ NoSlskdWaits(acts)
  <2>1. CASE added /\ f # NoTarget
    <3>1. acts = [one EXCEPT ![f] = fafter]
      BY <2>1
    <3> QED BY <1>6, <2>1, <3>1
  <2>2. CASE ~(added /\ f # NoTarget)
    <3>1. acts = one
      BY <2>2
    <3> QED BY <1>5, <3>1
  <2> QED BY <2>1, <2>2
<1> HIDE DEF acts, lid
<1> QED BY <1>2, <1>7, <1>8, <1>9, <1>10, RetryChange

\* A retry that throws changes at most the action of the follow-up.
LEMMA RetryThrowKeeps ==
  ASSUME IInv, NEW r \in Recs, NEW f \in Slskds \cup {NoTarget}, NEW fres \in Results,
         RetryThrow(r, f, fres)
  PROVE  IInv'
<1> DEFINE sec == cs[r]
           fafter == TargetAction(f, fres, NoTarget, Act("none"))
           acts == IF f # NoTarget THEN [sec.acts EXCEPT ![f] = fafter] ELSE sec.acts
<1>1. sec \in Sections /\ NoSlskdWaits(sec.acts)
  BY DEF IInv, TypeOK, Sound, SectionSound
<1>2. /\ sec.who = "retry" /\ UNCHANGED <<row, auto, cand, call, alerts, faults>>
      /\ Queue(r, f, fres) \/ UNCHANGED job
  BY DEF RetryThrow
<1>3. cs' = [cs EXCEPT ![r] = [sec EXCEPT !.left = {}, !.acts = acts]]
  BY <1>1 DEF RetryThrow, Sections
<1>4. [sec EXCEPT !.left = {}, !.acts = acts]
        = [sec EXCEPT !.left = {}, !.acts = acts, !.lid = sec.lid, !.changed = sec.changed]
  <2> HIDE DEF acts
  <2> QED BY <1>1 DEF Sections
<1>5. acts \in [Targets -> Actions] /\ NoSlskdWaits(acts)
  <2>1. CASE f # NoTarget
    <3>1. f \in Targets /\ f \in Slskds
      BY <2>1 DEF Targets
    <3>2. fafter \in Actions /\ (f \in Slskds => fafter.st # "waiting")
      <4> Act("none") \in Actions /\ NoTarget \in Slskds \cup {NoTarget}
        BY ActType DEF ActionStates
      <4> QED BY <3>1, TargetActionType
    <3>3. acts = [sec.acts EXCEPT ![f] = fafter]
      BY <2>1
    <3> HIDE DEF fafter
    <3> QED BY <1>1, <3>1, <3>2, <3>3, OneAction DEF Sections
  <2>2. CASE f = NoTarget
    <3>1. acts = sec.acts
      BY <2>2
    <3> QED BY <1>1, <3>1 DEF Sections
  <2> QED BY <2>1, <2>2
<1>6. OtherTypes'
  <2>1. job' \in [Recs -> [Slskds -> {"none"} \cup ActiveJobs \cup EndedJobs]]
    BY <1>2, QueueType DEF IInv, TypeOK
  <2> QED BY <1>2, <2>1 DEF IInv, TypeOK, OtherTypes
<1>7. sec.lid \in BOOLEAN /\ sec.changed \in BOOLEAN /\ {} \in SUBSET Targets
  BY <1>1 DEF Sections
<1>8. cs' = [cs EXCEPT ![r] = [sec EXCEPT !.left = {}, !.acts = acts, !.lid = sec.lid,
                                          !.changed = sec.changed]]
  BY <1>3, <1>4
<1> HIDE DEF acts
<1> QED BY <1>2, <1>5, <1>6, <1>7, <1>8, RetryChange

\* The row a retry writes is sound: its status is derived again.
LEMMA RetryWriteKeeps ==
  ASSUME IInv, NEW r \in Recs, RetryWrite(r)
  PROVE  IInv'
<1> DEFINE sec == cs[r]
           w == IF sec.changed
                THEN [status |-> Derive(sec.acts, sec.lid), acts |-> sec.acts, lid |-> sec.lid]
                ELSE row[r]
           x == IF sec.alert THEN [Free EXCEPT !.who = "alert"] ELSE Free
<1>1. sec \in Sections /\ SectionSound(sec) /\ row[r] \in Rows /\ RowSound(row[r])
  BY DEF IInv, TypeOK, Sound
<1>2. cs' = [cs EXCEPT ![r] = x] /\ UNCHANGED <<auto, cand, job, call, alerts, faults>>
  BY DEF RetryWrite
<1>3. row' = [row EXCEPT ![r] = w]
  BY DEF RetryWrite, IInv, TypeOK
<1>4. w \in Rows /\ RowSound(w)
  <2>1. sec.lid \in BOOLEAN /\ sec.acts \in [Targets -> Actions] /\ NoSlskdWaits(sec.acts)
    BY <1>1 DEF Sections, SectionSound
  <2>2. CASE sec.changed
    <3>1. w = [status |-> Derive(sec.acts, sec.lid), acts |-> sec.acts, lid |-> sec.lid]
      BY <2>2
    <3> HIDE DEF w
    <3> QED BY <2>1, <3>1, DeriveSound DEF Rows, RowSound
  <2>3. CASE ~sec.changed
    <3>1. w = row[r]
      BY <2>3
    <3> QED BY <1>1, <3>1
  <2> QED BY <2>2, <2>3
<1>5. /\ x \in Sections /\ x.targets \subseteq x.enabled /\ SectionSound(x)
      /\ x.who \notin {"approve", "retry"}
  BY FreeType DEF Sections, SectionSound
<1>6. OtherTypes'
  BY <1>2 DEF IInv, TypeOK, OtherTypes
<1> HIDE DEF w, x
<1> QED BY <1>2, <1>3, <1>4, <1>5, <1>6, RowStep

\* An alert ends the section without another write.
LEMMA AlertKeeps ==
  ASSUME IInv, NEW r \in Recs, NEW sent \in BOOLEAN, Alert(r, sent)
  PROVE  IInv'
<1>1. cs' = [cs EXCEPT ![r] = Free] /\ UNCHANGED <<row, auto, cand, job, call, faults>>
  BY DEF Alert
<1>2. alerts' \in [Recs -> Nat]
  BY DEF Alert, IInv, TypeOK
<1>3. OtherTypes'
  BY <1>1, <1>2 DEF IInv, TypeOK, OtherTypes
<1> QED BY <1>1, <1>3, FreeType, SectionStep

-----------------------------------------------------------------------------
(* Downloads, time and failures. *)

\* A job moves without touching a row.
LEMMA JobMoveKeeps ==
  ASSUME IInv, NEW r \in Recs, NEW s \in Slskds, NEW to \in ActiveJobs \cup EndedJobs,
         JobMove(r, s, to)
  PROVE  IInv'
<1>1. job' = [job EXCEPT ![r][s] = to] /\ call' = [call EXCEPT ![r] = call[r] \cup {s}]
  BY DEF JobMove
<1>2. UNCHANGED <<row, cs, auto, cand, alerts, faults>>
  BY DEF JobMove
<1>3. job' \in [Recs -> [Slskds -> {"none"} \cup ActiveJobs \cup EndedJobs]]
  BY <1>1 DEF IInv, TypeOK
<1>4. call' \in [Recs -> SUBSET Slskds]
  BY <1>1 DEF IInv, TypeOK
<1>5. TypeOK'
  BY <1>2, <1>3, <1>4 DEF IInv, TypeOK
<1> QED BY <1>2, <1>5 DEF IInv, NoLostUpdate, Sound

\* A download update writes the action of a target that never waits.
LEMMA SlskdUpdateKeeps ==
  ASSUME IInv, NEW r \in Recs, NEW s \in Slskds, SlskdUpdate(r, s)
  PROVE  IInv'
<1> DEFINE st == IF job[r][s] = "completed" THEN "added" ELSE job[r][s]
           acts == [row[r].acts EXCEPT ![s] = Act(st)]
           status == IF job[r][s] = "failed" THEN Derive(acts, row[r].lid) ELSE row[r].status
           w == [row[r] EXCEPT !.acts = acts, !.status = status]
<1>1. row[r] \in Rows /\ RowSound(row[r])
  BY DEF IInv, TypeOK, Sound
<1>2. /\ s \in call[r] /\ cs[r].who = "free" /\ row' = [row EXCEPT ![r] = w]
      /\ call' = [call EXCEPT ![r] = call[r] \ {s}] /\ UNCHANGED <<cs, auto, cand, job, alerts, faults>>
  BY DEF SlskdUpdate
<1>3. OtherTypes'
  BY <1>2 DEF IInv, TypeOK, OtherTypes
<1>4. st \in ActionStates /\ st # "waiting"
  <2>1. job[r][s] \in {"none"} \cup ActiveJobs \cup EndedJobs
    BY DEF IInv, TypeOK
  <2> QED BY <2>1 DEF ActiveJobs, EndedJobs, ActionStates
<1>5. /\ acts \in [Targets -> Actions] /\ NoSlskdWaits(acts)
      /\ acts[s].st = st /\ \A t \in Targets \ {s} : acts[t] = row[r].acts[t]
  <2>1. Act(st) \in Actions /\ Act(st).st = st
    BY <1>4, ActType
  <2>2. s \in Targets
    BY DEF Targets
  <2> HIDE DEF st
  <2> QED BY <1>1, <1>4, <2>1, <2>2, OneAction DEF Rows, RowSound
<1> HIDE DEF acts
<1>6. HasWaiting(row[r].acts) => HasWaiting(acts)
  BY <1>1, <1>5 DEF HasWaiting, Waiting, RowSound, NoSlskdWaits
<1>7. HasAdded(row[r].acts) => HasAdded(acts)
  BY <1>5, ApprovalsAssumption DEF HasAdded, Targets
<1>8. /\ status \in Statuses /\ (status = "waiting" => HasWaiting(acts))
      /\ status = "added_to_lidarr" => row[r].lid \/ HasAdded(acts)
  BY <1>1, <1>6, <1>7, DeriveSound DEF Rows, RowSound
<1>9. w \in Rows /\ RowSound(w)
  <2> HIDE DEF status
  <2> QED BY <1>1, <1>5, <1>8 DEF Rows, RowSound
<1> HIDE DEF w
<1> QED BY <1>2, <1>3, <1>9, FreeRowStep

\* Time moves a retry window on and leaves what the actions say.
LEMMA ElapseKeeps ==
  ASSUME IInv, NEW r \in Recs, NEW t \in Targets, NEW win \in {"due", "late"}, Elapse(r, t, win)
  PROVE  IInv'
<1> DEFINE a == [row[r].acts[t] EXCEPT !.win = win]
           acts == [row[r].acts EXCEPT ![t] = a]
           w == [row[r] EXCEPT !.acts = acts]
<1>1. row[r] \in Rows /\ RowSound(row[r])
  BY DEF IInv, TypeOK, Sound
<1>2. cs[r].who = "free" /\ UNCHANGED <<cs, auto, cand, job, call, alerts, faults>>
  BY DEF Elapse
<1>3. row' = [row EXCEPT ![r] = w]
  BY <1>1 DEF Elapse, Rows
<1>4. a \in Actions /\ a.st = row[r].acts[t].st
  <2> row[r].acts[t] \in Actions
    BY <1>1 DEF Rows
  <2> QED BY DEF Actions
<1>5. acts \in [Targets -> Actions] /\ \A u \in Targets : acts[u].st = row[r].acts[u].st
  <2> HIDE DEF a
  <2> QED BY <1>1, <1>4 DEF Rows
<1>6. w \in Rows /\ w.status = row[r].status /\ w.lid = row[r].lid /\ w.acts = acts
  <2> HIDE DEF acts
  <2> QED BY <1>1, <1>5 DEF Rows
<1>7. RowSound(w)
  <2> HIDE DEF acts, w
  <2> QED BY <1>1, <1>5, <1>6 DEF RowSound, HasWaiting, Waiting, HasAdded, NoSlskdWaits, Targets
<1>8. OtherTypes'
  BY <1>2 DEF IInv, TypeOK, OtherTypes
<1> HIDE DEF w
<1> QED BY <1>2, <1>3, <1>6, <1>7, <1>8, FreeRowStep

\* A section that throws frees the lock.
LEMMA SectionFailsKeeps ==
  ASSUME IInv, NEW r \in Recs, SectionFails(r)
  PROVE  IInv'
<1>1. cs' = [cs EXCEPT ![r] = Free] /\ UNCHANGED <<row, auto, cand, job, call, alerts>>
  BY DEF SectionFails
<1>2. faults' \in 0..MaxFaults
  BY ApprovalsAssumption DEF SectionFails, IInv, TypeOK
<1>3. OtherTypes'
  BY <1>1, <1>2 DEF IInv, TypeOK, OtherTypes
<1> QED BY <1>1, <1>3, FreeType, SectionStep

\* A crash loses every section and no row.
LEMMA CrashKeeps ==
  ASSUME IInv, Crash
  PROVE  IInv'
<1>1. /\ cs' = [r \in Recs |-> Free] /\ auto' = [r \in Recs |-> Idle("done")]
      /\ cand' = {} /\ call' = [r \in Recs |-> {}] /\ UNCHANGED <<row, job, alerts>>
  BY DEF Crash
<1>2. faults' \in 0..MaxFaults
  BY ApprovalsAssumption DEF Crash, IInv, TypeOK
<1>3. TypeOK'
  BY <1>1, <1>2, FreeType, IdleType DEF IInv, TypeOK
<1>4. NoLostUpdate'
  BY <1>1, FreeType DEF NoLostUpdate
<1>5. \A r \in Recs : Sound(r)'
  BY <1>1, FreeType, IdleType DEF IInv, Sound
<1> QED BY <1>3, <1>4, <1>5 DEF IInv
-----------------------------------------------------------------------------
(* Auto-approval. *)

\* Most of its steps write no row.
LEMMA AutoOnly ==
  ASSUME IInv, OtherTypes', auto' \in [Recs -> Sections],
         \A q \in Recs : AutoSound(auto'[q]) /\ (auto'[q].who # "done" => q \in AutoRecs),
         UNCHANGED <<row, cs>>
  PROVE  IInv'
<1>1. row' \in [Recs -> Rows] /\ \A q \in Recs : RowSound(row'[q])
  BY DEF IInv, TypeOK, Sound
<1> QED BY <1>1, AutoChange

\* Auto-approval takes up the pending recommendations of its batch.
LEMMA AutoListKeeps ==
  ASSUME IInv, AutoList
  PROVE  IInv'
<1> DEFINE who(r) == IF auto[r].who = "new" /\ row[r].status = "pending" THEN "listed" ELSE "done"
           x(r) == Idle(who(r))
<1>1. auto' = [r \in Recs |-> x(r)] /\ UNCHANGED <<row, cs, cand, job, call, alerts, faults>>
  BY DEF AutoList
<1>2. OtherTypes'
  BY <1>1 DEF IInv, TypeOK, OtherTypes
<1>3. \A q \in Recs : x(q) \in Sections /\ AutoSound(x(q)) /\ (x(q).who # "done" => q \in AutoRecs)
  <2> TAKE q \in Recs
  <2>1. who(q) \in {"listed", "done"} /\ (who(q) # "done" => auto[q].who = "new")
    OBVIOUS
  <2>2. auto[q].who # "done" => q \in AutoRecs
    BY DEF IInv, Sound
  <2> HIDE DEF who
  <2> QED BY <2>1, <2>2, IdleType
<1> HIDE DEF x
<1> QED BY <1>1, <1>2, <1>3, AutoOnly

\* A recommendation without targets is decided at once.
LEMMA AutoBeginKeeps ==
  ASSUME IInv, NEW r \in Recs, NEW enabled \in SUBSET Targets, NEW allowed \in BOOLEAN,
         AutoBegin(r, enabled, allowed)
  PROVE  IInv'
<1> DEFINE x == IF allowed /\ enabled # {} THEN [Idle("auto") EXCEPT !.left = enabled] ELSE Idle("done")
<1>1. auto[r].who = "listed" /\ UNCHANGED <<cs, cand, job, call, alerts, faults>>
  BY DEF AutoBegin
<1>2. auto' = [auto EXCEPT ![r] = x]
  BY DEF AutoBegin
<1>3. \/ UNCHANGED row
      \/ \E st \in {"approved", "add_failed"} :
           row' = [row EXCEPT ![r] = [row[r] EXCEPT !.status = st, !.acts = NoActions]]
  BY DEF AutoBegin, IInv, TypeOK, Rows
<1>4. r \in AutoRecs
  BY <1>1 DEF IInv, Sound
<1>5. x \in Sections /\ AutoSound(x)
  <2>1. Idle("auto") \in Sections /\ AutoSound(Idle("auto")) /\ Idle("done") \in Sections /\ AutoSound(Idle("done"))
    BY IdleType
  <2>2. CASE allowed /\ enabled # {}
    <3>1. x = [Idle("auto") EXCEPT !.left = enabled]
      BY <2>2
    <3>2. x \in Sections /\ x.acts = Idle("auto").acts /\ x.left = enabled /\ x.lid = Idle("auto").lid
      BY <2>1, <3>1 DEF Sections
    <3>3. Idle("auto").acts = NoActions
      BY DEF Idle
    <3> HIDE DEF x
    <3> QED BY <2>1, <3>2, <3>3, NoActionsType DEF AutoSound
  <2>3. CASE ~(allowed /\ enabled # {})
    BY <2>1, <2>3
  <2> QED BY <2>2, <2>3
<1> HIDE DEF x
<1>6. auto' \in [Recs -> Sections]
  BY <1>2, <1>5 DEF IInv, TypeOK
<1>7. \A q \in Recs : AutoSound(auto'[q]) /\ (auto'[q].who # "done" => q \in AutoRecs)
  BY <1>2, <1>4, <1>5 DEF IInv, TypeOK, Sound
<1>8. OtherTypes'
  BY <1>1 DEF IInv, TypeOK, OtherTypes
<1>9. /\ row' \in [Recs -> Rows] /\ \A q \in Recs : RowSound(row'[q])
      /\ \A q \in Recs \ AutoRecs : row'[q] = row[q]
  <2>1. CASE UNCHANGED row
    BY <2>1 DEF IInv, TypeOK, Sound
  <2>2. CASE ~UNCHANGED row
    <3>1. PICK st \in {"approved", "add_failed"} :
            row' = [row EXCEPT ![r] = [row[r] EXCEPT !.status = st, !.acts = NoActions]]
      BY <1>3, <2>2
    <3> DEFINE w == [row[r] EXCEPT !.status = st, !.acts = NoActions]
    <3>2. row[r] \in Rows
      BY DEF IInv, TypeOK
    <3>3. w \in Rows /\ w.status = st /\ w.acts = NoActions
      BY <3>2, NoActionsType DEF Rows, Statuses
    <3>4. RowSound(w)
      BY <3>3, NoActionsType DEF RowSound
    <3>5. row' = [row EXCEPT ![r] = w]
      BY <3>1
    <3> HIDE DEF w
    <3> QED BY <1>4, <3>3, <3>4, <3>5 DEF IInv, TypeOK, Sound
  <2> QED BY <2>1, <2>2
<1> QED BY <1>1, <1>6, <1>7, <1>8, <1>9, AutoChange

\* A target tried by auto-approval leaves a result, and the last Lidarr result decides.
LEMMA AutoAttemptKeeps ==
  ASSUME IInv, NEW r \in Recs, NEW t \in Targets, NEW res \in Results, AutoAttempt(r, t, res)
  PROVE  IInv'
<1> DEFINE sec == auto[r]
           a == TargetAction(t, res, NoTarget, Act("none"))
           acts == [sec.acts EXCEPT ![t] = a]
           lid == IF t \in Lidarrs THEN res = "ok" ELSE sec.lid
           x == [sec EXCEPT !.acts = acts, !.lid = lid, !.targets = sec.targets \cup {t},
                            !.left = sec.left \ {t}]
<1>1. sec \in Sections /\ AutoSound(sec)
  BY DEF IInv, TypeOK, Sound
<1>2. /\ sec.who = "auto" /\ t \in sec.left /\ Queue(r, t, res)
      /\ UNCHANGED <<row, cs, cand, call, alerts, faults>>
  BY DEF AutoAttempt
<1>3. auto' = [auto EXCEPT ![r] = x]
  BY <1>1 DEF AutoAttempt, Sections
<1>4. r \in AutoRecs
  BY <1>2 DEF IInv, Sound
<1>5. /\ a \in Actions /\ (t \in Slskds => a.st # "waiting")
      /\ t \in Lidarrs => ((a.st = "added") <=> (res = "ok"))
  <2> Act("none") \in Actions /\ NoTarget \in Slskds \cup {NoTarget}
    BY ActType DEF ActionStates
  <2> QED BY TargetActionType
<1>6. /\ acts \in [Targets -> Actions] /\ NoSlskdWaits(acts)
      /\ acts[t] = a /\ \A u \in Targets \ {t} : acts[u] = sec.acts[u]
  <2> HIDE DEF a
  <2> QED BY <1>1, <1>5, OneAction DEF Sections, AutoSound
<1>7. lid \in BOOLEAN /\ (lid => HasAdded(acts))
  <2>1. CASE t \in Lidarrs
    BY <2>1, <1>5, <1>6 DEF HasAdded
  <2>2. CASE t \notin Lidarrs
    <3>1. lid = sec.lid /\ sec.lid \in BOOLEAN
      BY <2>2, <1>1 DEF Sections
    <3> HIDE DEF acts, lid
    <3> QED BY <2>2, <3>1, <1>1, <1>6 DEF AutoSound, HasAdded, Targets
  <2> QED BY <2>1, <2>2
<1> HIDE DEF acts, lid
<1>8. /\ x \in Sections /\ x.acts = acts /\ x.lid = lid /\ x.left = sec.left \ {t}
  BY <1>1, <1>6, <1>7 DEF Sections
<1> HIDE DEF x
<1>9. AutoSound(x)
  BY <1>1, <1>6, <1>7, <1>8 DEF AutoSound, Sections
<1>10. auto' \in [Recs -> Sections]
  BY <1>3, <1>8 DEF IInv, TypeOK
<1>11. \A q \in Recs : AutoSound(auto'[q]) /\ (auto'[q].who # "done" => q \in AutoRecs)
  BY <1>3, <1>4, <1>9 DEF IInv, TypeOK, Sound
<1>12. OtherTypes'
  <2>1. job' \in [Recs -> [Slskds -> {"none"} \cup ActiveJobs \cup EndedJobs]]
    BY <1>2, QueueType
  <2> QED BY <1>2, <2>1 DEF IInv, TypeOK, OtherTypes
<1> QED BY <1>2, <1>10, <1>11, <1>12, AutoOnly

\* A target that throws ends the attempts, its earlier results stay.
LEMMA AutoThrowKeeps ==
  ASSUME IInv, NEW r \in Recs, NEW t \in Targets, AutoThrow(r, t)
  PROVE  IInv'
<1> DEFINE sec == auto[r]
           acts == [sec.acts EXCEPT ![t] = Act("failed")]
           x == [sec EXCEPT !.acts = acts, !.left = {}]
<1>1. sec \in Sections /\ AutoSound(sec)
  BY DEF IInv, TypeOK, Sound
<1>2. /\ sec.who = "auto" /\ t \in sec.left
      /\ UNCHANGED <<row, cs, cand, job, call, alerts, faults>>
  BY DEF AutoThrow
<1>3. auto' = [q \in Recs |-> IF q = r THEN x ELSE Idle("done")]
  BY <1>1 DEF AutoThrow, Sections
<1>4. r \in AutoRecs
  BY <1>2 DEF IInv, Sound
<1>5. /\ acts \in [Targets -> Actions] /\ NoSlskdWaits(acts)
      /\ \A u \in Targets \ {t} : acts[u] = sec.acts[u]
  <2> Act("failed") \in Actions /\ Act("failed").st = "failed"
    BY ActType DEF ActionStates
  <2> QED BY <1>1, OneAction DEF Sections, AutoSound
<1>6. sec.lid => HasAdded(acts)
  <2>1. sec.acts[t].st = "none"
    BY <1>1, <1>2 DEF AutoSound
  <2> HIDE DEF acts
  <2> QED BY <1>1, <1>5, <2>1 DEF AutoSound, HasAdded, Targets
<1> HIDE DEF acts
<1>7. x \in Sections /\ x.acts = acts /\ x.lid = sec.lid /\ x.left = {}
  BY <1>1, <1>5 DEF Sections
<1> HIDE DEF x
<1>8. AutoSound(x)
  BY <1>5, <1>6, <1>7 DEF AutoSound
<1>9. OtherTypes'
  BY <1>2 DEF IInv, TypeOK, OtherTypes
<1> QED BY <1>2, <1>3, <1>4, <1>7, <1>8, <1>9, IdleType, AutoOnly

\* A cancelled run drops what is left.
LEMMA AutoStopKeeps ==
  ASSUME IInv, NEW written \in BOOLEAN, AutoStop(written)
  PROVE  IInv'
<1> DEFINE kept(r) == auto[r].who = "auto" /\ Tried(auto[r].acts) # {} /\ written
           x(r) == IF kept(r) THEN [auto[r] EXCEPT !.left = {}] ELSE Idle("done")
<1>1. auto' = [r \in Recs |-> x(r)] /\ UNCHANGED <<row, cs, cand, job, call, alerts, faults>>
  BY DEF AutoStop
<1>2. OtherTypes'
  BY <1>1 DEF IInv, TypeOK, OtherTypes
<1>3. \A q \in Recs : x(q) \in Sections /\ AutoSound(x(q)) /\ (x(q).who # "done" => q \in AutoRecs)
  <2> TAKE q \in Recs
  <2>1. /\ auto[q] \in Sections /\ AutoSound(auto[q]) /\ (auto[q].who # "done" => q \in AutoRecs)
    BY DEF IInv, TypeOK, Sound
  <2>2. CASE kept(q)
    <3>1. x(q) = [auto[q] EXCEPT !.left = {}]
      BY <2>2
    <3>2. /\ x(q) \in Sections /\ x(q).acts = auto[q].acts /\ x(q).lid = auto[q].lid
          /\ x(q).left = {} /\ x(q).who = auto[q].who
      BY <2>1, <3>1 DEF Sections
    <3> HIDE DEF x
    <3> QED BY <2>1, <3>2 DEF AutoSound
  <2>3. CASE ~kept(q)
    <3>1. x(q) = Idle("done")
      BY <2>3
    <3> QED BY <3>1, IdleType
  <2> QED BY <2>2, <2>3
<1> HIDE DEF x
<1> QED BY <1>1, <1>2, <1>3, AutoOnly

\* The row auto-approval writes is sound, though it may replace a newer one.
LEMMA AutoWriteKeeps ==
  ASSUME IInv, NEW r \in Recs, AutoWrite(r)
  PROVE  IInv'
<1> DEFINE sec == auto[r]
           w == [status |-> AutoStatus(sec), acts |-> sec.acts,
                 lid |-> row[r].lid \/ (sec.lid /\ r \notin Albums)]
<1>1. sec \in Sections /\ AutoSound(sec) /\ row[r] \in Rows
  BY DEF IInv, TypeOK, Sound
<1>2. /\ sec.who = "auto" /\ row' = [row EXCEPT ![r] = w] /\ auto' = [auto EXCEPT ![r] = Idle("done")]
      /\ UNCHANGED <<cs, cand, job, call, alerts, faults>>
  BY DEF AutoWrite
<1>3. r \in AutoRecs
  BY <1>2 DEF IInv, Sound
<1>4. w \in Rows /\ RowSound(w)
  BY <1>1, AutoStatusSound DEF Rows, Sections, RowSound, AutoSound
<1> HIDE DEF w
<1>5. /\ row' \in [Recs -> Rows] /\ \A q \in Recs : RowSound(row'[q])
      /\ \A q \in Recs \ AutoRecs : row'[q] = row[q]
  BY <1>2, <1>3, <1>4 DEF IInv, TypeOK, Sound
<1>6. /\ auto' \in [Recs -> Sections]
      /\ \A q \in Recs : AutoSound(auto'[q]) /\ (auto'[q].who # "done" => q \in AutoRecs)
  BY <1>2, IdleType DEF IInv, TypeOK, Sound
<1>7. OtherTypes'
  BY <1>2 DEF IInv, TypeOK, OtherTypes
<1> QED BY <1>2, <1>5, <1>6, <1>7, AutoChange

-----------------------------------------------------------------------------
(* The theorems. *)

\* The invariant holds when every recommendation is pending.
LEMMA InitIInv == Init => IInv
<1> SUFFICES ASSUME Init PROVE IInv
  OBVIOUS
<1> DEFINE w == [status |-> "pending", acts |-> NoActions, lid |-> FALSE]
<1>1. w \in Rows /\ RowSound(w)
  BY NoActionsType DEF Rows, Statuses, RowSound
<1>2. /\ row = [r \in Recs |-> w] /\ cs = [r \in Recs |-> Free] /\ cand = {}
      /\ job = [r \in Recs |-> [s \in Slskds |-> "none"]] /\ call = [r \in Recs |-> {}]
      /\ alerts = [r \in Recs |-> 0] /\ faults = 0
  BY DEF Init
<1> DEFINE x(r) == Idle(IF r \in AutoRecs THEN "new" ELSE "done")
<1>3. auto = [r \in Recs |-> x(r)]
  BY DEF Init
<1>4. \A r \in Recs : x(r) \in Sections /\ AutoSound(x(r)) /\ (x(r).who # "done" => r \in AutoRecs)
  BY IdleType
<1> HIDE DEF w, x
<1>5. TypeOK
  <2>1. row \in [Recs -> Rows] /\ cs \in [Recs -> Sections] /\ auto \in [Recs -> Sections]
    BY <1>1, <1>2, <1>3, <1>4, FreeType
  <2>2. \A r \in Recs : cs[r].targets \subseteq cs[r].enabled
    BY <1>2, FreeType
  <2>3. /\ cand \subseteq Recs /\ call \in [Recs -> SUBSET Slskds]
        /\ job \in [Recs -> [Slskds -> {"none"} \cup ActiveJobs \cup EndedJobs]]
    BY <1>2
  <2>4. alerts \in [Recs -> Nat] /\ faults \in 0..MaxFaults
    BY <1>2, ApprovalsAssumption
  <2> QED BY <2>1, <2>2, <2>3, <2>4 DEF TypeOK
<1>6. NoLostUpdate
  BY <1>2, FreeType DEF NoLostUpdate
<1>7. \A r \in Recs : Sound(r)
  BY <1>1, <1>2, <1>3, <1>4, FreeType DEF Sound
<1> QED BY <1>5, <1>6, <1>7 DEF IInv

\* The candidates of the worker are recommendations.
LEMMA RetryListKeeps ==
  ASSUME IInv, RetryList
  PROVE  IInv'
<1>1. cand' \subseteq Recs /\ UNCHANGED <<row, cs, auto, job, call, alerts, faults>>
  BY DEF RetryList
<1> QED BY <1>1 DEF IInv, TypeOK, NoLostUpdate, Sound

\* Every step keeps the invariant.
LEMMA NextIInv == IInv /\ [Next]_vars => IInv'
<1> SUFFICES ASSUME IInv, [Next]_vars PROVE IInv'
  OBVIOUS
<1>1. CASE UNCHANGED vars
  BY <1>1 DEF vars, IInv, TypeOK, NoLostUpdate, Sound
<1>2. CASE RetryList \/ AutoList \/ Crash
  BY <1>2, RetryListKeeps, AutoListKeeps, CrashKeeps
<1>3. CASE \E written \in BOOLEAN : AutoStop(written)
  BY <1>3, AutoStopKeeps
<1>4. ASSUME NEW r \in Recs, ApproveStep(r)
      PROVE  IInv'
  BY <1>4, ApproveAttemptKeeps, ApproveWriteKeeps DEF ApproveStep
<1>5. ASSUME NEW r \in Recs, RetryStep(r)
      PROVE  IInv'
  BY <1>5, RetrySkipKeeps, RetryAttemptKeeps, RetryThrowKeeps, RetryWriteKeeps, AlertKeeps
     DEF RetryStep
<1>6. ASSUME NEW r \in Recs, AutoStep(r)
      PROVE  IInv'
  BY <1>6, AutoBeginKeeps, AutoAttemptKeeps, AutoThrowKeeps, AutoWriteKeeps DEF AutoStep
<1>7. ASSUME NEW r \in Recs,
             \E enabled \in SUBSET Targets, sel \in Targets \cup {NoTarget},
                l \in Lidarrs \cup {NoTarget} : ApproveBegin(r, enabled, sel, l)
      PROVE  IInv'
  BY <1>7, ApproveBeginKeeps
<1>8. ASSUME NEW r \in Recs,
             \/ \E st \in {"rejected", "pending"} : Decide(r, st)
             \/ \E enabled \in SUBSET Targets : RetryBegin(r, enabled)
             \/ SectionFails(r)
      PROVE  IInv'
  BY <1>8, DecideKeeps, RetryBeginKeeps, SectionFailsKeeps
<1>9. ASSUME NEW r \in Recs,
             \/ \E s \in Slskds : SlskdUpdate(r, s)
                                 \/ \E to \in ActiveJobs \cup EndedJobs : JobMove(r, s, to)
             \/ \E t \in Targets, win \in {"due", "late"} : Elapse(r, t, win)
      PROVE  IInv'
  BY <1>9, SlskdUpdateKeeps, JobMoveKeeps, ElapseKeeps
<1> QED BY <1>1, <1>2, <1>3, <1>4, <1>5, <1>6, <1>7, <1>8, <1>9 DEF Next

\* The inductive invariant holds whatever the targets, the user, the worker, the
\* downloads and auto-approval do, and wherever they fail.
THEOREM Invariance == Spec => []IInv
BY InitIInv, NextIInv, PTL DEF Spec

\* The rows, the sections and the jobs keep their types.
THEOREM TypeCorrect == Spec => []TypeOK
<1>1. IInv => TypeOK
  BY DEF IInv
<1> QED BY <1>1, Invariance, PTL

\* withApprovalLock does its work: an approval or a retry never writes over a row that
\* changed since it was read.
THEOREM RowsAreNotLost == Spec => []NoLostUpdate
<1>1. IInv => NoLostUpdate
  BY DEF IInv
<1> QED BY <1>1, Invariance, PTL

\* What is shown as waiting has an action the worker will retry.
THEOREM WaitingIsBacked == Spec => []WaitingIsRetried
<1>1. IInv => WaitingIsRetried
  BY DEF IInv, Sound, RowSound, WaitingIsRetried
<1> QED BY <1>1, Invariance, PTL

\* What is shown as added to Lidarr was added.
THEOREM AddedIsBacked == Spec => []AddedMeansAdded
<1>1. IInv => AddedMeansAdded
  BY DEF IInv, Sound, RowSound, AddedMeansAdded, HasAdded
<1> QED BY <1>1, Invariance, PTL

-----------------------------------------------------------------------------
(* What a row tells of its past. *)

\* what waits has not been announced as failed
Untold(acts) == \A t \in Targets : Waiting(acts[t]) => ~acts[t].told
HasTold(acts) == \E l \in Lidarrs : acts[l].told

\* An alert that was sent or is about to be is remembered in the row.
Alerted(r) ==
  /\ alerts[r] \in {0, 1}
  /\ (alerts[r] = 1 \/ cs[r].who = "alert") => HasTold(row[r].acts)
  /\ cs[r].who = "alert" => alerts[r] = 0

\* What the retry worker has in hand belongs to the row it read: nobody decided
\* against it, what it has not tried yet still waits, nothing told is forgotten, an
\* alert is the first one and leaves its mark, and who was added had the follow-up tried.
InHand(r) ==
  cs[r].who = "retry" =>
    /\ row[r].status \notin {"rejected", "pending"}
    /\ \A t \in cs[r].left : Waiting(row[r].acts[t]) /\ cs[r].acts[t] = row[r].acts[t]
    /\ \A l \in Lidarrs : row[r].acts[l].told => cs[r].acts[l].told
    /\ cs[r].alert => cs[r].changed /\ alerts[r] = 0 /\ HasTold(cs[r].acts)
    /\ \A l \in Lidarrs :
         (/\ Waiting(row[r].acts[l]) /\ cs[r].acts[l].st = "added"
          /\ row[r].acts[l].follow \in cs[r].enabled /\ r \notin Albums)
           => cs[r].acts[row[r].acts[l].follow].st # "none"

\* Neither the row nor what is about to be written to it claims a download that is over.
Downloads(r) ==
  faults = 0 => \A s \in Slskds :
    \/ job[r][s] \in ActiveJobs \/ s \in call[r]
    \/ /\ row[r].acts[s].st \notin ActiveJobs
       /\ cs[r].who \in {"approve", "retry"} => cs[r].acts[s].st \notin ActiveJobs

Hist(r) ==
  /\ Untold(row[r].acts) /\ Untold(cs[r].acts)
  /\ Alerted(r) /\ InHand(r) /\ Downloads(r)

HInv == \A r \in Recs \ AutoRecs : Hist(r)

\* A step that leaves a recommendation alone keeps what its row tells.
LEMMA HistSame ==
  ASSUME NEW q \in Recs, Hist(q), row'[q] = row[q], cs'[q] = cs[q], job'[q] = job[q],
         call'[q] = call[q], alerts'[q] = alerts[q], faults' = 0 => faults = 0
  PROVE  Hist(q)'
<1>1. Untold(row'[q].acts) /\ Untold(cs'[q].acts)
  BY DEF Hist
<1>2. Alerted(q)'
  BY DEF Hist, Alerted
<1>3. InHand(q)'
  BY DEF Hist, InHand
<1>4. Downloads(q)'
  BY DEF Hist, Downloads
<1> QED BY <1>1, <1>2, <1>3, <1>4 DEF Hist

\* Outside the worker's sections only the alert and the downloads remain to be shown.
LEMMA HistUnlessRetry ==
  ASSUME NEW r \in Recs, cs'[r].who # "retry", Untold(row'[r].acts), Untold(cs'[r].acts),
         Alerted(r)', Downloads(r)'
  PROVE  Hist(r)'
BY DEF Hist, InHand

\* Nothing waits in a free section.
LEMMA FreeTold ==
  /\ Free.who = "free" /\ Free.acts = NoActions /\ Untold(NoActions)
  /\ \A s \in Slskds : NoActions[s].st \notin ActiveJobs
BY DEF Free, Idle, NoActions, Act, Untold, Waiting, ActiveJobs, Targets

\* What an attempt leaves behind is not told, is not nothing, and of a slskd target
\* it claims a download only after a success.
LEMMA AttemptTold ==
  ASSUME NEW t \in Targets, NEW res \in Results, NEW follow, NEW prior
  PROVE  /\ ~TargetAction(t, res, follow, prior).told
         /\ TargetAction(t, res, follow, prior).st # "none"
         /\ t \in Slskds /\ res # "ok" => TargetAction(t, res, follow, prior).st \notin ActiveJobs
<1> DEFINE a == TargetAction(t, res, follow, prior)
<1>0. Lidarrs \cap Slskds = {}
  BY ApprovalsAssumption
<1>1. CASE res = "ok"
  BY <1>1 DEF TargetAction, Act
<1>2. CASE res = "temporary" /\ t \in Lidarrs
  <2>1. a = [Act("waiting") EXCEPT
               !.win = IF Waiting(prior) /\ prior.win = "late" THEN "late" ELSE "early",
               !.follow = follow]
    BY <1>2 DEF TargetAction
  <2>2. ~a.told /\ a.st = "waiting"
    BY <2>1 DEF Act
  <2> QED BY <2>2, <1>0, <1>2 DEF ActiveJobs
<1>3. CASE res # "ok" /\ ~(res = "temporary" /\ t \in Lidarrs)
  <2>1. a = Act("failed")
    BY <1>3 DEF TargetAction
  <2> QED BY <2>1, <1>3 DEF Act, ActiveJobs
<1> QED BY <1>1, <1>2, <1>3

\* Queueing ends no job, and after a success the job of its target is under way.
LEMMA QueueJobs ==
  ASSUME IInv, NEW r \in Recs, NEW t \in Targets, NEW res \in Results, Queue(r, t, res)
  PROVE  /\ \A s \in Slskds : job[r][s] \in ActiveJobs => job'[r][s] \in ActiveJobs
         /\ t \in Slskds /\ res = "ok" => job'[r][t] \in ActiveJobs
         /\ \A q \in Recs \ {r} : job'[q] = job[q]
<1>1. job \in [Recs -> [Slskds -> {"none"} \cup ActiveJobs \cup EndedJobs]]
  BY DEF IInv, TypeOK
<1>2. CASE t \in Slskds /\ res = "ok" /\ job[r][t] \notin ActiveJobs
  <2>1. job' = [job EXCEPT ![r] = [job[r] EXCEPT ![t] = "queued"]]
    BY <1>2 DEF Queue
  <2>2. /\ job'[r] = [job[r] EXCEPT ![t] = "queued"]
        /\ \A q \in Recs \ {r} : job'[q] = job[q]
    BY <1>1, <2>1
  <2>3. \A s \in Slskds : job'[r][s] = IF s = t THEN "queued" ELSE job[r][s]
    BY <1>1, <2>2
  <2>4. "queued" \in ActiveJobs
    BY DEF ActiveJobs
  <2> QED BY <1>2, <2>2, <2>3, <2>4
<1>3. CASE ~(t \in Slskds /\ res = "ok" /\ job[r][t] \notin ActiveJobs)
  BY <1>3 DEF Queue
<1> QED BY <1>2, <1>3

\* A slskd target that is attempted has no download that is claimed and over.
LEMMA AttemptJobs ==
  ASSUME IInv, NEW r \in Recs, NEW t \in Slskds, NEW res \in Results, Queue(r, t, res),
         NEW follow, NEW prior
  PROVE  job'[r][t] \in ActiveJobs \/ TargetAction(t, res, follow, prior).st \notin ActiveJobs
<1>1. t \in Targets
  BY DEF Targets
<1>2. CASE res = "ok"
  BY <1>1, <1>2, QueueJobs
<1>3. CASE res # "ok"
  BY <1>1, <1>3, AttemptTold
<1> QED BY <1>2, <1>3

-----------------------------------------------------------------------------
(* Approvals, decisions, downloads and failures. *)

\* An approval begins with nothing in hand.
LEMMA ApproveBeginHist ==
  ASSUME IInv, NEW r \in Recs, Hist(r), NEW enabled \in SUBSET Targets,
         NEW sel \in Targets \cup {NoTarget}, NEW l \in Lidarrs \cup {NoTarget},
         ApproveBegin(r, enabled, sel, l)
  PROVE  Hist(r)'
<1>1. /\ cs'[r].who = "approve" /\ cs'[r].acts = NoActions
  <2>1. cs \in [Recs -> Sections]
    BY DEF IInv, TypeOK
  <2> QED BY <2>1 DEF ApproveBegin, Free, Idle
<1>2. UNCHANGED <<row, job, call, alerts, faults>>
  BY DEF ApproveBegin
<1>3. Alerted(r)'
  BY <1>1, <1>2 DEF Hist, Alerted
<1>4. Downloads(r)'
  BY <1>1, <1>2, FreeTold DEF Hist, Downloads
<1> QED BY <1>1, <1>2, <1>3, <1>4, FreeTold, HistUnlessRetry DEF Hist

\* An attempt of an approval leaves no told action and no download that is over.
LEMMA ApproveAttemptHist ==
  ASSUME IInv, NEW r \in Recs, Hist(r), NEW t \in Targets, NEW res \in Results,
         ApproveAttempt(r, t, res)
  PROVE  Hist(r)'
<1> DEFINE sec == cs[r]
           prior == sec.row.acts[t]
           saved == IF Retained(prior) THEN prior.follow ELSE sec.comb
           a == TargetAction(t, res, saved, prior)
<1>1. sec \in Sections /\ sec.acts \in [Targets -> Actions] /\ cs \in [Recs -> Sections]
  BY DEF IInv, TypeOK, Sections
<1>2. /\ sec.who = "approve" /\ Queue(r, t, res) /\ UNCHANGED <<row, call, alerts, faults>>
  BY DEF ApproveAttempt
<1>3. cs'[r].who = "approve" /\ cs'[r].acts = [sec.acts EXCEPT ![t] = a]
  BY <1>1, <1>2 DEF ApproveAttempt, Sections
<1>4. \A u \in Targets : cs'[r].acts[u] = IF u = t THEN a ELSE sec.acts[u]
  <2> HIDE DEF a
  <2> QED BY <1>1, <1>3
<1>5. ~a.told
  BY AttemptTold
<1>6. t \in Slskds => job'[r][t] \in ActiveJobs \/ a.st \notin ActiveJobs
  BY <1>2, AttemptJobs
<1>7. \A s \in Slskds : job[r][s] \in ActiveJobs => job'[r][s] \in ActiveJobs
  BY <1>2, QueueJobs
<1> HIDE DEF a
<1>8. Untold(cs'[r].acts)
  BY <1>4, <1>5 DEF Hist, Untold
<1>9. Alerted(r)'
  BY <1>2, <1>3 DEF Hist, Alerted
<1>10. Downloads(r)'
  <2> SUFFICES ASSUME faults' = 0, NEW s \in Slskds
               PROVE  \/ job'[r][s] \in ActiveJobs \/ s \in call'[r]
                      \/ /\ row'[r].acts[s].st \notin ActiveJobs
                         /\ cs'[r].acts[s].st \notin ActiveJobs
    BY DEF Downloads
  <2>1. \/ job[r][s] \in ActiveJobs \/ s \in call[r]
        \/ row[r].acts[s].st \notin ActiveJobs /\ sec.acts[s].st \notin ActiveJobs
    BY <1>2 DEF Hist, Downloads
  <2>2. s \in Targets
    BY DEF Targets
  <2> QED BY <1>2, <1>4, <1>6, <1>7, <2>1, <2>2
<1> QED BY <1>2, <1>3, <1>8, <1>9, <1>10, HistUnlessRetry DEF Hist

\* An approval writes what it holds over what it read, and starts to count alerts anew.
LEMMA ApproveWriteHist ==
  ASSUME IInv, NEW r \in Recs \ AutoRecs, Hist(r), ApproveWrite(r)
  PROVE  Hist(r)'
<1> DEFINE sec == cs[r]
           acts == Merge(sec.row.acts, sec.acts)
<1>1. /\ cs \in [Recs -> Sections] /\ row \in [Recs -> Rows] /\ alerts \in [Recs -> Nat]
      /\ sec.row = row[r] \/ sec.who # "approve"
  BY DEF IInv, TypeOK, NoLostUpdate
<1>2. sec.who = "approve" /\ UNCHANGED <<job, call, faults>>
  BY DEF ApproveWrite
<1>3. row'[r].acts = acts /\ cs'[r] = Free /\ alerts'[r] = 0
  BY <1>1 DEF ApproveWrite
<1>4. \A t \in Targets : acts[t] \in {row[r].acts[t], sec.acts[t]}
  BY <1>1, <1>2 DEF Merge
<1> HIDE DEF acts
<1>5. Untold(acts)
  BY <1>4 DEF Hist, Untold
<1>6. Alerted(r)'
  BY <1>3, FreeTold DEF Alerted
<1>7. Downloads(r)'
  <2>1. \A s \in Slskds : s \in Targets
    BY DEF Targets
  <2> QED BY <1>2, <1>3, <1>4, <2>1, FreeTold DEF Hist, Downloads
<1> QED BY <1>3, <1>5, <1>6, <1>7, FreeTold, HistUnlessRetry

\* A decision leaves the actions alone.
LEMMA DecideHist ==
  ASSUME IInv, NEW r \in Recs, Hist(r), NEW st \in {"rejected", "pending"}, Decide(r, st)
  PROVE  Hist(r)'
<1>1. /\ row'[r].acts = row[r].acts /\ cs[r].who = "free"
      /\ UNCHANGED <<cs, job, call, alerts, faults>>
  BY DEF Decide, IInv, TypeOK, Rows
<1>2. Alerted(r)' /\ Downloads(r)'
  BY <1>1 DEF Hist, Alerted, Downloads
<1> QED BY <1>1, <1>2, HistUnlessRetry DEF Hist

\* The window of a waiting action says nothing of the past.
LEMMA ElapseHist ==
  ASSUME IInv, NEW r \in Recs, Hist(r), NEW t \in Targets, NEW win \in {"due", "late"},
         Elapse(r, t, win)
  PROVE  Hist(r)'
<1> DEFINE old == row[r].acts
           new == [old EXCEPT ![t] = [old[t] EXCEPT !.win = win]]
<1>1. row \in [Recs -> Rows] /\ row[r] \in Rows /\ old \in [Targets -> Actions] /\ old[t] \in Actions
  BY DEF IInv, TypeOK, Rows
<1>2. cs[r].who = "free" /\ UNCHANGED <<cs, job, call, alerts, faults>>
  BY DEF Elapse
<1>3. row'[r].acts = new
  BY <1>1 DEF Elapse, Rows
<1>4. \A u \in Targets : new[u].st = old[u].st /\ new[u].told = old[u].told
  BY <1>1 DEF Actions
<1> HIDE DEF new
<1>5. Untold(new) /\ (HasTold(old) => HasTold(new))
  BY <1>4 DEF Hist, Untold, HasTold, Waiting, Targets
<1>6. Alerted(r)' /\ Downloads(r)'
  BY <1>2, <1>3, <1>4, <1>5 DEF Hist, Alerted, Downloads, Targets
<1> QED BY <1>2, <1>3, <1>5, <1>6, HistUnlessRetry DEF Hist

\* The action of a download is what the job says, which may be that it is over.
LEMMA SlskdUpdateHist ==
  ASSUME IInv, NEW r \in Recs, Hist(r), NEW s \in Slskds, SlskdUpdate(r, s)
  PROVE  Hist(r)'
<1> DEFINE a == Act(IF job[r][s] = "completed" THEN "added" ELSE job[r][s])
           old == row[r].acts
           new == [old EXCEPT ![s] = a]
<1>1. row \in [Recs -> Rows] /\ row[r] \in Rows /\ old \in [Targets -> Actions] /\ s \in Targets
  BY DEF IInv, TypeOK, Rows, Targets
<1>2. /\ s \in call[r] /\ cs[r].who = "free" /\ UNCHANGED <<cs, job, alerts, faults>>
      /\ call'[r] = call[r] \ {s}
  BY DEF SlskdUpdate, IInv, TypeOK
<1>3. row'[r].acts = new
  BY <1>1 DEF SlskdUpdate, Rows
<1>4. \A u \in Targets : new[u] = IF u = s THEN a ELSE old[u]
  <2> HIDE DEF a
  <2> QED BY <1>1
<1>5. ~a.told /\ (a.st \in ActiveJobs => job[r][s] \in ActiveJobs)
  BY DEF Act, ActiveJobs
<1> HIDE DEF new, a
<1>6. Untold(new)
  BY <1>4, <1>5 DEF Hist, Untold
<1>7. HasTold(old) => HasTold(new)
  BY <1>4, ApprovalsAssumption DEF HasTold, Targets
<1>8. Alerted(r)'
  BY <1>2, <1>3, <1>7 DEF Hist, Alerted
<1>9. Downloads(r)'
  <2> SUFFICES ASSUME faults' = 0, NEW p \in Slskds
               PROVE  \/ job'[r][p] \in ActiveJobs \/ p \in call'[r]
                      \/ row'[r].acts[p].st \notin ActiveJobs
    BY <1>2 DEF Downloads
  <2>1. job[r][p] \in ActiveJobs \/ p \in call[r] \/ old[p].st \notin ActiveJobs
    BY <1>2 DEF Hist, Downloads
  <2>2. p \in Targets
    BY DEF Targets
  <2> QED BY <1>2, <1>3, <1>4, <1>5, <2>1, <2>2
<1> QED BY <1>2, <1>3, <1>6, <1>8, <1>9, HistUnlessRetry DEF Hist

\* A job that moves on asks for the update of the row.
LEMMA JobMoveHist ==
  ASSUME IInv, NEW r \in Recs, Hist(r), NEW s \in Slskds, NEW to, JobMove(r, s, to)
  PROVE  Hist(r)'
<1>1. /\ UNCHANGED <<row, cs, alerts, faults>> /\ call'[r] = call[r] \cup {s}
      /\ \A p \in Slskds \ {s} : job'[r][p] = job[r][p]
  BY DEF JobMove, IInv, TypeOK
<1>2. Alerted(r)' /\ InHand(r)'
  BY <1>1 DEF Hist, Alerted, InHand
<1>3. Downloads(r)'
  BY <1>1 DEF Hist, Downloads
<1> QED BY <1>1, <1>2, <1>3 DEF Hist

\* A section that fails leaves its row as it was.
LEMMA FailureHist ==
  ASSUME IInv, NEW r \in Recs, Hist(r), cs'[r] = Free, faults' = faults + 1,
         UNCHANGED <<row, job, alerts>>
  PROVE  Hist(r)'
<1>1. faults' # 0
  BY DEF IInv, TypeOK
<1>2. Downloads(r)'
  BY <1>1 DEF Downloads
<1>3. Alerted(r)'
  BY FreeTold DEF Hist, Alerted
<1> QED BY <1>2, <1>3, FreeTold, HistUnlessRetry DEF Hist

-----------------------------------------------------------------------------
(* The retry worker: what it took in hand stays true to the row. *)

\* What the worker may make of the section it holds: it tries some of what is left,
\* and a slskd target it tries has no download that is claimed and over.
LEMMA RetryHist ==
  ASSUME IInv, NEW r \in Recs, Hist(r), cs[r].who = "retry",
         NEW left \in SUBSET cs[r].left, NEW acts \in [Targets -> Actions],
         NEW lid \in BOOLEAN, NEW changed \in BOOLEAN, cs[r].changed => changed,
         cs' = [cs EXCEPT ![r] = [cs[r] EXCEPT !.left = left, !.acts = acts, !.lid = lid,
                                               !.changed = changed]],
         UNCHANGED <<row, call, alerts, faults>>,
         Untold(acts), \A t \in left : acts[t] = cs[r].acts[t],
         \A l \in Lidarrs : cs[r].acts[l].told => acts[l].told,
         \A t \in Targets : cs[r].acts[t].st # "none" => acts[t].st # "none",
         \A l \in Lidarrs : acts[l].st = "added" =>
            \/ cs[r].acts[l].st = "added"
            \/ /\ l \in cs[r].left
               /\ (r \notin Albums /\ cs[r].acts[l].follow \in cs[r].enabled)
                    => acts[cs[r].acts[l].follow].st # "none",
         \A s \in Slskds : job[r][s] \in ActiveJobs => job'[r][s] \in ActiveJobs,
         \A s \in Slskds : \/ job'[r][s] \in ActiveJobs
                           \/ acts[s].st \in ActiveJobs => cs[r].acts[s].st \in ActiveJobs
  PROVE  Hist(r)'
<1> DEFINE x == [cs[r] EXCEPT !.left = left, !.acts = acts, !.lid = lid, !.changed = changed]
<1>1. cs \in [Recs -> Sections] /\ cs[r] \in Sections
  BY DEF IInv, TypeOK
<1>2. /\ x.who = "retry" /\ x.left = left /\ x.acts = acts /\ x.changed = changed
      /\ x.alert = cs[r].alert /\ x.enabled = cs[r].enabled
  BY <1>1 DEF Sections
<1>3. cs'[r] = x
  BY <1>1
<1> HIDE DEF x
<1>4. Alerted(r)'
  BY <1>2, <1>3 DEF Hist, Alerted
<1>5. InHand(r)'
  <2>1. /\ row[r].status \notin {"rejected", "pending"}
        /\ \A t \in left : Waiting(row[r].acts[t]) /\ acts[t] = row[r].acts[t]
        /\ \A l \in Lidarrs : row[r].acts[l].told => acts[l].told
    BY DEF Hist, InHand
  <2>2. cs[r].alert => changed /\ alerts[r] = 0 /\ HasTold(acts)
    BY DEF Hist, InHand, HasTold
  <2>3. ASSUME NEW l \in Lidarrs, Waiting(row[r].acts[l]), acts[l].st = "added",
               row[r].acts[l].follow \in cs[r].enabled, r \notin Albums
        PROVE  acts[row[r].acts[l].follow].st # "none"
    <3>1. row[r].acts[l].follow \in Targets
      BY <1>1, <2>3 DEF Sections
    <3>2. CASE cs[r].acts[l].st = "added"
      BY <2>3, <3>1, <3>2 DEF Hist, InHand
    <3>3. CASE cs[r].acts[l].st # "added"
      <4>1. l \in cs[r].left
        BY <2>3, <3>3
      <4>2. cs[r].acts[l] = row[r].acts[l]
        BY <4>1 DEF Hist, InHand
      <4> QED BY <2>3, <3>3, <4>2
    <3> QED BY <3>2, <3>3
  <2> QED BY <1>2, <1>3, <2>1, <2>2, <2>3 DEF InHand
<1>6. Downloads(r)'
  BY <1>2, <1>3 DEF Hist, Downloads
<1> QED BY <1>2, <1>3, <1>4, <1>5, <1>6 DEF Hist

\* The worker begins with the row as it is: what is late is told, and told once.
LEMMA RetryBeginHist ==
  ASSUME IInv, NEW r \in Recs, Hist(r), NEW enabled \in SUBSET Targets, RetryBegin(r, enabled)
  PROVE  Hist(r)'
<1> DEFINE old == row[r].acts
           late == {t \in Targets : Waiting(old[t]) /\ old[t].win = "late"}
           acts == [t \in Targets |-> IF t \in late
                      THEN [old[t] EXCEPT !.st = "failed", !.told = TRUE] ELSE old[t]]
           left == {t \in Targets : Waiting(old[t]) /\ old[t].win = "due"}
           alert == late # {} /\ \A t \in Targets : ~old[t].told
           x == [Free EXCEPT
                  !.who = "retry", !.row = row[r], !.lid = row[r].lid, !.enabled = enabled,
                  !.acts = acts, !.left = left, !.changed = late # {}, !.alert = alert]
<1>1. /\ cs' = IF row[r].status \in {"rejected", "pending"} THEN cs ELSE [cs EXCEPT ![r] = x]
      /\ UNCHANGED <<row, job, call, alerts, faults>>
  BY DEF RetryBegin
<1>2. CASE row[r].status \in {"rejected", "pending"}
  BY <1>1, <1>2, HistSame
<1>3. CASE row[r].status \notin {"rejected", "pending"}
  <2>1. cs \in [Recs -> Sections] /\ old \in [Targets -> Actions] /\ NoSlskdWaits(old)
    BY DEF IInv, TypeOK, Rows, Sound, RowSound
  <2>2. cs'[r] = x
    BY <1>1, <1>3, <2>1
  <2>3. /\ x.who = "retry" /\ x.acts = acts /\ x.left = left /\ x.enabled = enabled
        /\ x.changed = (late # {}) /\ x.alert = alert
    <3> HIDE DEF acts, left, late, alert
    <3> QED BY DEF Free, Idle
  <2>4. \A t \in Targets \ late : acts[t] = old[t]
    OBVIOUS
  <2>5. \A t \in late : acts[t].st = "failed" /\ acts[t].told
    BY <2>1 DEF Actions
  <2>6. late \subseteq Lidarrs /\ left \cap late = {} /\ left \subseteq Targets
    BY <2>1 DEF NoSlskdWaits, Targets, Waiting
  <2>7. \A t \in late \cup left : Waiting(old[t])
    OBVIOUS
  <2>8. alert => late # {} /\ \A t \in Targets : ~old[t].told
    OBVIOUS
  <2>9. cs[r].who = "free" /\ Untold(old) /\ Alerted(r)
    BY DEF Hist, RetryBegin
  <2> HIDE DEF acts, left, late, alert, x
  <2>10. Untold(acts)
    BY <2>4, <2>5, <2>9 DEF Untold, Waiting
  <2>11. Alerted(r)'
    BY <1>1, <2>2, <2>3, <2>9 DEF Alerted
  <2>12. InHand(r)'
    <3>1. \A t \in left : Waiting(old[t]) /\ acts[t] = old[t]
      BY <2>4, <2>6, <2>7
    <3>2. \A l \in Lidarrs : old[l].told => acts[l].told
      BY <2>4, <2>5 DEF Targets
    <3>3. alert => late # {} /\ alerts[r] = 0 /\ HasTold(acts)
      BY <2>5, <2>6, <2>8, <2>9 DEF Alerted, HasTold, Targets
    <3>4. \A l \in Lidarrs : Waiting(old[l]) => acts[l].st # "added"
      BY <2>4, <2>5 DEF Targets, Waiting
    <3> QED BY <1>1, <1>3, <2>2, <2>3, <3>1, <3>2, <3>3, <3>4 DEF InHand
  <2>13. Downloads(r)'
    <3>1. \A s \in Slskds : acts[s] = old[s]
      BY <2>4, <2>6, ApprovalsAssumption DEF Targets
    <3> QED BY <1>1, <2>2, <2>3, <3>1 DEF Hist, Downloads
  <2> QED BY <1>1, <2>2, <2>3, <2>9, <2>10, <2>11, <2>12, <2>13 DEF Hist
<1> QED BY <1>2, <1>3

\* What is still to be tried waits, so it was neither told nor added.
LEMMA LeftWaits ==
  ASSUME IInv, NEW r \in Recs, Hist(r), cs[r].who = "retry", NEW t \in cs[r].left
  PROVE  /\ t \in Lidarrs /\ cs[r].acts[t].st = "waiting" /\ ~cs[r].acts[t].told
         /\ t \in Targets
<1>1. t \in Targets /\ Waiting(row[r].acts[t]) /\ cs[r].acts[t] = row[r].acts[t]
  BY DEF Hist, InHand, IInv, TypeOK, Sections
<1>2. NoSlskdWaits(row[r].acts) /\ Untold(row[r].acts)
  BY DEF IInv, Sound, RowSound, Hist
<1> QED BY <1>1, <1>2 DEF NoSlskdWaits, Untold, Waiting, Targets

\* A skipped target fails or is left waiting.
LEMMA RetrySkipHist ==
  ASSUME IInv, NEW r \in Recs, Hist(r), NEW t \in Targets, NEW blocked \in BOOLEAN,
         RetrySkip(r, t, blocked)
  PROVE  Hist(r)'
<1> DEFINE sec == cs[r]
           a == IF blocked THEN Act("failed") ELSE sec.acts[t]
           acts == [sec.acts EXCEPT ![t] = a]
           left == sec.left \ {t}
           changed == sec.changed \/ blocked
<1>1. sec \in Sections /\ sec.acts \in [Targets -> Actions] /\ sec.lid \in BOOLEAN
  BY DEF IInv, TypeOK, Sections
<1>2. sec.who = "retry" /\ t \in sec.left /\ UNCHANGED <<row, job, call, alerts, faults>>
  BY DEF RetrySkip
<1>3. /\ cs' = [cs EXCEPT ![r] = [sec EXCEPT !.left = left, !.acts = acts, !.changed = changed]]
      /\ [sec EXCEPT !.left = left, !.acts = acts, !.changed = changed]
           = [sec EXCEPT !.left = left, !.acts = acts, !.lid = sec.lid, !.changed = changed]
  BY <1>1 DEF RetrySkip, Sections
<1>4. t \in Lidarrs /\ sec.acts[t].st = "waiting" /\ ~sec.acts[t].told
  BY <1>2, LeftWaits
<1>5. a \in Actions /\ a.st \in {"waiting", "failed"} /\ ~a.told
  BY <1>1, <1>4, ActType DEF Act, ActionStates
<1>6. left \in SUBSET sec.left /\ changed \in BOOLEAN /\ (sec.changed => changed)
  BY <1>1 DEF Sections
<1> HIDE DEF a, left, changed
<1>7. acts \in [Targets -> Actions] /\ \A u \in Targets : acts[u] = IF u = t THEN a ELSE sec.acts[u]
  BY <1>1, <1>5
<1>8. t \notin left
  BY DEF left
<1> HIDE DEF acts
<1>9. Untold(acts)
  BY <1>5, <1>7 DEF Hist, Untold
<1>10. \A u \in left : acts[u] = sec.acts[u]
  BY <1>1, <1>6, <1>7, <1>8 DEF Sections
<1>11. /\ \A l \in Lidarrs : sec.acts[l].told => acts[l].told
       /\ \A u \in Targets : sec.acts[u].st # "none" => acts[u].st # "none"
       /\ \A l \in Lidarrs : acts[l].st = "added" => sec.acts[l].st = "added"
       /\ \A s \in Slskds : acts[s] = sec.acts[s]
  BY <1>4, <1>5, <1>7, ApprovalsAssumption DEF Targets
<1>12. cs' = [cs EXCEPT ![r] = [sec EXCEPT !.left = left, !.acts = acts, !.lid = sec.lid,
                                           !.changed = changed]]
  BY <1>3
<1> QED BY <1>1, <1>2, <1>6, <1>7, <1>9, <1>10, <1>11, <1>12, RetryHist

\* A retry that gets the artist in tries the follow-up too, unless it was started.
LEMMA RetryAttemptHist ==
  ASSUME IInv, NEW r \in Recs, Hist(r), NEW t \in Targets, NEW res \in Results,
         NEW fres \in Results, RetryAttempt(r, t, res, fres)
  PROVE  Hist(r)'
<1> DEFINE sec == cs[r]
           added == res = "ok"
           f == Owed(r, t)
           after == TargetAction(t, res, sec.acts[t].follow, sec.acts[t])
           fafter == TargetAction(f, fres, NoTarget, Act("none"))
           one == [sec.acts EXCEPT ![t] = after]
           both == added /\ f # NoTarget
           acts == IF both THEN [one EXCEPT ![f] = fafter] ELSE one
           lid == sec.lid \/ (added /\ r \notin Albums)
           left == sec.left \ {t}
<1>1. sec \in Sections /\ sec.acts \in [Targets -> Actions] /\ sec.acts[t] \in Actions
  BY DEF IInv, TypeOK, Sections
<1>2. /\ sec.who = "retry" /\ t \in sec.left /\ UNCHANGED <<row, call, alerts, faults>>
      /\ both => Queue(r, f, fres)
      /\ ~both => UNCHANGED job
  BY DEF RetryAttempt
<1>3. cs' = [cs EXCEPT ![r] = [sec EXCEPT !.left = left, !.acts = acts, !.lid = lid,
                                          !.changed = TRUE]]
  BY <1>1 DEF RetryAttempt, Sections
<1>4. t \in Lidarrs /\ sec.acts[t].st = "waiting" /\ ~sec.acts[t].told
  BY <1>2, LeftWaits
<1>5. f \in Slskds \cup {NoTarget} /\ sec.acts[t].follow \in Slskds \cup {NoTarget}
  BY OwedType
<1>6. /\ after \in Actions /\ ~after.told /\ after.st # "none"
      /\ t \in Lidarrs => ((after.st = "added") <=> (res = "ok"))
  BY <1>1, <1>5, AttemptTold, TargetActionType
<1>7. f # NoTarget => f \in Slskds /\ f \in Targets /\ f # t /\ f \notin sec.left
  <2>1. f # NoTarget => f \in Slskds /\ f \in Targets /\ f \notin Lidarrs
    BY <1>5, ApprovalsAssumption DEF Targets
  <2>2. \A u \in sec.left : u \in Lidarrs
    BY <1>2, LeftWaits
  <2> HIDE DEF f
  <2> QED BY <1>4, <2>1, <2>2
<1>8. f # NoTarget => fafter \in Actions /\ ~fafter.told /\ fafter.st # "none"
  <2>1. Act("none") \in Actions /\ NoTarget \in Slskds \cup {NoTarget}
    BY ActType DEF ActionStates
  <2> HIDE DEF f
  <2> QED BY <1>7, <2>1, AttemptTold, TargetActionType
<1>9. both => job'[r][f] \in ActiveJobs \/ fafter.st \notin ActiveJobs
  <2> HIDE DEF f
  <2> QED BY <1>2, <1>7, AttemptJobs
<1>10. /\ \A s \in Slskds : job[r][s] \in ActiveJobs => job'[r][s] \in ActiveJobs
  <2>1. CASE both
    <3> HIDE DEF f
    <3> QED BY <1>2, <1>7, <2>1, QueueJobs
  <2>2. CASE ~both
    BY <1>2, <2>2
  <2> QED BY <2>1, <2>2
<1>11. (added /\ r \notin Albums /\ sec.acts[t].follow \in sec.enabled) =>
         /\ sec.acts[t].follow \in Slskds
         /\ \/ both /\ f = sec.acts[t].follow
            \/ sec.acts[sec.acts[t].follow].st \in {"added", "queued"}
  <2>1. NoTarget \notin sec.enabled
    BY <1>1, ApprovalsAssumption DEF Sections, Targets
  <2> QED BY <1>5, <2>1 DEF Owed
<1> HIDE DEF f, after, fafter
<1>12. /\ acts \in [Targets -> Actions]
       /\ \A u \in Targets : acts[u] = IF both /\ u = f THEN fafter
                                       ELSE IF u = t THEN after ELSE sec.acts[u]
  <2>1. one \in [Targets -> Actions] /\ \A u \in Targets : one[u] = IF u = t THEN after ELSE sec.acts[u]
    BY <1>1, <1>6
  <2> HIDE DEF one
  <2>2. CASE both
    BY <1>7, <1>8, <2>1, <2>2
  <2>3. CASE ~both
    BY <2>1, <2>3
  <2> QED BY <2>2, <2>3
<1> HIDE DEF acts
<1>13. /\ left \in SUBSET sec.left /\ lid \in BOOLEAN /\ TRUE \in BOOLEAN
       /\ t \notin left /\ left \subseteq Targets
  BY <1>1 DEF Sections
<1> HIDE DEF left, lid
<1>14. Untold(acts)
  BY <1>6, <1>8, <1>12 DEF Hist, Untold
<1>15. \A u \in left : acts[u] = sec.acts[u]
  BY <1>7, <1>12, <1>13
<1>16. \A l \in Lidarrs : sec.acts[l].told => acts[l].told
  BY <1>4, <1>7, <1>12, ApprovalsAssumption DEF Targets
<1>17. \A u \in Targets : sec.acts[u].st # "none" => acts[u].st # "none"
  BY <1>6, <1>8, <1>12
<1>18. ASSUME NEW l \in Lidarrs, acts[l].st = "added", sec.acts[l].st # "added"
       PROVE  /\ l \in sec.left
              /\ (r \notin Albums /\ sec.acts[l].follow \in sec.enabled)
                    => acts[sec.acts[l].follow].st # "none"
  <2>1. l \in Targets /\ l \notin Slskds
    BY ApprovalsAssumption DEF Targets
  <2>2. l = t /\ added
    BY <1>4, <1>6, <1>7, <1>12, <1>18, <2>1
  <2>3. ASSUME r \notin Albums, sec.acts[l].follow \in sec.enabled
        PROVE  acts[sec.acts[l].follow].st # "none"
    <3>1. sec.acts[t].follow \in Targets
      BY <1>11, <2>2, <2>3 DEF Targets
    <3> QED BY <1>8, <1>11, <1>12, <1>17, <2>2, <2>3, <3>1
  <2> QED BY <1>2, <2>2, <2>3
<1>19. \A s \in Slskds : \/ job'[r][s] \in ActiveJobs
                         \/ acts[s].st \in ActiveJobs => sec.acts[s].st \in ActiveJobs
  BY <1>4, <1>9, <1>12, ApprovalsAssumption DEF Targets
<1> QED BY <1>1, <1>2, <1>3, <1>10, <1>12, <1>13, <1>14, <1>15, <1>16, <1>17, <1>18, <1>19, RetryHist

\* A retry that throws may have tried the follow-up, and that is all.
LEMMA RetryThrowHist ==
  ASSUME IInv, NEW r \in Recs, Hist(r), NEW f \in Slskds \cup {NoTarget}, NEW fres \in Results,
         RetryThrow(r, f, fres)
  PROVE  Hist(r)'
<1> DEFINE sec == cs[r]
           fafter == TargetAction(f, fres, NoTarget, Act("none"))
           acts == IF f # NoTarget THEN [sec.acts EXCEPT ![f] = fafter] ELSE sec.acts
<1>1. /\ sec \in Sections /\ sec.acts \in [Targets -> Actions]
      /\ sec.lid \in BOOLEAN /\ sec.changed \in BOOLEAN
  BY DEF IInv, TypeOK, Sections
<1>2. /\ sec.who = "retry" /\ UNCHANGED <<row, call, alerts, faults>>
      /\ f # NoTarget => Queue(r, f, fres)
      /\ f = NoTarget => UNCHANGED job
  BY DEF RetryThrow
<1>3. /\ cs' = [cs EXCEPT ![r] = [sec EXCEPT !.left = {}, !.acts = acts]]
      /\ [sec EXCEPT !.left = {}, !.acts = acts]
           = [sec EXCEPT !.left = {}, !.acts = acts, !.lid = sec.lid, !.changed = sec.changed]
  BY <1>1 DEF RetryThrow, Sections
<1>4. f # NoTarget => f \in Slskds /\ f \in Targets /\ f \notin Lidarrs
  BY ApprovalsAssumption DEF Targets
<1>5. f # NoTarget => /\ fafter \in Actions /\ ~fafter.told /\ fafter.st # "none"
                      /\ job'[r][f] \in ActiveJobs \/ fafter.st \notin ActiveJobs
  <2>1. Act("none") \in Actions /\ NoTarget \in Slskds \cup {NoTarget}
    BY ActType DEF ActionStates
  <2> QED BY <1>2, <1>4, <2>1, AttemptTold, AttemptJobs, TargetActionType
<1>6. \A s \in Slskds : job[r][s] \in ActiveJobs => job'[r][s] \in ActiveJobs
  <2>1. CASE f # NoTarget
    BY <1>2, <1>4, <2>1, QueueJobs
  <2>2. CASE f = NoTarget
    BY <1>2, <2>2
  <2> QED BY <2>1, <2>2
<1> HIDE DEF fafter
<1>7. /\ acts \in [Targets -> Actions]
      /\ \A u \in Targets : acts[u] = IF f # NoTarget /\ u = f THEN fafter ELSE sec.acts[u]
  BY <1>1, <1>4, <1>5
<1> HIDE DEF acts
<1>8. Untold(acts)
  BY <1>5, <1>7 DEF Hist, Untold
<1>9. /\ \A l \in Lidarrs : acts[l] = sec.acts[l]
      /\ \A u \in Targets : sec.acts[u].st # "none" => acts[u].st # "none"
  BY <1>4, <1>5, <1>7 DEF Targets
<1>10. \A s \in Slskds : \/ job'[r][s] \in ActiveJobs
                         \/ acts[s].st \in ActiveJobs => sec.acts[s].st \in ActiveJobs
  BY <1>5, <1>7 DEF Targets
<1>11. cs' = [cs EXCEPT ![r] = [sec EXCEPT !.left = {}, !.acts = acts, !.lid = sec.lid,
                                           !.changed = sec.changed]]
  BY <1>3
<1>12. /\ {} \in SUBSET sec.left /\ \A u \in {} : acts[u] = sec.acts[u]
       /\ \A l \in Lidarrs : sec.acts[l].told => acts[l].told
       /\ \A l \in Lidarrs : acts[l].st = "added" => sec.acts[l].st = "added"
  BY <1>9
<1> QED BY <1>1, <1>2, <1>6, <1>7, <1>8, <1>9, <1>10, <1>11, <1>12, RetryHist

\* The worker writes what it has in hand, or nothing when nothing changed.
LEMMA RetryWriteHist ==
  ASSUME IInv, NEW r \in Recs, Hist(r), RetryWrite(r)
  PROVE  Hist(r)'
<1> DEFINE sec == cs[r]
<1>1. cs \in [Recs -> Sections] /\ row \in [Recs -> Rows] /\ sec.changed \in BOOLEAN
  BY DEF IInv, TypeOK, Sections
<1>2. sec.who = "retry" /\ UNCHANGED <<job, call, alerts, faults>>
  BY DEF RetryWrite
<1>3. row'[r].acts = IF sec.changed THEN sec.acts ELSE row[r].acts
  BY <1>1 DEF RetryWrite
<1>4. cs'[r].who = (IF sec.alert THEN "alert" ELSE "free") /\ cs'[r].acts = NoActions
  BY <1>1, FreeTold DEF RetryWrite, Free, Idle
<1>5. /\ HasTold(row[r].acts) => HasTold(row'[r].acts)
      /\ sec.alert => HasTold(row'[r].acts) /\ alerts[r] = 0
  BY <1>2, <1>3 DEF Hist, InHand, HasTold
<1>6. Alerted(r)'
  BY <1>2, <1>4, <1>5 DEF Hist, Alerted
<1>7. Downloads(r)'
  BY <1>2, <1>3, <1>4 DEF Hist, Downloads
<1>8. Untold(row'[r].acts)
  BY <1>3 DEF Hist
<1> QED BY <1>4, <1>6, <1>7, <1>8, FreeTold, HistUnlessRetry

\* An alert is the first since the last approval.
LEMMA AlertHist ==
  ASSUME IInv, NEW r \in Recs, Hist(r), NEW sent \in BOOLEAN, Alert(r, sent)
  PROVE  Hist(r)'
<1>1. cs[r].who = "alert" /\ cs'[r] = Free /\ UNCHANGED <<row, job, call, faults>>
  BY DEF Alert, IInv, TypeOK
<1>2. alerts[r] = 0 /\ HasTold(row[r].acts) /\ alerts'[r] \in {0, 1}
  BY <1>1 DEF Alert, Hist, Alerted, IInv, TypeOK
<1>3. Alerted(r)' /\ Downloads(r)'
  BY <1>1, <1>2, FreeTold DEF Hist, Alerted, Downloads
<1> QED BY <1>1, <1>3, FreeTold, HistUnlessRetry DEF Hist

-----------------------------------------------------------------------------
(* Every step, and what follows from it. *)

\* the steps that work on one recommendation
Step(r) ==
  \/ \E enabled \in SUBSET Targets, sel \in Targets \cup {NoTarget},
        l \in Lidarrs \cup {NoTarget} : ApproveBegin(r, enabled, sel, l)
  \/ \E st \in {"rejected", "pending"} : Decide(r, st)
  \/ \E enabled \in SUBSET Targets : RetryBegin(r, enabled)
  \/ ApproveStep(r) \/ RetryStep(r) \/ AutoStep(r) \/ SectionFails(r)
  \/ \E s \in Slskds : SlskdUpdate(r, s) \/ \E to \in ActiveJobs \cup EndedJobs : JobMove(r, s, to)
  \/ \E t \in Targets, win \in {"due", "late"} : Elapse(r, t, win)

\* The other steps change no row, and no section but by a crash.
LEMMA NextShape ==
  ASSUME Next
  PROVE  \/ UNCHANGED <<row, cs, job, call, alerts, faults>>
         \/ Crash
         \/ \E r \in Recs : Step(r)
BY DEF Next, RetryList, AutoList, AutoStop, Step

\* A step of one recommendation touches nothing of another.
LEMMA StepShape ==
  ASSUME IInv, NEW r \in Recs, NEW q \in Recs \ {r}, Step(r)
  PROVE  /\ row'[q] = row[q] /\ cs'[q] = cs[q] /\ job'[q] = job[q] /\ call'[q] = call[q]
         /\ alerts'[q] = alerts[q] /\ (faults' = 0 => faults = 0)
<1>1. TypeOK
  BY DEF IInv
<1>2. \A t, res : Queue(r, t, res) => job'[q] = job[q]
  BY <1>1 DEF Queue, TypeOK
<1>3. ASSUME NEW enabled \in SUBSET Targets, NEW sel, NEW l, ApproveBegin(r, enabled, sel, l)
      PROVE  cs'[q] = cs[q] /\ UNCHANGED <<row, job, call, alerts, faults>>
  BY <1>1, <1>3 DEF ApproveBegin, TypeOK
<1>4. CASE ApproveStep(r)
  BY <1>1, <1>2, <1>4 DEF ApproveStep, ApproveAttempt, ApproveWrite, TypeOK
<1>5. ASSUME NEW enabled, RetryBegin(r, enabled)
      PROVE  cs'[q] = cs[q] /\ UNCHANGED <<row, job, call, alerts, faults>>
  BY <1>1, <1>5 DEF RetryBegin, TypeOK
<1>6. ASSUME NEW t, NEW blocked, RetrySkip(r, t, blocked)
      PROVE  cs'[q] = cs[q] /\ UNCHANGED <<row, job, call, alerts, faults>>
  BY <1>1, <1>6 DEF RetrySkip, TypeOK
<1>7. ASSUME NEW t, NEW res, NEW fres, RetryAttempt(r, t, res, fres)
      PROVE  cs'[q] = cs[q] /\ job'[q] = job[q] /\ UNCHANGED <<row, call, alerts, faults>>
  BY <1>1, <1>2, <1>7 DEF RetryAttempt, TypeOK
<1>8. ASSUME NEW f, NEW fres, RetryThrow(r, f, fres)
      PROVE  cs'[q] = cs[q] /\ job'[q] = job[q] /\ UNCHANGED <<row, call, alerts, faults>>
  BY <1>1, <1>2, <1>8 DEF RetryThrow, TypeOK
<1>9. ASSUME RetryWrite(r) \/ \E sent \in BOOLEAN : Alert(r, sent)
      PROVE  /\ cs'[q] = cs[q] /\ row'[q] = row[q] /\ alerts'[q] = alerts[q]
             /\ UNCHANGED <<job, call, faults>>
  BY <1>1, <1>9 DEF RetryWrite, Alert, TypeOK
<1>10. CASE RetryStep(r)
  BY <1>6, <1>7, <1>8, <1>9, <1>10 DEF RetryStep
<1>11. ASSUME NEW t, NEW res, AutoAttempt(r, t, res)
       PROVE  job'[q] = job[q] /\ UNCHANGED <<row, cs, call, alerts, faults>>
  BY <1>2, <1>11 DEF AutoAttempt
<1>12. ASSUME \/ \E enabled \in SUBSET Targets, allowed \in BOOLEAN : AutoBegin(r, enabled, allowed)
              \/ \E t \in Targets : AutoThrow(r, t)
              \/ AutoWrite(r)
       PROVE  row'[q] = row[q] /\ UNCHANGED <<cs, job, call, alerts, faults>>
  BY <1>1, <1>12 DEF AutoBegin, AutoThrow, AutoWrite, TypeOK
<1>13. CASE AutoStep(r)
  BY <1>11, <1>12, <1>13 DEF AutoStep
<1>14. CASE SectionFails(r)
  BY <1>1, <1>14 DEF SectionFails, TypeOK
<1>15. ASSUME \/ \E st \in {"rejected", "pending"} : Decide(r, st)
              \/ \E s \in Slskds : \/ SlskdUpdate(r, s)
                                   \/ \E to \in ActiveJobs \cup EndedJobs : JobMove(r, s, to)
              \/ \E t \in Targets, win \in {"due", "late"} : Elapse(r, t, win)
       PROVE  /\ row'[q] = row[q] /\ job'[q] = job[q] /\ call'[q] = call[q]
              /\ UNCHANGED <<cs, alerts, faults>>
  BY <1>1, <1>15 DEF Decide, SlskdUpdate, JobMove, Elapse, TypeOK
<1> QED BY <1>3, <1>4, <1>5, <1>10, <1>13, <1>14, <1>15 DEF Step

\* Auto-approval works on the recommendations of its batches only.
LEMMA AutoStepRecs ==
  ASSUME IInv, NEW r \in Recs, AutoStep(r)
  PROVE  r \in AutoRecs
<1>1. auto[r].who # "done"
  BY DEF AutoStep, AutoBegin, AutoAttempt, AutoThrow, AutoWrite
<1> QED BY <1>1 DEF IInv, Sound

\* A step keeps what the row of its recommendation tells.
LEMMA StepHist ==
  ASSUME IInv, NEW r \in Recs \ AutoRecs, Hist(r), Step(r)
  PROVE  Hist(r)'
<1>1. CASE ApproveStep(r)
  BY <1>1, ApproveAttemptHist, ApproveWriteHist DEF ApproveStep
<1>2. CASE RetryStep(r)
  BY <1>2, RetrySkipHist, RetryAttemptHist, RetryThrowHist, RetryWriteHist, AlertHist DEF RetryStep
<1>3. CASE SectionFails(r)
  <2>1. cs'[r] = Free /\ faults' = faults + 1 /\ UNCHANGED <<row, job, alerts>>
    BY <1>3 DEF SectionFails, IInv, TypeOK
  <2> QED BY <2>1, FailureHist
<1>4. ~AutoStep(r)
  BY AutoStepRecs
<1> QED BY <1>1, <1>2, <1>3, <1>4, ApproveBeginHist, DecideHist, RetryBeginHist, SlskdUpdateHist,
           JobMoveHist, ElapseHist DEF Step

\* In the beginning no row has a past.
LEMMA InitHInv == Init => HInv
<1> SUFFICES ASSUME Init, NEW r \in Recs \ AutoRecs PROVE Hist(r)
  BY DEF HInv
<1>1. /\ row[r].acts = NoActions /\ cs[r] = Free /\ alerts[r] = 0
  BY DEF Init
<1> QED BY <1>1, FreeTold DEF Hist, Alerted, InHand, Downloads

\* Every step keeps what the rows tell.
LEMMA NextHInv == IInv /\ HInv /\ [Next]_vars => HInv'
<1> SUFFICES ASSUME IInv, HInv, [Next]_vars, NEW q \in Recs \ AutoRecs PROVE Hist(q)'
  BY DEF HInv
<1>1. Hist(q)
  BY DEF HInv
<1>2. CASE UNCHANGED <<row, cs, job, call, alerts, faults>>
  BY <1>1, <1>2, HistSame
<1>3. CASE Crash
  <2>1. cs'[q] = Free /\ faults' = faults + 1 /\ UNCHANGED <<row, job, alerts>>
    BY <1>3 DEF Crash
  <2> QED BY <1>1, <2>1, FailureHist
<1>4. ASSUME NEW r \in Recs, Step(r)
      PROVE  Hist(q)'
  <2>1. CASE r = q
    BY <1>1, <1>4, <2>1, StepHist
  <2>2. CASE r # q
    BY <1>1, <1>4, <2>2, StepShape, HistSame
  <2> QED BY <2>1, <2>2
<1>5. CASE UNCHANGED vars
  BY <1>2, <1>5 DEF vars
<1>6. CASE Next
  BY <1>2, <1>3, <1>4, <1>6, NextShape
<1> QED BY <1>5, <1>6

\* The rows outside auto-approval tell of alerts, retries and downloads what happened.
THEOREM HistoryInvariance == Spec => []HInv
BY Invariance, InitHInv, NextHInv, PTL DEF Spec

\* However often the worker runs or fails, an approval is announced as failed once at the most.
THEOREM AlertedOnce == Spec => []OneAlertPerApproval
<1>1. HInv => OneAlertPerApproval
  BY DEF HInv, Hist, Alerted, OneAlertPerApproval
<1> QED BY <1>1, HistoryInvariance, PTL

\* Without failures an action that claims a download has one, but for the update that
\* waits for the lock.
THEOREM DownloadsFollowed == Spec => []SlskdFollowed
<1>1. HInv => SlskdFollowed
  BY DEF HInv, Hist, Downloads, SlskdFollowed
<1> QED BY <1>1, HistoryInvariance, PTL

\* A row outside auto-approval is written by an approval, by a retry that brings what
\* it has in hand, by a decision, by an update after a download, or to move a window.
LEMMA RowWriters ==
  ASSUME IInv, Next, NEW r \in Recs \ AutoRecs, row'[r] # row[r]
  PROVE  \/ cs[r].who = "approve"
         \/ cs[r].who = "retry" /\ row'[r].acts = cs[r].acts
         \/ /\ cs[r].who = "free"
            /\ \/ row'[r].status \in {"rejected", "pending"}
               \/ row'[r].status = row[r].status
               \/ \E s \in Slskds : s \in call[r] \ call'[r] /\ job[r][s] = "failed"
<1>1. TypeOK
  BY DEF IInv
<1>2. Step(r)
  <2>1. ~UNCHANGED row
    OBVIOUS
  <2>2. ~Crash
    BY <2>1 DEF Crash
  <2>3. PICK q \in Recs : Step(q)
    BY <2>1, <2>2, NextShape
  <2>4. q = r
    BY <2>3, StepShape
  <2> QED BY <2>3, <2>4
<1>3. ~AutoStep(r)
  BY AutoStepRecs
<1>4. CASE ApproveStep(r)
  BY <1>4 DEF ApproveStep, ApproveAttempt, ApproveWrite
<1>5. CASE RetryStep(r)
  <2>1. RetryWrite(r)
    BY <1>5 DEF RetryStep, RetrySkip, RetryAttempt, RetryThrow, Alert
  <2> QED BY <1>1, <2>1 DEF RetryWrite, TypeOK
<1>6. ASSUME NEW st \in {"rejected", "pending"}, Decide(r, st)
      PROVE  cs[r].who = "free" /\ row'[r].status = st
  BY <1>1, <1>6 DEF Decide, TypeOK, Rows
<1>7. ASSUME NEW s \in Slskds, SlskdUpdate(r, s)
      PROVE  /\ cs[r].who = "free"
             /\ row'[r].status = row[r].status \/ (s \in call[r] \ call'[r] /\ job[r][s] = "failed")
  BY <1>1, <1>7 DEF SlskdUpdate, TypeOK, Rows
<1>8. ASSUME NEW t \in Targets, NEW win, Elapse(r, t, win)
      PROVE  cs[r].who = "free" /\ row'[r].status = row[r].status
  BY <1>1, <1>8 DEF Elapse, TypeOK, Rows
<1>9. ~\E enabled \in SUBSET Targets, sel \in Targets \cup {NoTarget},
          l \in Lidarrs \cup {NoTarget} : ApproveBegin(r, enabled, sel, l)
  BY DEF ApproveBegin
<1>10. /\ ~\E enabled \in SUBSET Targets : RetryBegin(r, enabled)
       /\ ~SectionFails(r)
       /\ ~\E s \in Slskds, to \in ActiveJobs \cup EndedJobs : JobMove(r, s, to)
  BY DEF RetryBegin, SectionFails, JobMove
<1> QED BY <1>2, <1>3, <1>4, <1>5, <1>6, <1>7, <1>8, <1>9, <1>10 DEF Step

\* Only an approval of the user, or a download of an earlier one that fails, brings back
\* what was rejected or restored: the worker, which read the row before, does not.
THEOREM RejectionsStand == Spec => DecisionsStand
<1> DEFINE Stands == \A r \in Recs \ AutoRecs :
       (row[r].status \in {"rejected", "pending"} /\ row'[r].status # row[r].status) =>
         \/ row'[r].status \in {"rejected", "pending"}
         \/ cs[r].who = "approve"
         \/ \E s \in Slskds : s \in call[r] \ call'[r] /\ job[r][s] = "failed"
<1>1. IInv /\ HInv /\ [Next]_vars => [Stands]_vars
  <2> SUFFICES ASSUME IInv, HInv, Next, NEW r \in Recs \ AutoRecs,
                      row[r].status \in {"rejected", "pending"}, row'[r].status # row[r].status
               PROVE  \/ row'[r].status \in {"rejected", "pending"}
                      \/ cs[r].who = "approve"
                      \/ \E s \in Slskds : s \in call[r] \ call'[r] /\ job[r][s] = "failed"
    OBVIOUS
  <2>1. cs[r].who # "retry"
    BY DEF HInv, Hist, InHand
  <2> QED BY <2>1, RowWriters
<1> QED BY Invariance, HistoryInvariance, <1>1, PTL DEF Spec, DecisionsStand

\* Whenever a retry brings an artist into Lidarr, the slskd half of its approval was tried.
THEOREM FollowUpKept == Spec => RetryKeepsFollowUp
<1> DEFINE Kept == \A r \in Recs \ AutoRecs : \A l \in Lidarrs :
       LET f == row[r].acts[l].follow IN
       (/\ cs[r].who = "retry" /\ Waiting(row[r].acts[l]) /\ row'[r].acts[l].st = "added"
        /\ f \in cs[r].enabled /\ r \notin Albums)
         => row'[r].acts[f].st # "none"
<1>1. IInv /\ HInv /\ [Next]_vars => [Kept]_vars
  <2> SUFFICES ASSUME IInv, HInv, Next, NEW r \in Recs \ AutoRecs, NEW l \in Lidarrs,
                      cs[r].who = "retry", Waiting(row[r].acts[l]), row'[r].acts[l].st = "added",
                      row[r].acts[l].follow \in cs[r].enabled, r \notin Albums
               PROVE  row'[r].acts[row[r].acts[l].follow].st # "none"
    OBVIOUS
  <2>1. row'[r] # row[r]
    BY DEF Waiting
  <2>2. row'[r].acts = cs[r].acts
    BY <2>1, RowWriters
  <2> QED BY <2>2 DEF HInv, Hist, InHand
<1> QED BY Invariance, HistoryInvariance, <1>1, PTL DEF Spec, RetryKeepsFollowUp

-----------------------------------------------------------------------------
(* How long a section and the approval of a batch can take. *)

\* what a section does next: one target less, where Lidarr may bring in the follow-up;
\* the end, or first the alert
Advances(w, S, v, T) ==
  \/ w = "approve" /\ v = "approve" /\ \E t \in S : T = S \ {t}
  \/ w = "approve" /\ v = "approve" /\ \E t \in S \cap Lidarrs, f \in Slskds : T = (S \ {t}) \cup {f}
  \/ w = "retry" /\ v = "retry" /\ \E t \in S : T \subseteq S \ {t}
  \/ w = "retry" /\ v = "alert"
  \/ w \in {"approve", "retry", "alert"} /\ v = "free"

\* A step of an approval or of a retry advances its section.
LEMMA SectionAdvances ==
  ASSUME IInv, NEW r \in Recs, ApproveStep(r) \/ RetryStep(r)
  PROVE  Advances(cs[r].who, cs[r].left, cs'[r].who, cs'[r].left)
<1>t. cs \in [Recs -> Sections] /\ cs[r] \in Sections BY DEF IInv, TypeOK
<1>f. Free.who = "free" /\ [Free EXCEPT !.who = "alert"].who = "alert" BY DEF Free, Idle
<1>1. ASSUME NEW t \in Targets, NEW res \in Results, ApproveAttempt(r, t, res)
      PROVE  Advances(cs[r].who, cs[r].left, cs'[r].who, cs'[r].left)
  <2> DEFINE taken == res = "ok" /\ t \in Lidarrs /\ r \notin Albums /\ FollowUp(r, t) # NoTarget
  <2>1. /\ cs[r].who = "approve" /\ cs'[r].who = "approve" /\ t \in cs[r].left
        /\ cs'[r].left = (cs[r].left \ {t}) \cup (IF taken THEN {FollowUp(r, t)} ELSE {})
    BY <1>1, <1>t DEF ApproveAttempt, Sections
  <2>2. FollowUp(r, t) \in Slskds \cup {NoTarget}
    <3>1. cs[r].row.acts[t] \in Actions /\ cs[r].comb \in Slskds \cup {NoTarget}
      BY <1>t DEF Sections, Rows
    <3> QED BY <3>1 DEF FollowUp, Actions
  <2>3. CASE taken
    BY <2>1, <2>2, <2>3 DEF Advances
  <2>4. CASE ~taken
    <3>1. cs'[r].left = cs[r].left \ {t} BY <2>1, <2>4
    <3> QED BY <2>1, <3>1 DEF Advances
  <2> QED BY <2>3, <2>4
<1>2. CASE ApproveWrite(r)
  BY <1>2, <1>t, <1>f DEF ApproveWrite, Advances
<1>3. ASSUME NEW t \in Targets, NEW blocked \in BOOLEAN, RetrySkip(r, t, blocked)
      PROVE  Advances(cs[r].who, cs[r].left, cs'[r].who, cs'[r].left)
  <2>1. /\ cs[r].who = "retry" /\ cs'[r].who = "retry" /\ t \in cs[r].left
        /\ cs'[r].left = cs[r].left \ {t}
    BY <1>3, <1>t DEF RetrySkip, Sections
  <2> QED BY <2>1 DEF Advances
<1>4. ASSUME NEW t \in Targets, NEW res \in Results, NEW fres \in Results, RetryAttempt(r, t, res, fres)
      PROVE  Advances(cs[r].who, cs[r].left, cs'[r].who, cs'[r].left)
  <2>1. /\ cs[r].who = "retry" /\ cs'[r].who = "retry" /\ t \in cs[r].left
        /\ cs'[r].left = cs[r].left \ {t}
    BY <1>4, <1>t DEF RetryAttempt, Sections
  <2> QED BY <2>1 DEF Advances
<1>5. ASSUME NEW f, NEW fres, RetryThrow(r, f, fres)
      PROVE  Advances(cs[r].who, cs[r].left, cs'[r].who, cs'[r].left)
  <2>1. /\ cs[r].who = "retry" /\ cs'[r].who = "retry" /\ cs[r].left # {} /\ cs'[r].left = {}
    BY <1>5, <1>t DEF RetryThrow, Sections
  <2> QED BY <2>1 DEF Advances
<1>6. CASE RetryWrite(r)
  BY <1>6, <1>t, <1>f DEF RetryWrite, Advances
<1>7. ASSUME NEW sent, Alert(r, sent)
      PROVE  Advances(cs[r].who, cs[r].left, cs'[r].who, cs'[r].left)
  BY <1>7, <1>t, <1>f DEF Alert, Advances
<1> QED BY <1>1, <1>2, <1>3, <1>4, <1>5, <1>6, <1>7 DEF ApproveStep, RetryStep

\* how many steps a section has left at most
Left(w, S) ==
  CASE w = "approve" -> Cardinality(S) + Cardinality(S \cap Lidarrs) + 1
    [] w = "retry" -> Cardinality(S) + 2
    [] w = "alert" -> 1
    [] OTHER -> 0

\* The numbers the steps are counted with.
LEMMA LeftType ==
  ASSUME IsFiniteSet(Targets), NEW S \in SUBSET Targets, NEW w
  PROVE  /\ IsFiniteSet(S) /\ Cardinality(S) \in Nat /\ Cardinality(S) <= Cardinality(Targets)
         /\ IsFiniteSet(S \cap Lidarrs) /\ Cardinality(S \cap Lidarrs) \in Nat
         /\ Cardinality(Targets) \in Nat /\ Left(w, S) \in Nat
<1>1. IsFiniteSet(S) /\ Cardinality(S) <= Cardinality(Targets) BY FS_Subset
<1>2. IsFiniteSet(S \cap Lidarrs) BY <1>1, FS_Subset
<1>3. Cardinality(S) \in Nat /\ Cardinality(S \cap Lidarrs) \in Nat /\ Cardinality(Targets) \in Nat
  BY <1>1, <1>2, FS_CardinalityType
<1> QED BY <1>1, <1>2, <1>3 DEF Left

\* One target less is one less.
LEMMA OneLess ==
  ASSUME NEW S, IsFiniteSet(S), NEW t \in S
  PROVE  Cardinality(S \ {t}) = Cardinality(S) - 1 /\ IsFiniteSet(S \ {t})
BY FS_RemoveElement

\* A follow-up takes the place of a target of type lidarr, which counts twice.
LEMMA AdvanceCounts ==
  ASSUME IsFiniteSet(Targets), NEW S \in SUBSET Targets, NEW T \in SUBSET Targets, NEW w, NEW v,
         Advances(w, S, v, T)
  PROVE  Left(v, T) < Left(w, S)
<1>1. /\ IsFiniteSet(S) /\ Cardinality(S) \in Nat /\ Cardinality(T) \in Nat
      /\ IsFiniteSet(S \cap Lidarrs)
      /\ Cardinality(S \cap Lidarrs) \in Nat /\ Cardinality(T \cap Lidarrs) \in Nat
  BY LeftType
<1>2. ASSUME w = "approve", v = "approve", NEW t \in S, T = S \ {t}
      PROVE  Left(v, T) < Left(w, S)
  <2>1. Cardinality(T) = Cardinality(S) - 1 BY <1>1, <1>2, OneLess
  <2>2. T \cap Lidarrs \subseteq S \cap Lidarrs BY <1>2
  <2>3. Cardinality(T \cap Lidarrs) <= Cardinality(S \cap Lidarrs) BY <1>1, <2>2, FS_Subset
  <2>4. /\ Left(w, S) = Cardinality(S) + Cardinality(S \cap Lidarrs) + 1
        /\ Left(v, T) = Cardinality(T) + Cardinality(T \cap Lidarrs) + 1
    BY <1>2 DEF Left
  <2> QED BY <1>1, <2>1, <2>3, <2>4
<1>3. ASSUME w = "approve", v = "approve", NEW t \in S \cap Lidarrs, NEW f \in Slskds,
             T = (S \ {t}) \cup {f}
      PROVE  Left(v, T) < Left(w, S)
  <2>1. Cardinality(S \ {t}) = Cardinality(S) - 1 /\ IsFiniteSet(S \ {t}) BY <1>1, OneLess
  <2>2. Cardinality(T) <= Cardinality(S)
    <3>1. Cardinality(T) = Cardinality(S \ {t}) \/ Cardinality(T) = Cardinality(S \ {t}) + 1
      BY ONLY <1>3, <2>1, FS_AddElement
    <3> QED BY <1>1, <2>1, <3>1
  <2>3. T \cap Lidarrs = (S \cap Lidarrs) \ {t} BY <1>3, ApprovalsAssumption
  <2>4. Cardinality(T \cap Lidarrs) = Cardinality(S \cap Lidarrs) - 1 BY <1>1, <1>3, <2>3, OneLess
  <2>5. /\ Left(w, S) = Cardinality(S) + Cardinality(S \cap Lidarrs) + 1
        /\ Left(v, T) = Cardinality(T) + Cardinality(T \cap Lidarrs) + 1
    BY <1>3 DEF Left
  <2> QED BY <1>1, <2>2, <2>4, <2>5
<1>4. ASSUME w = "retry", v = "retry", NEW t \in S, T \subseteq S \ {t}
      PROVE  Left(v, T) < Left(w, S)
  <2>1. Cardinality(S \ {t}) = Cardinality(S) - 1 /\ IsFiniteSet(S \ {t}) BY <1>1, OneLess
  <2>2. Cardinality(T) <= Cardinality(S \ {t}) BY <1>4, <2>1, FS_Subset
  <2>3. Left(w, S) = Cardinality(S) + 2 /\ Left(v, T) = Cardinality(T) + 2 BY <1>4 DEF Left
  <2> QED BY <1>1, <2>1, <2>2, <2>3
<1>5. CASE w = "retry" /\ v = "alert" BY <1>1, <1>5 DEF Left
<1>6. CASE w \in {"approve", "retry", "alert"} /\ v = "free" BY <1>1, <1>6 DEF Left
<1> QED BY <1>2, <1>3, <1>4, <1>5, <1>6 DEF Advances

\* What is no step of an approval or of a retry leaves a section alone or ends it; one
\* begins where none is.
LEMMA OthersLeave ==
  ASSUME IInv, [Next]_vars, NEW r \in Recs, ~ApproveStep(r), ~RetryStep(r)
  PROVE  cs[r].who = "free" \/ cs'[r].who = "free" \/ cs'[r] = cs[r]
<1>t. cs \in [Recs -> Sections] BY DEF IInv, TypeOK
<1>f. Free.who = "free" BY DEF Free, Idle
<1>1. ASSUME NEW q \in Recs, Step(q)
      PROVE  cs[r].who = "free" \/ cs'[r].who = "free" \/ cs'[r] = cs[r]
  <2>1. CASE q # r BY <1>1, <2>1, StepShape
  <2>2. CASE q = r
    <3>1. ASSUME NEW enabled, NEW sel, NEW l, ApproveBegin(r, enabled, sel, l) PROVE cs[r].who = "free"
      BY <3>1 DEF ApproveBegin
    <3>2. ASSUME NEW enabled, RetryBegin(r, enabled) PROVE cs[r].who = "free"
      BY <3>2 DEF RetryBegin
    <3>3. AutoStep(r) => cs' = cs
      BY DEF AutoStep, AutoBegin, AutoAttempt, AutoThrow, AutoWrite
    <3>4. SectionFails(r) => cs'[r].who = "free"
      BY <1>t, <1>f DEF SectionFails
    <3>5. \/ \E st \in {"rejected", "pending"} : Decide(r, st)
          \/ \E s \in Slskds : SlskdUpdate(r, s) \/ \E to \in ActiveJobs \cup EndedJobs : JobMove(r, s, to)
          \/ \E t \in Targets, win \in {"due", "late"} : Elapse(r, t, win)
          => cs' = cs
      BY DEF Decide, SlskdUpdate, JobMove, Elapse
    <3> QED BY <1>1, <2>2, <3>1, <3>2, <3>3, <3>4, <3>5 DEF Step
  <2> QED BY <2>1, <2>2
<1>2. Crash => cs'[r].who = "free" BY <1>f DEF Crash
<1>3. UNCHANGED vars => cs' = cs BY DEF vars
<1> QED BY <1>1, <1>2, <1>3, NextShape

\* how many steps auto-approval has left with a recommendation at most
AutoLeft(w, S) ==
  CASE w = "new" -> Cardinality(Targets) + 3
    [] w = "listed" -> Cardinality(Targets) + 2
    [] w = "auto" -> Cardinality(S) + 1
    [] OTHER -> 0

\* what auto-approval does with a recommendation, and what it may do with the others
Goes(w, S, v, T) ==
  \/ w = "listed" /\ v \in {"auto", "done"}
  \/ w = "auto" /\ (v = "done" \/ (v = "auto" /\ \E t \in S : T \subseteq S \ {t}))
Drops(w, S, v, T) ==
  \/ v = "done"
  \/ w = "new" /\ v = "listed"
  \/ w = "auto" /\ v = "auto" /\ T \subseteq S

\* A step of auto-approval goes on with its recommendation; no step takes one back.
LEMMA AutoAdvances ==
  ASSUME IInv, [Next]_vars, NEW r \in Recs
  PROVE  /\ AutoStep(r) => Goes(auto[r].who, auto[r].left, auto'[r].who, auto'[r].left)
         /\ \/ auto'[r] = auto[r] \/ AutoStep(r)
            \/ Drops(auto[r].who, auto[r].left, auto'[r].who, auto'[r].left)
<1>t. auto \in [Recs -> Sections] /\ auto[r] \in Sections BY DEF IInv, TypeOK
<1>i. Idle("done").who = "done" /\ Idle("listed").who = "listed" BY DEF Idle
<1>1. ASSUME NEW q \in Recs, AutoStep(q)
      PROVE  /\ q = r => Goes(auto[r].who, auto[r].left, auto'[r].who, auto'[r].left)
             /\ q # r => auto'[r] = auto[r] \/ auto'[r].who = "done"
  <2>1. ASSUME NEW enabled \in SUBSET Targets, NEW allowed \in BOOLEAN, AutoBegin(q, enabled, allowed)
        PROVE  /\ q = r => Goes(auto[r].who, auto[r].left, auto'[r].who, auto'[r].left)
               /\ q # r => auto'[r] = auto[r]
    <3>1. auto'[q].who \in {"auto", "done"} /\ \A p \in Recs : p # q => auto'[p] = auto[p]
      <4>1. CASE auto' = [auto EXCEPT ![q] = [Idle("auto") EXCEPT !.left = enabled]]
        BY <1>t, <4>1 DEF Idle
      <4>2. CASE auto' = [auto EXCEPT ![q] = Idle("done")]
        BY <1>t, <1>i, <4>2
      <4> QED BY <2>1, <4>1, <4>2 DEF AutoBegin
    <3>2. auto[q].who = "listed" BY <2>1 DEF AutoBegin
    <3> QED BY <1>t, <3>1, <3>2 DEF Goes
  <2>2. ASSUME NEW t \in Targets, NEW res \in Results, AutoAttempt(q, t, res)
        PROVE  /\ q = r => Goes(auto[r].who, auto[r].left, auto'[r].who, auto'[r].left)
               /\ q # r => auto'[r] = auto[r]
    <3>1. CASE q = r
      <4>1. /\ auto[r].who = "auto" /\ auto'[r].who = "auto" /\ t \in auto[r].left
            /\ auto'[r].left = auto[r].left \ {t}
        BY <1>t, <2>2, <3>1 DEF AutoAttempt, Sections
      <4> QED BY <3>1, <4>1 DEF Goes
    <3>2. CASE q # r BY <1>t, <2>2, <3>2 DEF AutoAttempt
    <3> QED BY <3>1, <3>2
  <2>3. ASSUME NEW t \in Targets, AutoThrow(q, t)
        PROVE  /\ q = r => Goes(auto[r].who, auto[r].left, auto'[r].who, auto'[r].left)
               /\ q # r => auto'[r].who = "done"
    <3>1. CASE q = r
      <4>1. /\ auto[r].who = "auto" /\ auto'[r].who = "auto" /\ t \in auto[r].left
            /\ auto'[r].left = {}
        BY <1>t, <2>3, <3>1 DEF AutoThrow, Sections
      <4> QED BY <3>1, <4>1 DEF Goes
    <3>2. CASE q # r BY <1>i, <2>3, <3>2 DEF AutoThrow
    <3> QED BY <3>1, <3>2
  <2>4. CASE AutoWrite(q)
    <3>1. auto[q].who = "auto" /\ auto' = [auto EXCEPT ![q] = Idle("done")] BY <2>4 DEF AutoWrite
    <3> QED BY <1>t, <1>i, <3>1 DEF Goes
  <2> QED BY <1>1, <2>1, <2>2, <2>3, <2>4 DEF AutoStep
<1>2. ASSUME AutoList
      PROVE  Drops(auto[r].who, auto[r].left, auto'[r].who, auto'[r].left)
  <2>1. \/ auto[r].who = "new" /\ auto'[r] = Idle("listed")
        \/ auto'[r] = Idle("done")
    BY <1>2 DEF AutoList
  <2>2. \/ auto[r].who = "new" /\ auto'[r].who = "listed"
        \/ auto'[r].who = "done"
    BY <1>i, <2>1
  <2> QED BY <2>2 DEF Drops
<1>3. ASSUME NEW written, AutoStop(written)
      PROVE  Drops(auto[r].who, auto[r].left, auto'[r].who, auto'[r].left)
  <2>1. \/ auto'[r] = Idle("done")
        \/ auto[r].who = "auto" /\ auto'[r] = [auto[r] EXCEPT !.left = {}]
    BY <1>3 DEF AutoStop
  <2>2. auto'[r] = [auto[r] EXCEPT !.left = {}] => auto'[r].who = auto[r].who /\ auto'[r].left = {}
    BY <1>t DEF Sections
  <2> QED BY <1>i, <2>1, <2>2 DEF Drops
<1>4. Crash => auto'[r].who = "done" BY <1>i DEF Crash
<1>5. ASSUME NEW q \in Recs, Step(q), ~AutoStep(q) PROVE auto' = auto
  <2>1. ApproveStep(q) => auto' = auto BY DEF ApproveStep, ApproveAttempt, ApproveWrite
  <2>2. RetryStep(q) => auto' = auto
    BY DEF RetryStep, RetrySkip, RetryAttempt, RetryThrow, RetryWrite, Alert
  <2>3. ASSUME NEW enabled, NEW sel, NEW l, ApproveBegin(q, enabled, sel, l) PROVE auto' = auto
    BY <2>3 DEF ApproveBegin
  <2>4. \/ \E enabled \in SUBSET Targets : RetryBegin(q, enabled)
        \/ SectionFails(q)
        \/ \E st \in {"rejected", "pending"} : Decide(q, st)
        \/ \E s \in Slskds : SlskdUpdate(q, s) \/ \E to \in ActiveJobs \cup EndedJobs : JobMove(q, s, to)
        \/ \E t \in Targets, win \in {"due", "late"} : Elapse(q, t, win)
        => auto' = auto
    BY DEF RetryBegin, SectionFails, Decide, SlskdUpdate, JobMove, Elapse
  <2> QED BY <1>5, <2>1, <2>2, <2>3, <2>4 DEF Step
<1>6. RetryList \/ UNCHANGED vars => auto' = auto BY DEF RetryList, vars
<1>7. Next => \/ RetryList \/ AutoList \/ Crash
              \/ \E written \in BOOLEAN : AutoStop(written)
              \/ \E q \in Recs : Step(q)
  BY DEF Next, Step
<1>8. Drops(auto[r].who, auto[r].left, "done", auto'[r].left) BY DEF Drops
<1> QED BY <1>1, <1>2, <1>3, <1>4, <1>5, <1>6, <1>7, <1>8

\* Going on uses up steps, and dropping makes no new ones.
LEMMA AutoCounts ==
  ASSUME IsFiniteSet(Targets), NEW S \in SUBSET Targets, NEW T \in SUBSET Targets, NEW w, NEW v
  PROVE  /\ AutoLeft(w, S) \in Nat /\ AutoLeft(v, T) \in Nat
         /\ Goes(w, S, v, T) => AutoLeft(v, T) < AutoLeft(w, S)
         /\ Drops(w, S, v, T) => ~(AutoLeft(v, T) > AutoLeft(w, S))
<1>1. /\ IsFiniteSet(S) /\ Cardinality(S) \in Nat /\ Cardinality(T) \in Nat
      /\ Cardinality(T) <= Cardinality(Targets) /\ Cardinality(Targets) \in Nat
  BY LeftType
<1>2. AutoLeft(w, S) \in Nat /\ AutoLeft(v, T) \in Nat BY <1>1 DEF AutoLeft
<1>3. ASSUME w = "auto", v = "auto", NEW t \in S, T \subseteq S \ {t}
      PROVE  AutoLeft(v, T) < AutoLeft(w, S)
  <2>1. Cardinality(S \ {t}) = Cardinality(S) - 1 /\ IsFiniteSet(S \ {t}) BY <1>1, OneLess
  <2>2. Cardinality(T) <= Cardinality(S \ {t}) BY <1>3, <2>1, FS_Subset
  <2>3. AutoLeft(w, S) = Cardinality(S) + 1 /\ AutoLeft(v, T) = Cardinality(T) + 1
    BY <1>3 DEF AutoLeft
  <2> QED BY <1>1, <2>1, <2>2, <2>3
<1>4. ASSUME w = "auto", v = "auto", T \subseteq S
      PROVE  ~(AutoLeft(v, T) > AutoLeft(w, S))
  <2>1. Cardinality(T) <= Cardinality(S) BY <1>1, <1>4, FS_Subset
  <2>2. AutoLeft(w, S) = Cardinality(S) + 1 /\ AutoLeft(v, T) = Cardinality(T) + 1
    BY <1>4 DEF AutoLeft
  <2> QED BY <1>1, <2>1, <2>2
<1>5. v = "done" => AutoLeft(v, T) = 0 BY DEF AutoLeft
<1>6. CASE w = "listed" /\ v = "auto" BY <1>1, <1>2, <1>6 DEF AutoLeft, Goes, Drops
<1>7. CASE w = "new" /\ v = "listed" BY <1>1, <1>2, <1>7 DEF AutoLeft, Goes, Drops
<1>8. w \in {"listed", "auto"} => AutoLeft(w, S) > 0 BY <1>1 DEF AutoLeft
<1> QED BY <1>2, <1>3, <1>4, <1>5, <1>6, <1>7, <1>8 DEF Goes, Drops

\* Every step of a section uses up some of its steps and nothing lengthens one, and
\* auto-approval never comes back to a recommendation.
EveryStepCounts ==
  [][\A r \in Recs :
       /\ ApproveStep(r) \/ RetryStep(r) =>
            Left(cs[r].who, cs[r].left)' < Left(cs[r].who, cs[r].left)
       /\ Left(cs[r].who, cs[r].left)' > Left(cs[r].who, cs[r].left) => cs[r].who = "free"
       /\ AutoStep(r) => AutoLeft(auto[r].who, auto[r].left)' < AutoLeft(auto[r].who, auto[r].left)
       /\ ~(AutoLeft(auto[r].who, auto[r].left)' > AutoLeft(auto[r].who, auto[r].left))]_vars

\* With n targets, l of them of type lidarr, an approval ends after n + l + 1 steps at most,
\* a retry after n + 2, and auto-approval is through with a recommendation after n + 2.
THEOREM StepsRunOut == IsFiniteSet(Targets) => (Spec => EveryStepCounts)
<1> SUFFICES ASSUME IsFiniteSet(Targets) PROVE Spec => EveryStepCounts
  OBVIOUS
<1>1. ASSUME IInv, IInv', [Next]_vars, NEW r \in Recs
      PROVE  /\ ApproveStep(r) \/ RetryStep(r) =>
                  Left(cs'[r].who, cs'[r].left) < Left(cs[r].who, cs[r].left)
             /\ Left(cs'[r].who, cs'[r].left) > Left(cs[r].who, cs[r].left) => cs[r].who = "free"
  <2>1. cs[r].left \in SUBSET Targets /\ cs'[r].left \in SUBSET Targets
    BY <1>1 DEF IInv, TypeOK, Sections
  <2>2. Left(cs[r].who, cs[r].left) \in Nat /\ Left(cs'[r].who, cs'[r].left) \in Nat
    BY <2>1, LeftType
  <2>3. ApproveStep(r) \/ RetryStep(r) =>
          Left(cs'[r].who, cs'[r].left) < Left(cs[r].who, cs[r].left)
    BY <1>1, <2>1, SectionAdvances, AdvanceCounts
  <2>4. cs'[r].who = "free" => Left(cs'[r].who, cs'[r].left) = 0 BY DEF Left
  <2> QED BY <1>1, <2>2, <2>3, <2>4, OthersLeave
<1>2. ASSUME IInv, IInv', [Next]_vars, NEW r \in Recs
      PROVE  /\ AutoStep(r) => AutoLeft(auto'[r].who, auto'[r].left) < AutoLeft(auto[r].who, auto[r].left)
             /\ ~(AutoLeft(auto'[r].who, auto'[r].left) > AutoLeft(auto[r].who, auto[r].left))
  <2>1. auto[r].left \in SUBSET Targets /\ auto'[r].left \in SUBSET Targets
    BY <1>2 DEF IInv, TypeOK, Sections
  <2>2. /\ AutoLeft(auto[r].who, auto[r].left) \in Nat /\ AutoLeft(auto'[r].who, auto'[r].left) \in Nat
        /\ Goes(auto[r].who, auto[r].left, auto'[r].who, auto'[r].left) =>
             AutoLeft(auto'[r].who, auto'[r].left) < AutoLeft(auto[r].who, auto[r].left)
        /\ Drops(auto[r].who, auto[r].left, auto'[r].who, auto'[r].left) =>
             ~(AutoLeft(auto'[r].who, auto'[r].left) > AutoLeft(auto[r].who, auto[r].left))
    BY <2>1, AutoCounts
  <2>3. CASE AutoStep(r)
    <3>1. AutoLeft(auto'[r].who, auto'[r].left) < AutoLeft(auto[r].who, auto[r].left)
      BY <1>2, <2>2, <2>3, AutoAdvances
    <3> QED BY <2>2, <3>1
  <2>4. CASE auto'[r] = auto[r] /\ ~AutoStep(r)
    <3>1. AutoLeft(auto'[r].who, auto'[r].left) = AutoLeft(auto[r].who, auto[r].left)
      BY <2>4
    <3> QED BY <2>2, <2>4, <3>1
  <2>5. CASE ~AutoStep(r) /\ Drops(auto[r].who, auto[r].left, auto'[r].who, auto'[r].left)
    BY <2>2, <2>5
  <2> QED BY <1>2, <2>3, <2>4, <2>5, AutoAdvances
<1>3. IInv /\ IInv' /\ [Next]_vars =>
        [\A r \in Recs :
           /\ ApproveStep(r) \/ RetryStep(r) =>
                Left(cs[r].who, cs[r].left)' < Left(cs[r].who, cs[r].left)
           /\ Left(cs[r].who, cs[r].left)' > Left(cs[r].who, cs[r].left) => cs[r].who = "free"
           /\ AutoStep(r) => AutoLeft(auto[r].who, auto[r].left)' < AutoLeft(auto[r].who, auto[r].left)
           /\ ~(AutoLeft(auto[r].who, auto[r].left)' > AutoLeft(auto[r].who, auto[r].left))]_vars
  BY <1>1, <1>2
<1> QED BY <1>3, Invariance, PTL DEF Spec, EveryStepCounts
=============================================================================
