-------------------------- MODULE PlaylistExports --------------------------
(***************************************************************************)
(* The export of one saved playlist to the user's media servers: the       *)
(* generation that saves new tracks and pushes them to each selected       *)
(* target (executePlaylistGeneration in index.ts, core/playlists/export.ts)*)
(* under the playlist's lock (core/playlists/generation-lock.ts), and the  *)
(* bindings that remember which remote playlist is the playlist's own      *)
(* (db/queries/playlist-exports.ts).                                       *)
(*                                                                         *)
(* A create request cannot be repeated: one whose answer is lost may have  *)
(* made a playlist nobody knows of.  One action per awaited call.          *)
(***************************************************************************)
EXTENDS Naturals, Sequences

CONSTANTS
  Targets,      \* the playlist's export targets
  Accounts,     \* servers and accounts a target may be configured for
  Callers,      \* who generates: the cron, the user
  None,
  MaxGens, MaxForgotten, MaxFaults   \* bounds

ASSUME ExportAssumption ==
  /\ None \notin Targets \cup Accounts
  /\ MaxGens \in Nat /\ MaxForgotten \in Nat /\ MaxFaults \in Nat

VARIABLES
  binding,    \* playlist_exports: the row of each target
  owned,      \* targets that exist; {} once the playlist is deleted
  gen,        \* the generation each caller has under way
  resetting,  \* the target whose binding is being reset
  remotes,    \* the remote playlists ever made for this one
  done,       \* the last generation whose job completed, and its targets
  gens,       \* generations so far
  forgotten,  \* resets and deletions so far
  faults      \* crashes, lost answers and failed writes so far

vars == <<binding, owned, gen, resetting, remotes, done, gens, forgotten, faults>>
bounds == <<gens, forgotten, faults>>

Ids == 1..Len(remotes)
States == {"none", "creating", "linked", "recovery_required"}
NoBinding == [state |-> "none", scope |-> None, id |-> 0]
Idle == [pc |-> "idle", n |-> 0, empty |-> FALSE, selected |-> {}, todo |-> {}, t |-> None,
         scope |-> None, created |-> FALSE, id |-> 0, failed |-> FALSE]
Fault == faults < MaxFaults /\ faults' = faults + 1

\* content is the generation whose tracks the playlist holds, all of them and nothing else;
\* 0 when it is empty, incomplete or a mixture
Remote == [target: Targets, account: Accounts, content: 0..MaxGens, forgotten: BOOLEAN]

Binding == [state: States, scope: Accounts \cup {None}, id: 0..Len(remotes)]

Generation ==
  [pc: {"idle", "generate", "select", "next", "open", "reserve", "create", "link", "fill",
        "replace", "mark"},
   n: 0..MaxGens, empty: BOOLEAN, selected: SUBSET Targets, todo: SUBSET Targets,
   t: Targets \cup {None}, scope: Accounts \cup {None}, created: BOOLEAN,
   id: 0..Len(remotes), failed: BOOLEAN]

TypeOK ==
  /\ binding \in [Targets -> Binding]
  /\ owned \subseteq Targets
  /\ gen \in [Callers -> Generation]
  /\ resetting \in Targets \cup {None}
  /\ remotes \in Seq(Remote)
  /\ done \in [n: 0..MaxGens, targets: SUBSET Targets]
  /\ gens \in 0..MaxGens /\ forgotten \in 0..MaxForgotten /\ faults \in 0..MaxFaults

Init ==
  /\ binding = [t \in Targets |-> NoBinding]
  /\ owned = Targets
  /\ gen = [c \in Callers |-> Idle]
  /\ resetting = None
  /\ remotes = <<>>
  /\ done = [n |-> 0, targets |-> {}]
  /\ gens = 0 /\ forgotten = 0 /\ faults = 0

Busy == resetting # None \/ \E c \in Callers : gen[c].pc # "idle"
Goto(c, pc) == gen' = [gen EXCEPT ![c].pc = pc]
my(c) == binding[gen[c].t]
\* a transaction that starts by locking the playlist and the target
Owned(c) == gen[c].t \in owned

\* the target has failed; a binding this run reserved is marked first
Fails(c) ==
  gen' = [gen EXCEPT ![c].pc = IF gen[c].created THEN "mark" ELSE "next", ![c].failed = TRUE]
\* the target took the tracks, perhaps not all that were asked for
Submitted(c, partial) ==
  gen' = [gen EXCEPT ![c].pc = IF partial /\ gen[c].created THEN "mark" ELSE "next",
                     ![c].failed = gen[c].failed \/ partial]

-----------------------------------------------------------------------------
(* A generation: executePlaylistGeneration and pushSavedPlaylistToTargets. *)

\* mutant: the lock is not taken
BeginUnlocked(c) ==
  /\ gen[c].pc = "idle" /\ resetting = None /\ owned # {} /\ gens < MaxGens
  /\ gens' = gens + 1
  /\ gen' = [gen EXCEPT ![c] = [Idle EXCEPT !.pc = "generate", !.n = gens + 1]]
  /\ UNCHANGED <<binding, owned, resetting, remotes, done, forgotten, faults>>

\* withPlaylistLock; a call that finds it taken throws and changes nothing
Begin(c) ==
  /\ ~Busy /\ owned # {} /\ gens < MaxGens
  /\ gens' = gens + 1
  /\ gen' = [gen EXCEPT ![c] = [Idle EXCEPT !.pc = "generate", !.n = gens + 1]]
  /\ UNCHANGED <<binding, owned, resetting, remotes, done, forgotten, faults>>

\* generatePlaylist and the saving of its tracks; a poor result keeps the old ones
Generate(c) ==
  /\ gen[c].pc = "generate"
  /\ \/ gen' = [gen EXCEPT ![c] = Idle]
     \/ \E empty \in BOOLEAN : gen' = [gen EXCEPT ![c].pc = "select", ![c].empty = empty]
  /\ UNCHANGED <<binding, owned, resetting, remotes, done, bounds>>

\* the targets that exist among those the generation read with the playlist; it has not noticed
\* a deletion of the playlist
Selectable == IF owned = {} THEN Targets ELSE owned

\* the enabled ones among them
Select(c) ==
  /\ gen[c].pc = "select"
  /\ \E ts \in SUBSET Selectable :
       gen' = [gen EXCEPT ![c].pc = "next", ![c].selected = ts, ![c].todo = ts]
  /\ UNCHANGED <<binding, owned, resetting, remotes, done, bounds>>

NextTarget(c, t) ==
  /\ gen[c].pc = "next" /\ t \in gen[c].todo
  /\ gen' = [gen EXCEPT ![c].pc = IF gen[c].empty THEN "next" ELSE "open",
               ![c].failed = gen[c].failed \/ gen[c].empty,
               ![c].todo = gen[c].todo \ {t}, ![c].t = t,
               ![c].scope = None, ![c].created = FALSE, ![c].id = 0]
  /\ UNCHANGED <<binding, owned, resetting, remotes, done, bounds>>

\* openPlaylistExportSession: the account the target is configured for by now is verified, and
\* the tracks are looked up
Open(c) ==
  /\ gen[c].pc = "open"
  /\ \/ \E a \in Accounts : gen' = [gen EXCEPT ![c].pc = "reserve", ![c].scope = a]
     \/ Fails(c)
  /\ UNCHANGED <<binding, owned, resetting, remotes, done, bounds>>

\* the row is inserted: this run is to create the remote playlist
Reserved(c) == [binding EXCEPT ![gen[c].t] =
                  [state |-> "creating", scope |-> gen[c].scope, id |-> 0]]
\* the saved playlist is to be replaced
ToReplace(c) == gen' = [gen EXCEPT ![c].pc = "replace", ![c].id = my(c).id]

\* mutant: a creation that came to nothing is tried again
ReserveUnresolved(c) ==
  /\ gen[c].pc = "reserve"
  /\ IF Owned(c) /\ my(c).state # "linked"
     THEN binding' = Reserved(c) /\ gen' = [gen EXCEPT ![c].pc = "create", ![c].created = TRUE]
     ELSE /\ IF Owned(c) /\ my(c).scope = gen[c].scope THEN ToReplace(c) ELSE Fails(c)
          /\ UNCHANGED binding
  /\ UNCHANGED <<owned, resetting, remotes, done, bounds>>

\* mutant: the account is not compared with the one of the binding
ReserveAnyScope(c) ==
  /\ gen[c].pc = "reserve"
  /\ IF Owned(c) /\ my(c).state = "none"
     THEN binding' = Reserved(c) /\ gen' = [gen EXCEPT ![c].pc = "create", ![c].created = TRUE]
     ELSE /\ IF Owned(c) /\ my(c).state = "linked" THEN ToReplace(c) ELSE Fails(c)
          /\ UNCHANGED binding
  /\ UNCHANGED <<owned, resetting, remotes, done, bounds>>

\* reservePlaylistExport, and what the binding allows
Reserve(c) ==
  /\ gen[c].pc = "reserve"
  /\ LET usable == my(c).state = "linked" /\ my(c).scope = gen[c].scope
     IN \/ /\ Owned(c) /\ my(c).state = "none" /\ binding' = Reserved(c)
           /\ \/ /\ gen' = [gen EXCEPT ![c].pc = "create", ![c].created = TRUE]
                 /\ UNCHANGED faults
              \/ Fault /\ Fails(c)     \* the row is there, the answer is lost
        \/ Owned(c) /\ usable /\ ToReplace(c) /\ UNCHANGED <<binding, faults>>
        \/ /\ ~Owned(c) \/ (my(c).state # "none" /\ ~usable)
           /\ Fails(c) /\ UNCHANGED <<binding, faults>>
  /\ UNCHANGED <<owned, resetting, remotes, done, gens, forgotten>>

\* the create request, which is never repeated: refused, done, or done with the answer lost.
\* Some servers take the tracks with it.
Create(c) ==
  /\ gen[c].pc = "create"
  /\ \/ Fails(c) /\ UNCHANGED <<remotes, faults>>
     \/ \E content \in {0, gen[c].n} :
          /\ remotes' = Append(remotes, [target |-> gen[c].t, account |-> gen[c].scope,
                                         content |-> content, forgotten |-> FALSE])
          /\ \/ /\ gen' = [gen EXCEPT ![c].pc = "link", ![c].id = Len(remotes) + 1]
                /\ UNCHANGED faults
             \/ Fault /\ Fails(c)
  /\ UNCHANGED <<binding, owned, resetting, done, gens, forgotten>>

\* linkPlaylistExport, called back before the playlist is filled
Link(c) ==
  /\ gen[c].pc = "link"
  /\ LET linkable == Owned(c) /\ my(c).state = "creating" /\ my(c).scope = gen[c].scope
     IN \/ /\ linkable
           /\ binding' = [binding EXCEPT ![gen[c].t].state = "linked", ![gen[c].t].id = gen[c].id]
           /\ \/ Goto(c, "fill") /\ UNCHANGED faults
              \/ Fault /\ Fails(c)
        \/ ~linkable /\ Fails(c) /\ UNCHANGED <<binding, faults>>
        \/ linkable /\ Fault /\ Fails(c) /\ UNCHANGED binding
  /\ UNCHANGED <<owned, resetting, remotes, done, gens, forgotten>>

\* the tracks go to the remote playlist, one request after another; any may fail
WriteTracks(c) ==
  LET put(content) == remotes' = [remotes EXCEPT ![gen[c].id].content = content]
  IN \/ put(gen[c].n) /\ \E partial \in BOOLEAN : Submitted(c, partial)
     \/ /\ \E content \in {remotes[gen[c].id].content, 0, gen[c].n} : put(content)
        /\ Fails(c)

\* the rest of createPlaylist, or replacePlaylist
Fill(c) ==
  /\ gen[c].pc \in {"fill", "replace"} /\ WriteTracks(c)
  /\ UNCHANGED <<binding, owned, resetting, done, bounds>>

\* markPlaylistExportRecoveryRequired: only a binding that is still being created
Mark(c) ==
  /\ gen[c].pc = "mark"
  /\ Goto(c, "next")
  /\ \/ /\ binding' = IF Owned(c) /\ my(c).state = "creating"
                       THEN [binding EXCEPT ![gen[c].t].state = "recovery_required"]
                       ELSE binding
        /\ UNCHANGED faults
     \/ Fault /\ UNCHANGED binding
  /\ UNCHANGED <<owned, resetting, remotes, done, gens, forgotten>>

\* mutant: the lock is released when all went well
EndHolding(c) ==
  /\ gen[c].pc = "next" /\ gen[c].todo = {} /\ ~gen[c].failed
  /\ gen' = [gen EXCEPT ![c] = Idle]
  /\ done' = [n |-> gen[c].n, targets |-> gen[c].selected \cap owned]
  /\ UNCHANGED <<binding, owned, resetting, remotes, bounds>>

\* all targets have been tried: the job completes, or fails because one of them did or because
\* that could not be written
End(c) ==
  /\ gen[c].pc = "next" /\ gen[c].todo = {}
  /\ gen' = [gen EXCEPT ![c] = Idle]
  /\ \/ /\ ~gen[c].failed /\ UNCHANGED faults
        /\ done' = [n |-> gen[c].n, targets |-> gen[c].selected \cap owned]
     \/ gen[c].failed /\ UNCHANGED <<done, faults>>
     \/ Fault /\ UNCHANGED done
  /\ UNCHANGED <<binding, owned, resetting, remotes, gens, forgotten>>

-----------------------------------------------------------------------------
(* What the user and the process do meanwhile. *)

\* the bindings of ts are gone; their remote playlists are left alone
Forget(ts) ==
  /\ binding' = [t \in Targets |-> IF t \in ts THEN NoBinding ELSE binding[t]]
  /\ remotes' = [x \in Ids |-> [remotes[x] EXCEPT !.forgotten = @ \/ remotes[x].target \in ts]]
  /\ done' = [done EXCEPT !.targets = @ \ ts]

\* mutant: a reset does not take the lock
ResetUnlocked(t) ==
  /\ resetting = None /\ t \in owned /\ binding[t].state # "none" /\ forgotten < MaxForgotten
  /\ resetting' = t /\ forgotten' = forgotten + 1
  /\ UNCHANGED <<binding, owned, gen, remotes, done, gens, faults>>

\* POST .../exports/:targetId/reset takes the lock, then looks for the binding
ResetBegin(t) ==
  /\ ~Busy /\ t \in owned /\ binding[t].state # "none" /\ forgotten < MaxForgotten
  /\ resetting' = t /\ forgotten' = forgotten + 1
  /\ UNCHANGED <<binding, owned, gen, remotes, done, gens, faults>>

\* resetPlaylistExport; a target deleted meanwhile makes it throw
Reset ==
  /\ resetting # None
  /\ IF resetting \in owned THEN Forget({resetting}) ELSE UNCHANGED <<binding, remotes, done>>
  /\ resetting' = None
  /\ UNCHANGED <<owned, gen, bounds>>

\* a target is deleted, or the playlist with all its bindings; no lock is taken
Delete(ts) ==
  /\ ts \cap owned # {} /\ forgotten < MaxForgotten
  /\ Forget(ts) /\ owned' = owned \ ts /\ forgotten' = forgotten + 1
  /\ UNCHANGED <<gen, resetting, gens, faults>>

\* the process dies and starts again: the locks are gone
Crash ==
  /\ Fault
  /\ gen' = [c \in Callers |-> Idle] /\ resetting' = None
  /\ UNCHANGED <<binding, owned, remotes, done, gens, forgotten>>

GenStep(c) ==
  \/ Generate(c) \/ Select(c) \/ (\E t \in Targets : NextTarget(c, t)) \/ Open(c) \/ Reserve(c)
  \/ Create(c) \/ Link(c) \/ Fill(c) \/ Mark(c) \/ End(c)

Next ==
  \/ \E c \in Callers : Begin(c) \/ GenStep(c)
  \/ \E t \in Targets : ResetBegin(t) \/ Delete({t})
  \/ Reset \/ Delete(Targets) \/ Crash

Spec == Init /\ [][Next]_vars

\* every request has a timeout
FairSpec == Spec /\ (\A c \in Callers : WF_vars(GenStep(c))) /\ WF_vars(Reset)

-----------------------------------------------------------------------------
(* Properties. *)

\* docs/API.md "uncertain creation fail[s] without automatically creating another playlist":
\* until the user resets or deletes its binding, a target is given one remote playlist at
\* most, whatever crashes and answers are lost.
OneRemote ==
  \A x, y \in Ids : (x # y /\ remotes[x].target = remotes[y].target)
    => remotes[x].forgotten \/ remotes[y].forgotten

\* A remote playlist that was made is the one the binding names, or the binding shows that
\* its creation is unresolved.
Accounted ==
  \A x \in Ids : (~remotes[x].forgotten /\ remotes[x].target \in owned) =>
    LET b == binding[remotes[x].target]
    IN (b.state = "linked" /\ b.id = x) \/ b.state \in {"creating", "recovery_required"}

\* An export replaces only a playlist of the same target, in the account it was made in: an
\* id means nothing, or somebody else's playlist, in another account.
RightAccount ==
  \A c \in Callers : gen[c].pc = "replace" =>
    /\ remotes[gen[c].id].account = gen[c].scope
    /\ remotes[gen[c].id].target = gen[c].t

\* When the last generation's job has completed, each of its targets holds its tracks.
CompletedIsExported ==
  (~Busy /\ done.n = gens) => \A t \in done.targets :
    binding[t].state = "linked" /\ remotes[binding[t].id].content = done.n

\* The lock is released however a generation ends; only a crash could do it otherwise.
LockReleased == \A c \in Callers : gen[c].pc # "idle" ~> gen[c].pc = "idle"
=============================================================================
