---------------------------- MODULE LibrarySync ----------------------------
(***************************************************************************)
(* The library sync (core/library/sync.ts, store.ts, reconciler.ts): each  *)
(* source a user has, or all users share, is read and replaces its rows of *)
(* library_artists and library_albums.  Scheduled passes, requests of an   *)
(* admin and subscription runs start syncs; a source has one at a time.    *)
(* Beside it the backend migration (core/ops/migrate-backend.ts) copies    *)
(* the tables to another database.                                         *)
(*                                                                         *)
(* A key is a source of one scope, "user:source".  What a source holds and *)
(* which overrides the user has made are version numbers; a row records    *)
(* the versions it was built from.  An artist's match is none, found by    *)
(* name ("name") or asserted by the user ("user").  An artist keeps its    *)
(* name.  Job rows, counts and the cursor of the gap search are left out.  *)
(***************************************************************************)
EXTENDS Naturals, FiniteSets

CONSTANTS
  Global, Own,    \* keys of all users and of the user
  Albumed,        \* keys of sources that list albums
  Artists,
  Crons, Admins,  \* passes: of the schedule, and by request or subscription
  None,
  MaxChanges,     \* bound: changes of the sources and of the overrides
  MaxFaults       \* bound: failed calls and crashes

Keys   == Global \cup Own
Passes == Crons \cup Admins

ASSUME LibraryAssumption ==
  /\ Global \cap Own = {} /\ Albumed \subseteq Keys /\ None \notin Keys
  /\ Crons \cap Admins = {}
  /\ MaxChanges \in Nat /\ MaxFaults \in Nat

VARIABLES
  server,    \* version of what a source holds
  edits,     \* version of the overrides of a key
  over,      \* overrides by artist: none, a match, or skip
  lib,       \* library_artists, library_albums of a key
  st,        \* library_sync_state: the row of a key
  sync,      \* inFlight: the sync of a key and what it has read
  kind, todo, on,   \* a pass, the keys it has not come to, the one it awaits
  syncAll,   \* syncAllRunning
  sweep,     \* clearRunningSyncStates has not run yet
  mig,       \* what a migration does; every other value but "off" is maintenance
  frozen,    \* library_sync_state as its transaction sees it
  target,    \* the tables of the target
  faults

world  == <<server, edits, over>>
tables == <<lib, st>>
passes == <<kind, todo, on, syncAll>>
migration == <<mig, frozen, target>>
vars == <<world, tables, sync, passes, sweep, migration, faults>>

Versions  == 0 .. MaxChanges
Matches   == {"none", "name", "user"}
Overrides == {"none", "match", "skip"}
NoMatch   == [a \in Artists |-> "none"]
Matched(m) == {a \in Artists : m[a] # "none"}

\* the moment of lastSyncStartedAt is what the source and the overrides were then
Rows   == [src : Versions, edits : Versions, match : [Artists -> Matches], albs : SUBSET Artists]
States == [status : {"none", "running", "completed", "failed"}, src : Versions,
           edits : Versions, aged : BOOLEAN]
Steps  == {"none", "check", "mark", "list", "prepare", "match", "albums",
           "replace", "complete", "record", "fail"}
Syncs  == [pc : Steps, src : Versions, edits : Versions, over : [Artists -> Overrides],
           prev : [Artists -> Matches], match : [Artists -> Matches], lost : SUBSET Artists,
           todo : SUBSET Artists, albs : SUBSET Artists]
Tables == [lib : Rows, st : States]

NoSync  == [pc |-> "none", src |-> 0, edits |-> 0, over |-> NoMatch, prev |-> NoMatch,
            match |-> NoMatch, lost |-> {}, todo |-> {}, albs |-> {}]
Step(pc) == [NoSync EXCEPT !.pc = pc]
NoRows  == [src |-> 0, edits |-> 0, match |-> NoMatch, albs |-> {}]
NoState == [status |-> "none", src |-> 0, edits |-> 0, aged |-> TRUE]
Blank   == [k \in Keys |-> NoState]
Empty   == [k \in Keys |-> [lib |-> NoRows, st |-> NoState]]

\* "all" is the forced pass that syncAllRunning is about
Kinds  == {"idle", "stale", "forced", "all"}
Maintenance == mig # "off"

TypeOK ==
  /\ server \in [Keys -> Versions] /\ edits \in [Keys -> Versions]
  /\ over \in [Keys -> [Artists -> Overrides]]
  /\ lib \in [Keys -> Rows] /\ st \in [Keys -> States]
  /\ sync \in [Keys -> Syncs]
  /\ kind \in [Passes -> Kinds] /\ todo \in [Passes -> SUBSET Keys]
  /\ on \in [Passes -> Keys \cup {None}] /\ syncAll \in BOOLEAN /\ sweep \in BOOLEAN
  /\ mig \in {"off", "preflight", "copy", "done"}
  /\ frozen \in [Keys -> States] /\ target \in [Keys -> Tables]
  /\ faults \in 0 .. MaxFaults

Init ==
  /\ server = [k \in Keys |-> 0] /\ edits = [k \in Keys |-> 0]
  /\ over = [k \in Keys |-> NoMatch]
  /\ lib = [k \in Keys |-> NoRows] /\ st = [k \in Keys |-> NoState]
  /\ sync = [k \in Keys |-> NoSync]
  /\ kind = [c \in Passes |-> "idle"] /\ todo = [c \in Passes |-> {}]
  /\ on = [c \in Passes |-> None] /\ syncAll = FALSE
  /\ sweep = FALSE
  /\ mig = "off" /\ frozen = Blank /\ target = Empty
  /\ faults = 0

Fault == faults < MaxFaults /\ faults' = faults + 1
Settled == UNCHANGED faults

-----------------------------------------------------------------------------
(* The world. *)

Change(k) ==
  /\ server[k] + edits[k] < MaxChanges
  /\ server' = [server EXCEPT ![k] = @ + 1]
  /\ UNCHANGED <<edits, over, tables, sync, passes, sweep, migration, faults>>

\* upsertOverride, deleteOverride
Edit(k, a, o) ==
  /\ k \in Own /\ server[k] + edits[k] < MaxChanges /\ o # over[k][a]
  /\ over' = [over EXCEPT ![k][a] = o]
  /\ edits' = [edits EXCEPT ![k] = @ + 1]
  /\ UNCHANGED <<server, tables, sync, passes, sweep, migration, faults>>

\* nine tenths of the interval have passed since lastSyncStartedAt
Age(k) ==
  /\ ~st[k].aged
  /\ st' = [st EXCEPT ![k].aged = TRUE]
  /\ UNCHANGED <<world, lib, sync, passes, sweep, migration, faults>>

-----------------------------------------------------------------------------
(* Passes.  A request is refused in maintenance when it comes in; one let in *)
(* before gets to its handler at any time, so the handlers have no such guard. *)

Begin(c, what, keys) ==
  /\ kind[c] = "idle"
  /\ kind' = [kind EXCEPT ![c] = what] /\ todo' = [todo EXCEPT ![c] = keys]
  /\ UNCHANGED <<world, tables, sync, on, sweep, migration, faults>>

\* a tick is skipped in maintenance, not when the one before is under way
Tick(c) ==
  /\ c \in Crons /\ ~Maintenance
  /\ Begin(c, "stale", Keys) /\ UNCHANGED syncAll

\* a minute after the start, maintenance or not
Boot(c) == c \in Crons /\ Begin(c, "stale", Global) /\ UNCHANGED syncAll

\* a subscription run syncs its user first
ForRun(c) == c \in Admins /\ Begin(c, "stale", Own) /\ UNCHANGED syncAll

SyncAll(c) ==
  /\ c \in Admins /\ ~syncAll
  /\ syncAll' = TRUE
  /\ Begin(c, "all", Keys)

Reconcile(c) == c \in Admins /\ Begin(c, "forced", Own) /\ UNCHANGED syncAll

Free(k) == sync[k].pc = "none"

\* refused while isRunning; the sources are looked up between this and the sync
SyncOne(c, k) ==
  /\ c \in Admins /\ Free(k)
  /\ Begin(c, "forced", {k}) /\ UNCHANGED syncAll

\* global sources come before the user's
Turn(c) == IF todo[c] \cap Global # {} THEN todo[c] \cap Global ELSE todo[c]

\* syncSource: join the sync under way or start one; only an unforced one looks at the state
Visit(c, k) ==
  /\ kind[c] # "idle" /\ on[c] = None /\ k \in Turn(c)
  /\ on' = [on EXCEPT ![c] = k] /\ todo' = [todo EXCEPT ![c] = @ \ {k}]
  /\ sync' = IF Free(k)
             THEN [sync EXCEPT ![k] = Step(IF kind[c] = "stale" THEN "check" ELSE "mark")]
             ELSE sync
  /\ UNCHANGED <<world, tables, kind, syncAll, sweep, migration, faults>>

\* mutant: the pass is over without the finally block of its request
PassThrown(c) ==
  /\ kind[c] # "idle" /\ on[c] = None /\ todo[c] # {} /\ Fault
  /\ todo' = [todo EXCEPT ![c] = {}] /\ kind' = [kind EXCEPT ![c] = "idle"]
  /\ UNCHANGED <<world, tables, sync, on, syncAll, sweep, migration>>

\* the sources or the users cannot be read
PassFails(c) ==
  /\ kind[c] # "idle" /\ on[c] = None /\ todo[c] # {} /\ Fault
  /\ todo' = [todo EXCEPT ![c] = {}]
  /\ UNCHANGED <<world, tables, sync, kind, on, syncAll, sweep, migration>>

PassEnds(c) ==
  /\ kind[c] # "idle" /\ on[c] = None /\ todo[c] = {}
  /\ kind' = [kind EXCEPT ![c] = "idle"]
  /\ syncAll' = (syncAll /\ kind[c] # "all")
  /\ UNCHANGED <<world, tables, sync, todo, on, sweep, migration, faults>>

-----------------------------------------------------------------------------
(* A sync of one source. *)

At(k, pc) == sync[k].pc = pc
Goto(k, pc) == sync' = [sync EXCEPT ![k].pc = pc]
Drop(k, pc) == sync' = [sync EXCEPT ![k] = Step(pc)]
Inner == UNCHANGED <<world, passes, sweep, migration>>

\* the promise is settled: inFlight forgets it and those who wait for it go on
End(k) ==
  /\ sync' = [sync EXCEPT ![k] = NoSync]
  /\ on' = [c \in Passes |-> IF on[c] = k THEN None ELSE on[c]]

Fresh(k) == st[k].status = "completed" /\ ~st[k].aged

Check(k) ==
  /\ At(k, "check")
  /\ \/ /\ Fresh(k) /\ End(k) /\ UNCHANGED <<todo, faults>>        \* skipped_fresh
     \/ /\ ~Fresh(k) /\ Goto(k, "mark") /\ UNCHANGED <<on, todo, faults>>
     \/ /\ Fault /\ End(k)                          \* rejects: who waits gives up the rest
        /\ todo' = [c \in Passes |-> IF on[c] = k THEN {} ELSE todo[c]]
  /\ UNCHANGED <<world, tables, kind, syncAll, sweep, migration>>

\* the state row, after recorder.start, whose job row is not modelled; if either call throws it
\* is a Throws at this place
Mark(k) ==
  /\ At(k, "mark")
  /\ st' = [st EXCEPT ![k] = [status |-> "running", src |-> server[k],
                              edits |-> edits[k], aged |-> FALSE]]
  /\ Goto(k, "list")
  /\ Settled /\ UNCHANGED lib /\ Inner

List(k) ==
  /\ At(k, "list")
  /\ sync' = [sync EXCEPT ![k].pc = "prepare", ![k].src = server[k]]
  /\ Settled /\ UNCHANGED tables /\ Inner

\* a shared source has no overrides
Prepare(k) ==
  /\ At(k, "prepare")
  /\ sync' = [sync EXCEPT ![k].pc = "match", ![k].edits = edits[k],
                          ![k].over = IF k \in Own THEN over[k] ELSE NoMatch,
                          ![k].prev = lib[k].match]
  /\ Settled /\ UNCHANGED tables /\ Inner

\* mutant: an artist whose lookup fails is left without a match
Unmatched(k, a) == "none"

\* lookupFailedRow
Previous(k, a) == sync[k].prev[a]

\* reconcileArtist: an override, or else what the source, the cache or MusicBrainz says
Matching(k, a, found, lost) ==
  CASE sync[k].over[a] = "match" -> "user"
    [] sync[k].over[a] = "skip"  -> "none"
    [] OTHER -> IF a \in lost THEN Previous(k, a)
                ELSE IF a \in found THEN "name" ELSE "none"

\* each artist's lookup finds something, nothing, or fails on its own; they are one step, since
\* what they find is kept in memory until Replace
Match(k, found, lost) ==
  /\ At(k, "match") /\ found \cap lost = {}
  /\ lost \subseteq {a \in Artists : sync[k].over[a] = "none"}
  /\ LET m == [a \in Artists |-> Matching(k, a, found, lost)] IN
     sync' = [sync EXCEPT ![k].match = m, ![k].lost = lost,
                ![k].pc = IF k \in Albumed THEN "albums" ELSE "replace",
                ![k].over = NoMatch, ![k].prev = NoMatch,
                ![k].todo = IF k \in Albumed THEN Matched(m) ELSE {}]
  /\ Settled /\ UNCHANGED tables /\ Inner

\* albumQueue: three at a time, in any order
Album(k, a) ==
  /\ At(k, "albums") /\ a \in sync[k].todo
  /\ sync' = [sync EXCEPT ![k].todo = @ \ {a}, ![k].albs = @ \cup {a}]
  /\ Settled /\ UNCHANGED tables /\ Inner

AlbumFails(k, a) ==
  /\ At(k, "albums") /\ a \in sync[k].todo /\ Fault
  /\ sync' = [sync EXCEPT ![k].todo = @ \ {a}]
  /\ UNCHANGED tables /\ Inner

\* mutant: what could be fetched is written
AnyAlbums(k) == TRUE

AllAlbums(k) == sync[k].albs = Matched(sync[k].match)

\* every task has settled; one that failed fails the sync
Albums(k) ==
  /\ At(k, "albums") /\ sync[k].todo = {}
  /\ IF AllAlbums(k) THEN Goto(k, "replace") ELSE Drop(k, "fail")
  /\ Settled /\ UNCHANGED tables /\ Inner

\* replaceLibrarySnapshot or replaceLibraryArtists: one transaction
Replace(k) ==
  /\ At(k, "replace")
  /\ lib' = [lib EXCEPT ![k] = [src |-> sync[k].src, edits |-> sync[k].edits,
                                match |-> sync[k].match,
                                albs |-> IF k \in Albumed THEN sync[k].albs ELSE @.albs]]
  /\ \/ Drop(k, "complete") /\ Settled
     \/ Drop(k, "fail") /\ Fault                     \* committed, no answer
  /\ UNCHANGED st /\ Inner

Complete(k) ==
  /\ At(k, "complete")
  /\ st' = [st EXCEPT ![k].status = "completed"]
  /\ \/ Drop(k, "record") /\ Settled
     \/ Drop(k, "fail") /\ Fault
  /\ UNCHANGED lib /\ Inner

\* recorder.complete
Record(k) ==
  /\ At(k, "record") /\ End(k)
  /\ Settled /\ UNCHANGED <<world, tables, kind, todo, syncAll, sweep, migration>>

\* any await of the try block
Throws(k) ==
  /\ sync[k].pc \notin {"none", "check", "albums", "fail"} /\ Fault
  /\ Drop(k, "fail")
  /\ UNCHANGED tables /\ Inner

\* the catch block; its write is best effort
Fails(k) ==
  /\ At(k, "fail") /\ End(k)
  /\ \/ st' = [st EXCEPT ![k].status = "failed"] /\ Settled
     \/ UNCHANGED st /\ Fault
  /\ UNCHANGED <<world, lib, kind, todo, syncAll, sweep, migration>>

-----------------------------------------------------------------------------
(* The process. *)

Crash ==
  /\ Fault
  /\ sync' = [k \in Keys |-> NoSync]
  /\ kind' = [c \in Passes |-> "idle"] /\ todo' = [c \in Passes |-> {}]
  /\ on' = [c \in Passes |-> None] /\ syncAll' = FALSE
  /\ sweep' = TRUE
  /\ mig' = "off" /\ frozen' = Blank
  /\ target' = Empty
  /\ UNCHANGED <<world, tables>>

\* not awaited at the start: a new sync may be running already
Sweep ==
  /\ sweep /\ sweep' = FALSE
  /\ st' = [k \in Keys |-> IF st[k].status = "running"
                            THEN [st[k] EXCEPT !.status = "failed"] ELSE st[k]]
  /\ UNCHANGED <<world, lib, sync, passes, migration, faults>>

-----------------------------------------------------------------------------
(* A migration. *)

Outside == UNCHANGED <<world, tables, sync, passes, sweep>>

\* POST admin/migrate-backend: nothing waits for the passes under way
Migrate ==
  /\ mig = "off"
  /\ mig' = "preflight"
  /\ Outside /\ UNCHANGED <<frozen, target, faults>>

\* refused, or failed before or in the copy; the transaction on the target is undone
MigrateFails ==
  /\ mig \in {"preflight", "copy"} /\ Fault
  /\ mig' = "off" /\ frozen' = Blank /\ target' = Empty
  /\ Outside

\* repeatable read: the first table it reads fixes what it will see of the others
CopyLibrary ==
  /\ mig = "preflight" /\ mig' = "copy"
  /\ target' = [k \in Keys |-> [target[k] EXCEPT !.lib = lib[k]]]
  /\ frozen' = st
  /\ Outside /\ UNCHANGED faults

\* mutant: read committed
Live(k) == st[k]

Seen(k) == frozen[k]

CopyState ==
  /\ mig = "copy" /\ mig' = "done"
  /\ target' = [k \in Keys |-> [target[k] EXCEPT !.st = Seen(k)]]
  /\ frozen' = Blank
  /\ Outside /\ UNCHANGED faults

MigrateEnds ==
  /\ mig = "done" /\ mig' = "off" /\ target' = Empty
  /\ Outside /\ UNCHANGED <<frozen, faults>>

-----------------------------------------------------------------------------
SyncStep(k) ==
  \/ Check(k) \/ Mark(k) \/ List(k) \/ Prepare(k)
  \/ \E found, lost \in SUBSET Artists : Match(k, found, lost)
  \/ \E a \in Artists : Album(k, a)
  \/ Albums(k) \/ Replace(k) \/ Complete(k) \/ Record(k) \/ Fails(k)

Next ==
  \/ \E k \in Keys : Change(k) \/ Age(k) \/ (\E a \in Artists, o \in Overrides : Edit(k, a, o))
  \/ \E c \in Passes :
       \/ Tick(c) \/ Boot(c) \/ ForRun(c) \/ SyncAll(c) \/ Reconcile(c)
       \/ \E k \in Keys : SyncOne(c, k) \/ Visit(c, k)
       \/ PassFails(c) \/ PassEnds(c)
  \/ \E k \in Keys : SyncStep(k) \/ Throws(k) \/ (\E a \in Artists : AlbumFails(k, a))
  \/ Crash \/ Sweep
  \/ Migrate \/ MigrateFails \/ CopyLibrary \/ CopyState \/ MigrateEnds

Spec == Init /\ [][Next]_vars

-----------------------------------------------------------------------------
(* Properties. *)

\* A row "completed" is about rows that are whole and no older than its start.
Backed(l, s, albumed) ==
  s.status = "completed" =>
    /\ l.src >= s.src /\ l.edits >= s.edits
    /\ albumed => l.albs = Matched(l.match)

\* What the state says completed is what the library holds: read after the
\* start that freshness is counted from, with every matched artist's albums.
CompletedIsTrue == \A k \in Keys : Backed(lib[k], st[k], k \in Albumed)

\* The target of a migration, too, although syncs go on while it is copied.
CopyIsTrue ==
  mig = "done" => \A k \in Keys : Backed(target[k].lib, target[k].st, k \in Albumed)

\* An artist MusicBrainz could not be asked about keeps the match it has.
MatchesKept ==
  [][\A k \in Keys : (At(k, "replace") /\ lib'[k] # lib[k]) =>
       \A a \in sync[k].lost : lib[k].match[a] # "none" => lib'[k].match[a] = lib[k].match[a]]_vars

\* A pass waits for a sync that is under way only, and a request to sync everything
\* is refused as long as one such pass is under way and no longer.
NobodyStuck ==
  /\ \A c \in Passes : on[c] # None => ~Free(on[c])
  /\ syncAll <=> \E c \in Passes : kind[c] = "all"
  /\ \A c, d \in Passes : (kind[c] = "all" /\ kind[d] = "all") => c = d
=============================================================================
