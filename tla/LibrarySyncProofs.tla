------------------------- MODULE LibrarySyncProofs -------------------------
(***************************************************************************)
(* What holds of the library syncs for any sources, artists, passes and    *)
(* number of failures: types, that a state "completed" is backed by the    *)
(* rows, in the target of a migration too, that an outage of MusicBrainz   *)
(* takes no match away, and that no pass waits for nothing.                *)
(***************************************************************************)
EXTENDS LibrarySync, FiniteSetTheorems, TLAPS

-----------------------------------------------------------------------------
(* The inductive invariant. *)

\* The moment a sync started at has been.
Past(k) == st[k].src <= server[k] /\ st[k].edits <= edits[k]

\* A source under sync is not completed until its rows are replaced.
Unfinished(k) ==
  sync[k].pc \in {"list", "prepare", "match", "albums", "replace"} => st[k].status # "completed"

\* What a sync has read is no older than its start.
Recent(k) ==
  /\ sync[k].pc \in {"prepare", "match", "albums", "replace"} => sync[k].src >= st[k].src
  /\ sync[k].pc \in {"match", "albums", "replace"} => sync[k].edits >= st[k].edits

\* Rows about to be written are whole, and those written are.
Whole(k) ==
  /\ (sync[k].pc = "replace" /\ k \in Albumed) => sync[k].albs = Matched(sync[k].match)
  /\ sync[k].pc = "complete" =>
       /\ lib[k].src >= st[k].src /\ lib[k].edits >= st[k].edits
       /\ k \in Albumed => lib[k].albs = Matched(lib[k].match)

\* Until they are replaced, the rows are what the sync took the previous matches from.
Remembered(k) ==
  /\ sync[k].pc = "match" => sync[k].prev = lib[k].match
  /\ sync[k].pc \in {"albums", "replace"} =>
       \A a \in sync[k].lost : sync[k].match[a] = lib[k].match[a]

Row(k) ==
  /\ Past(k) /\ Unfinished(k) /\ Recent(k) /\ Whole(k) /\ Remembered(k)
  /\ Backed(lib[k], st[k], k \in Albumed)

\* The tables a migration sees belong together.
Consistent ==
  mig = "copy" => \A k \in Keys : Backed(target[k].lib, frozen[k], k \in Albumed)

Rowwise == \A k \in Keys : Row(k)
IInv == TypeOK /\ Rowwise /\ Consistent /\ CopyIsTrue /\ NobodyStuck

-----------------------------------------------------------------------------
(* Types. *)

\* The values things begin with.
LEMMA Blanks ==
  /\ NoMatch \in [Artists -> Matches] /\ NoMatch \in [Artists -> Overrides]
  /\ NoRows \in Rows /\ NoState \in States /\ NoSync \in Syncs
  /\ Blank \in [Keys -> States] /\ Empty \in [Keys -> Tables]
<1>1. 0 \in Versions BY LibraryAssumption DEF Versions
<1>2. NoMatch \in [Artists -> Matches] /\ NoMatch \in [Artists -> Overrides]
  BY DEF NoMatch, Matches, Overrides
<1>3. NoRows \in Rows BY <1>1, <1>2 DEF NoRows, Rows
<1>4. NoState \in States BY <1>1 DEF NoState, States
<1>5. NoSync \in Syncs BY <1>1, <1>2 DEF NoSync, Syncs, Steps
<1>6. Blank \in [Keys -> States] BY <1>4 DEF Blank
<1>7. Empty \in [Keys -> Tables] BY <1>3, <1>4 DEF Empty, Tables
<1> QED BY <1>2, <1>3, <1>4, <1>5, <1>6, <1>7

\* The first state is well typed.
LEMMA InitTyped == Init => TypeOK
<1> SUFFICES ASSUME Init PROVE TypeOK OBVIOUS
<1>1. 0 \in Versions BY LibraryAssumption DEF Versions
<1>2. server \in [Keys -> Versions] /\ edits \in [Keys -> Versions] BY <1>1 DEF Init
<1>3. over \in [Keys -> [Artists -> Overrides]] BY Blanks DEF Init
<1>4. lib \in [Keys -> Rows] /\ st \in [Keys -> States] /\ sync \in [Keys -> Syncs]
  BY Blanks DEF Init
<1>5. frozen \in [Keys -> States] /\ target \in [Keys -> Tables] BY Blanks DEF Init
<1>6. faults \in 0 .. MaxFaults BY LibraryAssumption DEF Init
<1> QED BY <1>2, <1>3, <1>4, <1>5, <1>6 DEF Init, TypeOK, Kinds

\* The record of one sync may be replaced by any other.
LEMMA SyncTyped ==
  ASSUME TypeOK, NEW k \in Keys, NEW r \in Syncs, sync' = [sync EXCEPT ![k] = r]
  PROVE  sync' \in [Keys -> Syncs]
BY DEF TypeOK

\* A sync that has read nothing, at any of its steps.
LEMMA StepTyped ==
  ASSUME NEW pc \in Steps
  PROVE  Step(pc) \in Syncs /\ NoSync \in Syncs
BY Blanks DEF Step, Syncs

\* A sync may forget what it has read,
LEMMA DropTyped ==
  ASSUME TypeOK, NEW k \in Keys, NEW pc \in Steps, Drop(k, pc)
  PROVE  sync' \in [Keys -> Syncs]
BY StepTyped, SyncTyped DEF Drop

\* or keep it and go on,
LEMMA GotoTyped ==
  ASSUME TypeOK, NEW k \in Keys, NEW pc \in Steps, Goto(k, pc)
  PROVE  sync' \in [Keys -> Syncs]
<1>0. sync[k] \in Syncs BY DEF TypeOK
<1>1. [sync[k] EXCEPT !.pc = pc] \in Syncs BY <1>0 DEF Syncs
<1>2. sync' = [sync EXCEPT ![k] = [sync[k] EXCEPT !.pc = pc]] BY DEF Goto
<1> QED BY <1>1, <1>2, SyncTyped

\* or end, and let go whoever waits for it.
LEMMA EndTyped ==
  ASSUME TypeOK, NEW k \in Keys, End(k)
  PROVE  sync' \in [Keys -> Syncs] /\ on' \in [Passes -> Keys \cup {None}]
<1>1. NoSync \in Syncs BY StepTyped DEF Steps
<1>2. sync' \in [Keys -> Syncs] BY <1>1, SyncTyped DEF End
<1>3. on' \in [Passes -> Keys \cup {None}] BY DEF End, TypeOK
<1> QED BY <1>2, <1>3

\* Faults are counted up to the bound.
LEMMA FaultTyped == TypeOK /\ (Fault \/ Settled) => faults' \in 0 .. MaxFaults
BY LibraryAssumption DEF TypeOK, Fault, Settled

\* The record of one row may be replaced by any other.
LEMMA StateTyped ==
  ASSUME TypeOK, NEW k \in Keys, NEW r \in States, st' = [st EXCEPT ![k] = r]
  PROVE  st' \in [Keys -> States]
BY DEF TypeOK

\* What the users, the sources and the passes do leaves every type.
LEMMA OutsideTyped ==
  ASSUME TypeOK,
         \/ \E k \in Keys : Change(k) \/ Age(k) \/ (\E a \in Artists, o \in Overrides : Edit(k, a, o))
         \/ \E c \in Passes :
              \/ Tick(c) \/ Boot(c) \/ ForRun(c) \/ SyncAll(c) \/ Reconcile(c)
              \/ \E k \in Keys : SyncOne(c, k) \/ Visit(c, k)
              \/ PassFails(c) \/ PassEnds(c)
  PROVE  TypeOK'
<1> USE DEF world, tables, passes, migration
<1>1. ASSUME NEW k \in Keys, Change(k) PROVE TypeOK'
  <2>1. server[k] \in Nat /\ edits[k] \in Nat BY DEF TypeOK, Versions
  <2>2. server[k] + 1 \in Versions BY <1>1, <2>1, LibraryAssumption DEF Change, Versions
  <2>3. server' \in [Keys -> Versions] BY <1>1, <2>2 DEF Change, TypeOK
  <2> QED BY <1>1, <2>3 DEF Change, TypeOK
<1>2. ASSUME NEW k \in Keys, Age(k) PROVE TypeOK'
  <2>0. st[k] \in States BY DEF TypeOK
  <2>1. [st[k] EXCEPT !.aged = TRUE] \in States BY <2>0 DEF States
  <2>2. st' = [st EXCEPT ![k] = [st[k] EXCEPT !.aged = TRUE]] BY <1>2 DEF Age
  <2>3. st' \in [Keys -> States] BY <2>1, <2>2, StateTyped
  <2> QED BY <1>2, <2>3 DEF Age, TypeOK
<1>3. ASSUME NEW k \in Keys, NEW a \in Artists, NEW o \in Overrides, Edit(k, a, o) PROVE TypeOK'
  <2>1. server[k] \in Nat /\ edits[k] \in Nat BY DEF TypeOK, Versions
  <2>2. edits[k] + 1 \in Versions BY <1>3, <2>1, LibraryAssumption DEF Edit, Versions
  <2>3. edits' \in [Keys -> Versions] BY <1>3, <2>2 DEF Edit, TypeOK
  <2>4. over' \in [Keys -> [Artists -> Overrides]] BY <1>3 DEF Edit, TypeOK
  <2> QED BY <1>3, <2>3, <2>4 DEF Edit, TypeOK
<1>4. ASSUME NEW c \in Passes, NEW what \in Kinds, NEW keys \in SUBSET Keys, Begin(c, what, keys),
             syncAll' \in BOOLEAN
      PROVE  TypeOK'
  BY <1>4 DEF Begin, TypeOK
<1>5. ASSUME NEW c \in Passes, Tick(c) \/ Boot(c) \/ ForRun(c) \/ SyncAll(c) \/ Reconcile(c) PROVE TypeOK'
  <2>1. Own \in SUBSET Keys /\ Global \in SUBSET Keys /\ Keys \in SUBSET Keys BY DEF Keys
  <2>2. syncAll' \in BOOLEAN BY <1>5 DEF Tick, Boot, ForRun, SyncAll, Reconcile, TypeOK
  <2> QED BY <1>4, <1>5, <2>1, <2>2 DEF Tick, Boot, ForRun, SyncAll, Reconcile, Kinds
<1>6. ASSUME NEW c \in Passes, NEW k \in Keys, SyncOne(c, k) PROVE TypeOK'
  <2>1. syncAll' \in BOOLEAN BY <1>6 DEF SyncOne, TypeOK
  <2> QED BY <1>4, <1>6, <2>1 DEF SyncOne, Kinds
<1>7. ASSUME NEW c \in Passes, NEW k \in Keys, Visit(c, k) PROVE TypeOK'
  <2>1. PICK pc \in Steps : sync' = [sync EXCEPT ![k] = Step(pc)] \/ sync' = sync
    BY <1>7 DEF Visit, Steps
  <2>2. sync' \in [Keys -> Syncs] BY <2>1, SyncTyped, StepTyped DEF TypeOK
  <2>3. on' \in [Passes -> Keys \cup {None}] /\ todo' \in [Passes -> SUBSET Keys]
    BY <1>7 DEF Visit, TypeOK
  <2> QED BY <1>7, <2>2, <2>3 DEF Visit, TypeOK
<1>8. ASSUME NEW c \in Passes, PassFails(c) PROVE TypeOK'
  BY <1>8, FaultTyped DEF PassFails, TypeOK
<1>9. ASSUME NEW c \in Passes, PassEnds(c) PROVE TypeOK'
  BY <1>9 DEF PassEnds, TypeOK, Kinds
<1> QED BY <1>1, <1>2, <1>3, <1>5, <1>6, <1>7, <1>8, <1>9

\* So do the steps of a sync.
LEMMA SyncStepTyped ==
  ASSUME TypeOK, NEW k \in Keys,
         SyncStep(k) \/ Throws(k) \/ (\E a \in Artists : AlbumFails(k, a))
  PROVE  TypeOK'
<1> USE DEF world, tables, passes, migration, Inner
<1>t. sync[k] \in Syncs /\ st[k] \in States /\ lib[k] \in Rows BY DEF TypeOK
<1>0. ASSUME Inner, UNCHANGED tables, Fault \/ Settled, sync' \in [Keys -> Syncs] PROVE TypeOK'
  BY <1>0, FaultTyped DEF TypeOK
<1>1. CASE Check(k)
  <2>1. faults' \in 0 .. MaxFaults BY <1>1, FaultTyped DEF Check, Settled
  <2>2. sync' \in [Keys -> Syncs] BY <1>1, EndTyped, GotoTyped DEF Check, Steps
  <2>3. on' \in [Passes -> Keys \cup {None}] BY <1>1, EndTyped DEF Check, TypeOK
  <2>4. todo' \in [Passes -> SUBSET Keys] BY <1>1 DEF Check, TypeOK
  <2> QED BY <1>1, <2>1, <2>2, <2>3, <2>4 DEF Check, TypeOK
<1>2. CASE Mark(k)
  <2>1. [status |-> "running", src |-> server[k], edits |-> edits[k], aged |-> FALSE] \in States
    BY DEF TypeOK, States
  <2>2. st' \in [Keys -> States] BY <1>2, <2>1, StateTyped DEF Mark
  <2>3. sync' \in [Keys -> Syncs] BY <1>2, GotoTyped DEF Mark, Steps
  <2> QED BY <1>2, <2>2, <2>3 DEF Mark, TypeOK, Settled
<1>3. CASE List(k)
  <2>1. [sync[k] EXCEPT !.pc = "prepare", !.src = server[k]] \in Syncs
    BY <1>t DEF TypeOK, Syncs, Steps
  <2>2. sync' = [sync EXCEPT ![k] = [sync[k] EXCEPT !.pc = "prepare", !.src = server[k]]]
    BY <1>3 DEF List
  <2> QED BY <1>0, <1>3, <2>1, <2>2, SyncTyped DEF List
<1>4. CASE Prepare(k)
  <2> DEFINE ov == IF k \in Own THEN over[k] ELSE NoMatch
             r == [sync[k] EXCEPT !.pc = "match", !.edits = edits[k], !.over = ov,
                                  !.prev = lib[k].match]
  <2>1. ov \in [Artists -> Overrides] BY Blanks DEF TypeOK
  <2>2. lib[k].match \in [Artists -> Matches] BY <1>t DEF Rows
  <2>3. r \in Syncs BY <1>t, <2>1, <2>2 DEF TypeOK, Syncs, Steps
  <2>4. sync' = [sync EXCEPT ![k] = r] BY <1>4 DEF Prepare
  <2>5. sync' \in [Keys -> Syncs] BY <2>3, <2>4, SyncTyped
  <2> QED BY <1>0, <1>4, <2>5 DEF Prepare
<1>5. ASSUME NEW found \in SUBSET Artists, NEW lost \in SUBSET Artists, Match(k, found, lost)
      PROVE  TypeOK'
  <2> DEFINE m == [a \in Artists |-> Matching(k, a, found, lost)]
             r == [sync[k] EXCEPT !.match = m, !.lost = lost,
                     !.pc = IF k \in Albumed THEN "albums" ELSE "replace",
                     !.over = NoMatch, !.prev = NoMatch,
                     !.todo = IF k \in Albumed THEN Matched(m) ELSE {}]
  <2>1. ASSUME NEW a \in Artists PROVE Matching(k, a, found, lost) \in Matches
    BY <1>t DEF Matching, Previous, Matches, Syncs
  <2>2. m \in [Artists -> Matches] BY <2>1
  <2>3. Matched(m) \in SUBSET Artists BY DEF Matched
  <2>4. r \in Syncs BY <1>t, <2>2, <2>3, Blanks DEF Syncs, Steps
  <2>5. sync' = [sync EXCEPT ![k] = r] BY <1>5 DEF Match
  <2>6. sync' \in [Keys -> Syncs] BY <2>4, <2>5, SyncTyped
  <2> QED BY <1>0, <1>5, <2>6 DEF Match
<1>6. ASSUME NEW a \in Artists, Album(k, a) \/ AlbumFails(k, a) PROVE TypeOK'
  <2>1. PICK x \in SUBSET Artists :
          sync' = [sync EXCEPT ![k] = [sync[k] EXCEPT !.todo = @ \ {a}, !.albs = x]]
    <3>1. CASE Album(k, a)
      <4>1. sync[k].albs \cup {a} \in SUBSET Artists BY <1>t DEF Syncs
      <4> QED BY <3>1, <4>1 DEF Album
    <3>2. CASE AlbumFails(k, a)
      <4>1. sync[k].albs \in SUBSET Artists BY <1>t DEF Syncs
      <4>2. [sync[k] EXCEPT !.todo = @ \ {a}, !.albs = sync[k].albs] = [sync[k] EXCEPT !.todo = @ \ {a}]
        BY <1>t DEF Syncs
      <4> QED BY <3>2, <4>1, <4>2 DEF AlbumFails
    <3> QED BY <1>6, <3>1, <3>2
  <2>2. [sync[k] EXCEPT !.todo = @ \ {a}, !.albs = x] \in Syncs BY <1>t DEF Syncs
  <2>3. sync' \in [Keys -> Syncs] BY <2>1, <2>2, SyncTyped
  <2> QED BY <1>0, <1>6, <2>3 DEF Album, AlbumFails
<1>7. CASE Albums(k)
  <2>1. sync' \in [Keys -> Syncs] BY <1>7, DropTyped, GotoTyped DEF Albums, Steps
  <2> QED BY <1>0, <1>7, <2>1 DEF Albums
<1>8. CASE Replace(k)
  <2>1. sync' \in [Keys -> Syncs] BY <1>8, DropTyped DEF Replace, Steps
  <2>2. lib' \in [Keys -> Rows] BY <1>8, <1>t DEF Replace, TypeOK, Rows, Syncs
  <2>3. faults' \in 0 .. MaxFaults BY <1>8, FaultTyped DEF Replace
  <2> QED BY <1>8, <2>1, <2>2, <2>3 DEF Replace, TypeOK
<1>9. CASE Complete(k)
  <2>1. sync' \in [Keys -> Syncs] BY <1>9, DropTyped DEF Complete, Steps
  <2>2. [st[k] EXCEPT !.status = "completed"] \in States BY <1>t DEF States
  <2>3. st' = [st EXCEPT ![k] = [st[k] EXCEPT !.status = "completed"]] BY <1>9 DEF Complete
  <2>4. st' \in [Keys -> States] BY <2>2, <2>3, StateTyped
  <2>5. faults' \in 0 .. MaxFaults BY <1>9, FaultTyped DEF Complete
  <2> QED BY <1>9, <2>1, <2>4, <2>5 DEF Complete, TypeOK
<1>10. CASE Record(k)
  BY <1>10, EndTyped DEF Record, TypeOK, Settled
<1>11. CASE Throws(k)
  <2>1. sync' \in [Keys -> Syncs] BY <1>11, DropTyped DEF Throws, Steps
  <2> QED BY <1>0, <1>11, <2>1 DEF Throws
<1>12. CASE Fails(k)
  <2>1. [st[k] EXCEPT !.status = "failed"] \in States BY <1>t DEF States
  <2>2. st' = [st EXCEPT ![k] = [st[k] EXCEPT !.status = "failed"]] \/ UNCHANGED st
    BY <1>12 DEF Fails
  <2>3. st' \in [Keys -> States] BY <2>1, <2>2, StateTyped DEF TypeOK
  <2>4. faults' \in 0 .. MaxFaults BY <1>12, FaultTyped DEF Fails
  <2>5. sync' \in [Keys -> Syncs] /\ on' \in [Passes -> Keys \cup {None}] BY <1>12, EndTyped DEF Fails
  <2> QED BY <1>12, <2>3, <2>4, <2>5 DEF Fails, TypeOK
<1> QED BY <1>1, <1>2, <1>3, <1>4, <1>5, <1>6, <1>7, <1>8, <1>9, <1>10, <1>11, <1>12 DEF SyncStep

\* So do the process and the migration.
LEMMA RestTyped ==
  ASSUME TypeOK,
         \/ Crash \/ Sweep
         \/ Migrate \/ MigrateFails \/ CopyLibrary \/ CopyState \/ MigrateEnds
  PROVE  TypeOK'
<1> USE DEF world, tables, passes, migration, Outside
<1>1. CASE Crash BY <1>1, Blanks, FaultTyped DEF Crash, TypeOK, Kinds
<1>2. CASE Sweep
  <2>1. ASSUME NEW k \in Keys PROVE [st[k] EXCEPT !.status = "failed"] \in States /\ st[k] \in States
    <3>1. st[k] \in States BY DEF TypeOK
    <3> QED BY <3>1 DEF States
  <2>2. st' \in [Keys -> States] BY <1>2, <2>1 DEF Sweep
  <2> QED BY <1>2, <2>2 DEF Sweep, TypeOK
<1>3. CASE Migrate BY <1>3 DEF Migrate, TypeOK
<1>4. CASE MigrateFails BY <1>4, Blanks, FaultTyped DEF MigrateFails, TypeOK
<1>5. CASE CopyLibrary
  <2>1. ASSUME NEW k \in Keys PROVE [target[k] EXCEPT !.lib = lib[k]] \in Tables
    BY DEF TypeOK, Tables
  <2>2. target' \in [Keys -> Tables] BY <1>5, <2>1 DEF CopyLibrary
  <2> QED BY <1>5, <2>2 DEF CopyLibrary, TypeOK
<1>6. CASE CopyState
  <2>1. ASSUME NEW k \in Keys PROVE [target[k] EXCEPT !.st = Seen(k)] \in Tables
    BY DEF TypeOK, Tables, Seen
  <2>2. target' \in [Keys -> Tables] BY <1>6, <2>1 DEF CopyState
  <2> QED BY <1>6, <2>2, Blanks DEF CopyState, TypeOK
<1>7. CASE MigrateEnds BY <1>7, Blanks DEF MigrateEnds, TypeOK
<1> QED BY <1>1, <1>2, <1>3, <1>4, <1>5, <1>6, <1>7

\* Together: every step.
LEMMA TypeStep ==
  ASSUME TypeOK, [Next]_vars
  PROVE  TypeOK'
<1>1. CASE UNCHANGED vars
  BY <1>1 DEF vars, world, tables, passes, migration, TypeOK
<1>2. CASE Next
  BY <1>2, OutsideTyped, SyncStepTyped, RestTyped DEF Next
<1> QED BY <1>1, <1>2

-----------------------------------------------------------------------------
(* The rows of a key. *)

\* The values the arithmetic is about.
LEMMA Numbers ==
  ASSUME TypeOK, NEW k \in Keys
  PROVE  /\ server[k] \in Nat /\ edits[k] \in Nat
         /\ st[k].src \in Nat /\ st[k].edits \in Nat
         /\ lib[k].src \in Nat /\ lib[k].edits \in Nat
         /\ sync[k].src \in Nat /\ sync[k].edits \in Nat
<1>1. st[k] \in States /\ lib[k] \in Rows /\ sync[k] \in Syncs BY DEF TypeOK
<1>2. server[k] \in Versions /\ edits[k] \in Versions BY DEF TypeOK
<1> QED BY <1>1, <1>2, LibraryAssumption DEF States, Rows, Syncs, Versions

\* Sources and overrides only move forward: a row that is not written stays true.
LEMMA RowStays ==
  ASSUME TypeOK, TypeOK', NEW j \in Keys, Row(j),
         st'[j] = st[j], lib'[j] = lib[j], sync'[j] = sync[j],
         server'[j] >= server[j], edits'[j] >= edits[j]
  PROVE  Row(j)'
<1>1. server[j] \in Nat /\ edits[j] \in Nat /\ st[j].src \in Nat /\ st[j].edits \in Nat BY Numbers
<1>2. server'[j] \in Nat /\ edits'[j] \in Nat
  <2>1. server'[j] \in Versions /\ edits'[j] \in Versions BY DEF TypeOK
  <2> QED BY <2>1, LibraryAssumption DEF Versions
<1>3. Past(j)' BY <1>1, <1>2 DEF Row, Past
<1>4. Unfinished(j)' /\ Recent(j)' /\ Whole(j)' /\ Remembered(j)'
  BY DEF Row, Unfinished, Recent, Whole, Remembered
<1> QED BY <1>3, <1>4 DEF Row

\* A step that writes about one key only has that key's row to keep.
LEMMA OneRow ==
  ASSUME TypeOK, TypeOK', Rowwise, NEW k \in Keys, UNCHANGED world, Row(k)',
         \A j \in Keys : j # k => st'[j] = st[j] /\ lib'[j] = lib[j] /\ sync'[j] = sync[j]
  PROVE  Rowwise'
<1>1. ASSUME NEW j \in Keys, j # k PROVE Row(j)'
  <2>1. server[j] \in Nat /\ edits[j] \in Nat BY Numbers
  <2>2. server'[j] >= server[j] /\ edits'[j] >= edits[j] BY <2>1 DEF world
  <2> QED BY <1>1, <2>2, RowStays DEF Rowwise
<1> QED BY <1>1 DEF Rowwise

\* A sync that ends or fails holds nothing more.
LEMMA RowDropped ==
  ASSUME TypeOK, NEW k \in Keys, Row(k), UNCHANGED <<world, tables>>,
         sync'[k].pc \in {"none", "check", "mark", "record", "fail"}
  PROVE  Row(k)'
<1> USE DEF world, tables
<1>1. Past(k)' BY DEF Row, Past
<1>2. Unfinished(k)' /\ Recent(k)' /\ Whole(k)' /\ Remembered(k)'
  BY DEF Unfinished, Recent, Whole, Remembered
<1> QED BY <1>1, <1>2 DEF Row

\* A step keeps what is known of each key: the sync's reading, its row and its rows.
LEMMA RowwiseStep ==
  ASSUME TypeOK, TypeOK', Rowwise, [Next]_vars
  PROVE  Rowwise'
<1> USE DEF world, tables, passes, migration
<1>0. ASSUME UNCHANGED <<lib, st, sync, server, edits>> PROVE Rowwise'
  <2>1. ASSUME NEW j \in Keys PROVE Row(j)'
    <3>1. server[j] \in Nat /\ edits[j] \in Nat BY Numbers
    <3>2. server'[j] >= server[j] /\ edits'[j] >= edits[j] BY <1>0, <3>1
    <3> QED BY <1>0, <3>2, RowStays DEF Rowwise
  <2> QED BY <2>1 DEF Rowwise
<1>1. ASSUME NEW k \in Keys, Change(k) \/ (\E a \in Artists, o \in Overrides : Edit(k, a, o))
      PROVE  Rowwise'
  <2>1. ASSUME NEW j \in Keys PROVE Row(j)'
    <3>1. server[j] \in Nat /\ edits[j] \in Nat BY Numbers
    <3>2. server'[j] = server[j] \/ server'[j] = server[j] + 1 BY <1>1 DEF Change, Edit, TypeOK
    <3>3. edits'[j] = edits[j] \/ edits'[j] = edits[j] + 1 BY <1>1 DEF Change, Edit, TypeOK
    <3>4. server'[j] >= server[j] /\ edits'[j] >= edits[j] BY <3>1, <3>2, <3>3
    <3>5. UNCHANGED <<lib, st, sync>> BY <1>1 DEF Change, Edit
    <3> QED BY <3>4, <3>5, RowStays DEF Rowwise
  <2> QED BY <2>1 DEF Rowwise
<1>2. ASSUME NEW k \in Keys, Age(k) PROVE Rowwise'
  <2>1. st'[k] = [st[k] EXCEPT !.aged = TRUE] BY <1>2 DEF Age, TypeOK
  <2>2. st[k] \in States BY DEF TypeOK
  <2>3. /\ st'[k].src = st[k].src /\ st'[k].edits = st[k].edits
        /\ st'[k].status = st[k].status
    BY <2>1, <2>2 DEF States
  <2>4. UNCHANGED <<world, lib, sync>> BY <1>2 DEF Age
  <2>5. Row(k) BY DEF Rowwise
  <2>6. Row(k)'
    BY <2>3, <2>4, <2>5 DEF Row, Past, Unfinished, Recent, Whole, Remembered, Backed
  <2>7. \A j \in Keys : j # k => st'[j] = st[j] BY <1>2 DEF Age, TypeOK
  <2> QED BY <2>4, <2>6, <2>7, OneRow
<1>3. ASSUME NEW c \in Passes, Tick(c) \/ Boot(c) \/ ForRun(c) \/ SyncAll(c) \/ Reconcile(c)
      PROVE  Rowwise'
  BY <1>0, <1>3 DEF Tick, Boot, ForRun, SyncAll, Reconcile, Begin
<1>4. ASSUME NEW c \in Passes, PassFails(c) \/ PassEnds(c) \/ (\E k \in Keys : SyncOne(c, k))
      PROVE  Rowwise'
  BY <1>0, <1>4 DEF PassFails, PassEnds, SyncOne, Begin
<1>5. ASSUME NEW c \in Passes, NEW k \in Keys, Visit(c, k) PROVE Rowwise'
  <2>1. UNCHANGED <<world, tables>> BY <1>5 DEF Visit
  <2>2. CASE Free(k)
    <3>1. sync'[k] = Step("check") \/ sync'[k] = Step("mark") BY <1>5, <2>2 DEF Visit, TypeOK
    <3>2. sync'[k].pc \in {"check", "mark"} BY <3>1 DEF Step, NoSync
    <3>3. Row(k)' BY <2>1, <3>2, RowDropped DEF Rowwise
    <3>4. \A j \in Keys : j # k => sync'[j] = sync[j] BY <1>5, <2>2 DEF Visit, TypeOK
    <3> QED BY <2>1, <3>3, <3>4, OneRow
  <2>3. CASE ~Free(k) BY <1>0, <1>5, <2>1, <2>3 DEF Visit
  <2> QED BY <2>2, <2>3
<1>6. ASSUME NEW k \in Keys, SyncStep(k) \/ Throws(k) \/ (\E a \in Artists : AlbumFails(k, a))
      PROVE  Rowwise'
  <2> USE DEF Inner
  <2>t. sync[k] \in Syncs /\ st[k] \in States /\ lib[k] \in Rows BY DEF TypeOK
  <2>n. /\ server[k] \in Nat /\ edits[k] \in Nat /\ st[k].src \in Nat /\ st[k].edits \in Nat
        /\ sync[k].src \in Nat /\ sync[k].edits \in Nat
    BY Numbers
  <2>r. Row(k) BY DEF Rowwise
  <2>w. UNCHANGED world
    <3>1. CASE Check(k) \/ Mark(k) \/ List(k) \/ Prepare(k) BY <3>1 DEF Check, Mark, List, Prepare
    <3>2. ASSUME NEW found \in SUBSET Artists, NEW lost \in SUBSET Artists, Match(k, found, lost)
          PROVE  UNCHANGED world
      BY <3>2 DEF Match
    <3>3. ASSUME NEW a \in Artists, Album(k, a) \/ AlbumFails(k, a) PROVE UNCHANGED world
      BY <3>3 DEF Album, AlbumFails
    <3>4. CASE Albums(k) \/ Replace(k) \/ Complete(k) BY <3>4 DEF Albums, Replace, Complete
    <3>5. CASE Record(k) \/ Fails(k) \/ Throws(k) BY <3>5 DEF Record, Fails, Throws
    <3> QED BY <1>6, <3>1, <3>2, <3>3, <3>4, <3>5 DEF SyncStep
  <2>j. \A j \in Keys : j # k => st'[j] = st[j] /\ lib'[j] = lib[j] /\ sync'[j] = sync[j]
    <3>1. CASE Check(k) BY <3>1 DEF Check, End, Goto, TypeOK
    <3>2. CASE Mark(k) BY <3>2 DEF Mark, Goto, TypeOK
    <3>3. CASE List(k) BY <3>3 DEF List, TypeOK
    <3>4. CASE Prepare(k) BY <3>4 DEF Prepare, TypeOK
    <3>5. ASSUME NEW found \in SUBSET Artists, NEW lost \in SUBSET Artists, Match(k, found, lost)
          PROVE  \A j \in Keys : j # k => st'[j] = st[j] /\ lib'[j] = lib[j] /\ sync'[j] = sync[j]
      BY <3>5 DEF Match, TypeOK
    <3>6. ASSUME NEW a \in Artists, Album(k, a) \/ AlbumFails(k, a)
          PROVE  \A j \in Keys : j # k => st'[j] = st[j] /\ lib'[j] = lib[j] /\ sync'[j] = sync[j]
      BY <3>6 DEF Album, AlbumFails, TypeOK
    <3>7. CASE Albums(k) BY <3>7 DEF Albums, Goto, Drop, TypeOK
    <3>8. CASE Replace(k) BY <3>8 DEF Replace, Drop, TypeOK
    <3>9. CASE Complete(k) BY <3>9 DEF Complete, Drop, TypeOK
    <3>10. CASE Record(k) BY <3>10 DEF Record, End, TypeOK
    <3>11. CASE Throws(k) BY <3>11 DEF Throws, Drop, TypeOK
    <3>12. CASE Fails(k) BY <3>12 DEF Fails, End, TypeOK
    <3> QED BY <1>6, <3>1, <3>2, <3>3, <3>4, <3>5, <3>6, <3>7, <3>8, <3>9, <3>10, <3>11, <3>12 DEF SyncStep
  <2> SUFFICES Row(k)' BY <2>w, <2>j, OneRow
  <2>1. CASE Check(k)
    <3>1. sync'[k].pc \in {"none", "mark"} BY <2>1, <2>t DEF Check, End, Goto, NoSync, TypeOK, Syncs
    <3> QED BY <2>1, <2>r, <3>1, RowDropped DEF Check
  <2>2. CASE Mark(k)
    <3>1. /\ st'[k].src = server[k] /\ st'[k].edits = edits[k] /\ st'[k].status = "running"
      BY <2>2 DEF Mark, TypeOK
    <3>2. sync'[k].pc = "list" BY <2>2, <2>t DEF Mark, Goto, TypeOK, Syncs
    <3>3. Past(k)' BY <2>n, <2>w, <3>1 DEF Past
    <3> QED BY <3>1, <3>2, <3>3 DEF Row, Unfinished, Recent, Whole, Remembered, Backed
  <2>3. CASE List(k)
    <3>1. sync'[k] = [sync[k] EXCEPT !.pc = "prepare", !.src = server[k]] BY <2>3 DEF List, TypeOK
    <3>2. sync'[k].pc = "prepare" /\ sync'[k].src = server[k] BY <2>t, <3>1 DEF Syncs
    <3>3. UNCHANGED <<lib, st>> /\ sync[k].pc = "list" BY <2>3 DEF List, At
    <3>4. sync'[k].src >= st'[k].src BY <2>n, <2>r, <3>2, <3>3 DEF Row, Past
    <3> QED BY <2>r, <2>w, <3>2, <3>3, <3>4 DEF Row, Past, Unfinished, Recent, Whole, Remembered
  <2>4. CASE Prepare(k)
    <3>1. sync'[k] = [sync[k] EXCEPT !.pc = "match", !.edits = edits[k],
                        !.over = IF k \in Own THEN over[k] ELSE NoMatch, !.prev = lib[k].match]
      BY <2>4 DEF Prepare, TypeOK
    <3>2. /\ sync'[k].pc = "match" /\ sync'[k].edits = edits[k] /\ sync'[k].src = sync[k].src
          /\ sync'[k].prev = lib[k].match
      BY <2>t, <3>1 DEF Syncs
    <3>3. UNCHANGED <<lib, st>> /\ sync[k].pc = "prepare" BY <2>4 DEF Prepare, At
    <3>4. sync'[k].edits >= st'[k].edits BY <2>n, <2>r, <3>2, <3>3 DEF Row, Past
    <3> QED BY <2>r, <2>w, <3>2, <3>3, <3>4 DEF Row, Past, Unfinished, Recent, Whole, Remembered
  <2>5. ASSUME NEW found \in SUBSET Artists, NEW lost \in SUBSET Artists, Match(k, found, lost)
        PROVE  Row(k)'
    <3> DEFINE m == [a \in Artists |-> Matching(k, a, found, lost)]
    <3>1. sync'[k] = [sync[k] EXCEPT !.match = m, !.lost = lost,
                        !.pc = IF k \in Albumed THEN "albums" ELSE "replace",
                        !.over = NoMatch, !.prev = NoMatch,
                        !.todo = IF k \in Albumed THEN Matched(m) ELSE {}]
      BY <2>5 DEF Match, TypeOK
    <3>2. /\ sync'[k].pc = IF k \in Albumed THEN "albums" ELSE "replace"
          /\ sync'[k].match = m /\ sync'[k].lost = lost
          /\ sync'[k].src = sync[k].src /\ sync'[k].edits = sync[k].edits
      BY <2>t, <3>1 DEF Syncs
    <3>3. UNCHANGED <<lib, st>> /\ sync[k].pc = "match" BY <2>5 DEF Match, At
    <3>4. ASSUME NEW a \in lost PROVE m[a] = lib[k].match[a]
      <4>1. a \in Artists /\ sync[k].over[a] = "none" BY <2>5 DEF Match
      <4>2. m[a] = sync[k].prev[a] BY <4>1 DEF Matching, Previous
      <4> QED BY <2>r, <3>3, <4>2 DEF Row, Remembered
    <3>5. Remembered(k)' BY <3>2, <3>3, <3>4 DEF Remembered
    <3>6. Past(k)' /\ Unfinished(k)' /\ Recent(k)'
      BY <2>r, <2>w, <3>2, <3>3 DEF Row, Past, Unfinished, Recent
    <3>7. Whole(k)' BY <3>2 DEF Whole
    <3> QED BY <2>r, <3>3, <3>5, <3>6, <3>7 DEF Row
  <2>6. ASSUME NEW a \in Artists, Album(k, a) \/ AlbumFails(k, a) PROVE Row(k)'
    <3>1. /\ sync'[k].pc = "albums" /\ sync'[k].match = sync[k].match /\ sync'[k].lost = sync[k].lost
          /\ sync'[k].src = sync[k].src /\ sync'[k].edits = sync[k].edits
      BY <2>6, <2>t DEF Album, AlbumFails, At, TypeOK, Syncs
    <3>2. UNCHANGED <<lib, st>> /\ sync[k].pc = "albums" BY <2>6 DEF Album, AlbumFails, At
    <3> QED BY <2>r, <2>w, <3>1, <3>2 DEF Row, Past, Unfinished, Recent, Whole, Remembered
  <2>7. CASE Albums(k)
    <3>1. UNCHANGED <<lib, st>> /\ sync[k].pc = "albums" BY <2>7 DEF Albums, At
    <3>2. CASE AllAlbums(k)
      <4>1. sync'[k] = [sync[k] EXCEPT !.pc = "replace"] BY <2>7, <3>2 DEF Albums, Goto, TypeOK
      <4>2. /\ sync'[k].pc = "replace" /\ sync'[k].match = sync[k].match /\ sync'[k].lost = sync[k].lost
            /\ sync'[k].src = sync[k].src /\ sync'[k].edits = sync[k].edits
            /\ sync'[k].albs = sync[k].albs
        BY <2>t, <4>1 DEF Syncs
      <4> QED BY <2>r, <2>w, <3>1, <3>2, <4>2
              DEF Row, Past, Unfinished, Recent, Whole, Remembered, AllAlbums
    <3>3. CASE ~AllAlbums(k)
      <4>1. sync'[k].pc = "fail" BY <2>7, <3>3 DEF Albums, Drop, Step, NoSync, TypeOK
      <4> QED BY <2>r, <2>w, <3>1, <4>1, RowDropped
    <3> QED BY <3>2, <3>3
  <2>8. CASE Replace(k)
    <3>1. sync[k].pc = "replace" /\ UNCHANGED st BY <2>8 DEF Replace, At
    <3>2. /\ lib'[k].src = sync[k].src /\ lib'[k].edits = sync[k].edits
          /\ lib'[k].match = sync[k].match
          /\ k \in Albumed => lib'[k].albs = sync[k].albs
      BY <2>8 DEF Replace, TypeOK
    <3>3. sync'[k].pc \in {"complete", "fail"} BY <2>8 DEF Replace, Drop, Step, NoSync, TypeOK
    <3>4. /\ lib'[k].src >= st'[k].src /\ lib'[k].edits >= st'[k].edits
          /\ k \in Albumed => lib'[k].albs = Matched(lib'[k].match)
      <4>1. sync[k].src >= st[k].src /\ sync[k].edits >= st[k].edits BY <2>r, <3>1 DEF Row, Recent
      <4>2. k \in Albumed => sync[k].albs = Matched(sync[k].match) BY <2>r, <3>1 DEF Row, Whole
      <4>3. lib'[k].src >= st'[k].src /\ lib'[k].edits >= st'[k].edits BY <3>1, <3>2, <4>1
      <4> QED BY <3>2, <4>2, <4>3
    <3>5. st'[k].status # "completed" BY <2>r, <3>1 DEF Row, Unfinished
    <3>6. Past(k)' BY <2>r, <2>w, <3>1 DEF Row, Past
    <3> QED BY <3>3, <3>4, <3>5, <3>6 DEF Row, Unfinished, Recent, Whole, Remembered, Backed
  <2>9. CASE Complete(k)
    <3>1. sync[k].pc = "complete" /\ UNCHANGED lib BY <2>9 DEF Complete, At
    <3>2. st'[k] = [st[k] EXCEPT !.status = "completed"] BY <2>9 DEF Complete, TypeOK
    <3>3. st'[k].src = st[k].src /\ st'[k].edits = st[k].edits BY <2>t, <3>2 DEF States
    <3>4. sync'[k].pc \in {"record", "fail"} BY <2>9 DEF Complete, Drop, Step, NoSync, TypeOK
    <3>5. Past(k)' BY <2>r, <2>w, <3>3 DEF Row, Past
    <3>6. Backed(lib'[k], st'[k], k \in Albumed) BY <2>r, <3>1, <3>3 DEF Row, Whole, Backed
    <3> QED BY <3>4, <3>5, <3>6 DEF Row, Unfinished, Recent, Whole, Remembered
  <2>10. CASE Record(k)
    <3>1. sync'[k].pc = "none" BY <2>10 DEF Record, End, NoSync, TypeOK
    <3> QED BY <2>10, <2>r, <3>1, RowDropped DEF Record
  <2>11. CASE Throws(k)
    <3>1. sync'[k].pc = "fail" BY <2>11 DEF Throws, Drop, Step, NoSync, TypeOK
    <3> QED BY <2>11, <2>r, <2>w, <3>1, RowDropped DEF Throws
  <2>12. CASE Fails(k)
    <3>1. sync'[k].pc = "none" BY <2>12 DEF Fails, End, NoSync, TypeOK
    <3>2. CASE UNCHANGED st BY <2>12, <2>r, <3>1, <3>2, RowDropped DEF Fails
    <3>3. CASE st' = [st EXCEPT ![k].status = "failed"]
      <4>1. st'[k] = [st[k] EXCEPT !.status = "failed"] BY <3>3 DEF TypeOK
      <4>2. st'[k].status = "failed" /\ st'[k].src = st[k].src /\ st'[k].edits = st[k].edits
        BY <2>t, <4>1 DEF States
      <4>3. Past(k)' BY <2>r, <2>w, <4>2 DEF Row, Past
      <4> QED BY <3>1, <4>2, <4>3 DEF Row, Unfinished, Recent, Whole, Remembered, Backed
    <3> QED BY <2>12, <3>2, <3>3 DEF Fails
  <2> QED BY <1>6, <2>1, <2>2, <2>3, <2>4, <2>5, <2>6, <2>7, <2>8, <2>9, <2>10, <2>11, <2>12 DEF SyncStep
<1>7. CASE Crash
  <2>1. ASSUME NEW k \in Keys PROVE Row(k)'
    <3>1. sync'[k].pc = "none" BY <1>7 DEF Crash, NoSync
    <3>2. UNCHANGED <<world, tables>> BY <1>7 DEF Crash
    <3> QED BY <3>1, <3>2, RowDropped DEF Rowwise
  <2> QED BY <2>1 DEF Rowwise
<1>8. CASE Sweep
  <2>1. ASSUME NEW k \in Keys PROVE Row(k)'
    <3>1. st[k] \in States BY DEF TypeOK
    <3>2. /\ st'[k].src = st[k].src /\ st'[k].edits = st[k].edits
          /\ st'[k].status = st[k].status \/ st'[k].status = "failed"
      <4>1. CASE st[k].status = "running"
        <5>1. st'[k] = [st[k] EXCEPT !.status = "failed"] BY <1>8, <4>1 DEF Sweep
        <5> QED BY <3>1, <5>1 DEF States
      <4>2. CASE st[k].status # "running"
        <5>1. st'[k] = st[k] BY <1>8, <4>2 DEF Sweep
        <5> QED BY <5>1
      <4> QED BY <4>1, <4>2
    <3>3. UNCHANGED <<world, lib, sync>> BY <1>8 DEF Sweep
    <3>4. Row(k) BY DEF Rowwise
    <3> QED BY <3>2, <3>3, <3>4 DEF Row, Past, Unfinished, Recent, Whole, Remembered, Backed
  <2> QED BY <2>1 DEF Rowwise
<1>9. CASE Migrate \/ MigrateFails \/ CopyLibrary \/ CopyState \/ MigrateEnds
  BY <1>0, <1>9 DEF Migrate, MigrateFails, CopyLibrary, CopyState, MigrateEnds, Outside
<1>10. CASE UNCHANGED vars BY <1>0, <1>10 DEF vars
<1> QED BY <1>1, <1>2, <1>3, <1>4, <1>5, <1>6, <1>7, <1>8, <1>9, <1>10 DEF Next

-----------------------------------------------------------------------------
(* The migration and the passes. *)

\* A step keeps what is known of the copy.
LEMMA CopyStep ==
  ASSUME TypeOK, Rowwise, Consistent, CopyIsTrue, [Next]_vars
  PROVE  Consistent' /\ CopyIsTrue'
<1> USE DEF world, tables, passes, migration
<1>0. ASSUME UNCHANGED migration PROVE Consistent' /\ CopyIsTrue'
  BY <1>0 DEF Consistent, CopyIsTrue
<1>1. ASSUME NEW k \in Keys, Change(k) \/ Age(k) \/ (\E a \in Artists, o \in Overrides : Edit(k, a, o))
      PROVE  UNCHANGED migration
  BY <1>1 DEF Change, Age, Edit
<1>2. ASSUME NEW c \in Passes, Tick(c) \/ Boot(c) \/ ForRun(c) \/ SyncAll(c) \/ Reconcile(c)
      PROVE  UNCHANGED migration
  BY <1>2 DEF Tick, Boot, ForRun, SyncAll, Reconcile, Begin
<1>3. ASSUME NEW c \in Passes,
             PassFails(c) \/ PassEnds(c) \/ (\E k \in Keys : SyncOne(c, k) \/ Visit(c, k))
      PROVE  UNCHANGED migration
  BY <1>3 DEF PassFails, PassEnds, SyncOne, Visit, Begin
<1>4. ASSUME NEW k \in Keys, SyncStep(k) \/ Throws(k) \/ (\E a \in Artists : AlbumFails(k, a))
      PROVE  UNCHANGED migration
  <2> USE DEF Inner
  <2>1. CASE Check(k) \/ Mark(k) \/ List(k) \/ Prepare(k) BY <2>1 DEF Check, Mark, List, Prepare
  <2>2. ASSUME NEW found \in SUBSET Artists, NEW lost \in SUBSET Artists, Match(k, found, lost)
        PROVE  UNCHANGED migration
    BY <2>2 DEF Match
  <2>3. ASSUME NEW a \in Artists, Album(k, a) \/ AlbumFails(k, a) PROVE UNCHANGED migration
    BY <2>3 DEF Album, AlbumFails
  <2>4. CASE Albums(k) \/ Replace(k) \/ Complete(k) BY <2>4 DEF Albums, Replace, Complete
  <2>5. CASE Record(k) \/ Fails(k) \/ Throws(k) BY <2>5 DEF Record, Fails, Throws
  <2> QED BY <1>4, <2>1, <2>2, <2>3, <2>4, <2>5 DEF SyncStep
<1>5. CASE Crash \/ MigrateFails \/ Migrate \/ MigrateEnds
  BY <1>5 DEF Crash, MigrateFails, Migrate, MigrateEnds, Consistent, CopyIsTrue
<1>6. CASE Sweep BY <1>0, <1>6 DEF Sweep
<1>7. CASE CopyLibrary
  <2>1. ASSUME NEW k \in Keys PROVE Backed(target'[k].lib, frozen'[k], k \in Albumed)
    <3>1. target[k] \in Tables BY DEF TypeOK
    <3>2. target'[k] = [target[k] EXCEPT !.lib = lib[k]] BY <1>7 DEF CopyLibrary
    <3>3. target'[k].lib = lib[k] BY <3>1, <3>2 DEF Tables
    <3>4. frozen'[k] = st[k] BY <1>7 DEF CopyLibrary
    <3>5. Backed(lib[k], st[k], k \in Albumed) BY DEF Rowwise, Row
    <3> QED BY <3>3, <3>4, <3>5
  <2> QED BY <1>7, <2>1 DEF CopyLibrary, Consistent, CopyIsTrue
<1>8. CASE CopyState
  <2>1. ASSUME NEW k \in Keys PROVE Backed(target'[k].lib, target'[k].st, k \in Albumed)
    <3>1. target[k] \in Tables BY DEF TypeOK
    <3>2. target'[k] = [target[k] EXCEPT !.st = frozen[k]] BY <1>8 DEF CopyState, Seen
    <3>3. target'[k].lib = target[k].lib /\ target'[k].st = frozen[k] BY <3>1, <3>2 DEF Tables
    <3>4. Backed(target[k].lib, frozen[k], k \in Albumed) BY <1>8 DEF CopyState, Consistent
    <3> QED BY <3>3, <3>4
  <2> QED BY <1>8, <2>1 DEF CopyState, Consistent, CopyIsTrue
<1>9. CASE UNCHANGED vars BY <1>0, <1>9 DEF vars
<1> QED BY <1>0, <1>1, <1>2, <1>3, <1>4, <1>5, <1>6, <1>7, <1>8, <1>9 DEF Next

\* A sync goes on to a step of its own.
LEMMA StillBusy ==
  ASSUME TypeOK, NobodyStuck, NEW k \in Keys, UNCHANGED passes,
         sync'[k].pc # "none", \A j \in Keys : j # k => sync'[j] = sync[j]
  PROVE  NobodyStuck'
<1> USE DEF passes
<1>1. ASSUME NEW c \in Passes, on'[c] # None PROVE ~Free(on[c])'
  <2>1. on[c] \in Keys /\ on'[c] = on[c] BY <1>1 DEF TypeOK
  <2>2. ~Free(on[c]) BY <1>1, <2>1 DEF NobodyStuck
  <2> QED BY <2>1, <2>2 DEF Free
<1> QED BY <1>1 DEF NobodyStuck

\* A sync ends and nobody waits for it any more.
LEMMA WakesAll ==
  ASSUME TypeOK, NobodyStuck, NEW k \in Keys, End(k), UNCHANGED <<kind, syncAll>>
  PROVE  NobodyStuck'
<1>1. ASSUME NEW c \in Passes, on'[c] # None PROVE ~Free(on[c])'
  <2>1. on'[c] = on[c] /\ on[c] # k /\ on[c] \in Keys BY <1>1 DEF End, TypeOK
  <2>2. ~Free(on[c]) BY <1>1, <2>1 DEF NobodyStuck
  <2>3. sync'[on[c]] = sync[on[c]] BY <2>1 DEF End, TypeOK
  <2> QED BY <2>1, <2>2, <2>3 DEF Free
<1> QED BY <1>1 DEF NobodyStuck

\* A step keeps who waits for whom.
LEMMA StuckStep ==
  ASSUME TypeOK, NobodyStuck, [Next]_vars
  PROVE  NobodyStuck'
<1> USE DEF world, tables, passes, migration
<1>0. ASSUME UNCHANGED <<sync, passes>> PROVE NobodyStuck'
  BY <1>0 DEF NobodyStuck, Free
<1>1. ASSUME NEW k \in Keys, Change(k) \/ Age(k) \/ (\E a \in Artists, o \in Overrides : Edit(k, a, o))
      PROVE  NobodyStuck'
  BY <1>0, <1>1 DEF Change, Age, Edit
<1>2. ASSUME NEW c \in Passes, NEW what \in Kinds \ {"all"}, NEW keys \in SUBSET Keys,
             Begin(c, what, keys), UNCHANGED syncAll
      PROVE  NobodyStuck'
  <2>1. \A d \in Passes : (kind'[d] = "all") <=> (kind[d] = "all") BY <1>2 DEF Begin, TypeOK
  <2>2. UNCHANGED <<sync, on>> BY <1>2 DEF Begin
  <2> QED BY <1>2, <2>1, <2>2 DEF NobodyStuck, Free
<1>3. ASSUME NEW c \in Passes, Tick(c) \/ Boot(c) \/ ForRun(c) \/ Reconcile(c) PROVE NobodyStuck'
  <2>1. Own \in SUBSET Keys /\ Global \in SUBSET Keys /\ Keys \in SUBSET Keys BY DEF Keys
  <2> QED BY <1>2, <1>3, <2>1 DEF Tick, Boot, ForRun, Reconcile, Kinds
<1>4. ASSUME NEW c \in Passes, NEW k \in Keys, SyncOne(c, k) PROVE NobodyStuck'
  BY <1>2, <1>4 DEF SyncOne, Kinds
<1>5. ASSUME NEW c \in Passes, SyncAll(c) PROVE NobodyStuck'
  <2>1. \A d \in Passes : kind[d] # "all" BY <1>5 DEF SyncAll, NobodyStuck
  <2>2. kind' = [kind EXCEPT ![c] = "all"] /\ UNCHANGED <<sync, on>> /\ syncAll' = TRUE
    BY <1>5 DEF SyncAll, Begin
  <2>3. \A d \in Passes : (kind'[d] = "all") <=> (d = c) BY <2>1, <2>2 DEF TypeOK
  <2> QED BY <2>2, <2>3 DEF NobodyStuck, Free
<1>6. ASSUME NEW c \in Passes, NEW k \in Keys, Visit(c, k) PROVE NobodyStuck'
  <2>1. sync'[k].pc # "none"
    <3>1. CASE Free(k)
      <4>1. sync'[k] = Step("check") \/ sync'[k] = Step("mark") BY <1>6, <3>1 DEF Visit, TypeOK
      <4> QED BY <4>1 DEF Step, NoSync
    <3>2. CASE ~Free(k) BY <1>6, <3>2 DEF Visit, Free
    <3> QED BY <3>1, <3>2
  <2>2. \A j \in Keys : j # k => sync'[j] = sync[j] BY <1>6 DEF Visit, TypeOK
  <2>3. on' = [on EXCEPT ![c] = k] /\ UNCHANGED <<kind, syncAll>> BY <1>6 DEF Visit
  <2>4. ASSUME NEW d \in Passes, on'[d] # None PROVE ~Free(on[d])'
    <3>1. CASE on'[d] = k BY <2>1, <3>1 DEF Free
    <3>2. CASE on'[d] # k
      <4>1. on'[d] = on[d] /\ on[d] \in Keys BY <2>3, <2>4, <3>2 DEF TypeOK
      <4>2. ~Free(on[d]) BY <2>4, <4>1 DEF NobodyStuck
      <4> QED BY <2>2, <3>2, <4>1, <4>2 DEF Free
    <3> QED BY <3>1, <3>2
  <2> QED BY <2>3, <2>4 DEF NobodyStuck
<1>7. ASSUME NEW c \in Passes, PassFails(c) PROVE NobodyStuck'
  BY <1>7 DEF PassFails, NobodyStuck, Free
<1>8. ASSUME NEW c \in Passes, PassEnds(c) PROVE NobodyStuck'
  <2>1. /\ kind' = [kind EXCEPT ![c] = "idle"] /\ UNCHANGED <<sync, on>>
        /\ syncAll' = (syncAll /\ kind[c] # "all")
    BY <1>8 DEF PassEnds
  <2>2. \A d \in Passes : (kind'[d] = "all") <=> (kind[d] = "all" /\ d # c) BY <2>1 DEF TypeOK
  <2>3. syncAll' <=> \E d \in Passes : kind'[d] = "all"
    <3>1. CASE kind[c] = "all"
      <4>1. ~syncAll' BY <2>1, <3>1
      <4>2. \A d \in Passes : kind'[d] # "all" BY <2>2, <3>1 DEF NobodyStuck
      <4> QED BY <4>1, <4>2
    <3>2. CASE kind[c] # "all"
      <4>1. syncAll' <=> syncAll BY <2>1, <3>2
      <4>2. (\E d \in Passes : kind'[d] = "all") <=> (\E d \in Passes : kind[d] = "all")
        BY <2>2, <3>2
      <4> QED BY <4>1, <4>2 DEF NobodyStuck
    <3> QED BY <3>1, <3>2
  <2> QED BY <2>1, <2>2, <2>3 DEF NobodyStuck, Free
<1>9. ASSUME NEW k \in Keys, SyncStep(k) \/ Throws(k) \/ (\E a \in Artists : AlbumFails(k, a))
      PROVE  NobodyStuck'
  <2> USE DEF Inner
  <2>t. sync[k] \in Syncs BY DEF TypeOK
  <2>d. ASSUME NEW pc \in Steps \ {"none"}, Drop(k, pc), UNCHANGED passes PROVE NobodyStuck'
    <3>1. sync'[k].pc = pc BY <2>d DEF Drop, Step, NoSync, TypeOK
    <3>2. \A j \in Keys : j # k => sync'[j] = sync[j] BY <2>d DEF Drop, TypeOK
    <3> QED BY <2>d, <3>1, <3>2, StillBusy
  <2>g. ASSUME NEW pc \in Steps \ {"none"}, Goto(k, pc), UNCHANGED passes PROVE NobodyStuck'
    <3>1. sync'[k].pc = pc BY <2>g, <2>t DEF Goto, TypeOK, Syncs
    <3>2. \A j \in Keys : j # k => sync'[j] = sync[j] BY <2>g DEF Goto, TypeOK
    <3> QED BY <2>g, <3>1, <3>2, StillBusy
  <2>1. CASE Check(k)
    <3>1. UNCHANGED <<kind, syncAll>> BY <2>1 DEF Check
    <3>2. CASE End(k) BY <3>1, <3>2, WakesAll
    <3>3. CASE Goto(k, "mark") /\ UNCHANGED <<on, todo>> BY <2>g, <3>1, <3>3 DEF Steps
    <3> QED BY <2>1, <3>2, <3>3 DEF Check
  <2>2. CASE Mark(k) BY <2>2, <2>g DEF Mark, Steps
  <2>3. CASE List(k)
    <3>1. sync'[k].pc = "prepare" BY <2>3, <2>t DEF List, TypeOK, Syncs
    <3>2. \A j \in Keys : j # k => sync'[j] = sync[j] BY <2>3 DEF List, TypeOK
    <3> QED BY <2>3, <3>1, <3>2, StillBusy DEF List
  <2>4. CASE Prepare(k)
    <3>1. sync'[k].pc = "match" BY <2>4, <2>t DEF Prepare, TypeOK, Syncs
    <3>2. \A j \in Keys : j # k => sync'[j] = sync[j] BY <2>4 DEF Prepare, TypeOK
    <3> QED BY <2>4, <3>1, <3>2, StillBusy DEF Prepare
  <2>5. ASSUME NEW found \in SUBSET Artists, NEW lost \in SUBSET Artists, Match(k, found, lost)
        PROVE  NobodyStuck'
    <3>1. sync'[k].pc \in {"albums", "replace"} BY <2>5, <2>t DEF Match, TypeOK, Syncs
    <3>2. \A j \in Keys : j # k => sync'[j] = sync[j] BY <2>5 DEF Match, TypeOK
    <3> QED BY <2>5, <3>1, <3>2, StillBusy DEF Match
  <2>6. ASSUME NEW a \in Artists, Album(k, a) \/ AlbumFails(k, a) PROVE NobodyStuck'
    <3>1. sync'[k].pc = "albums" BY <2>6, <2>t DEF Album, AlbumFails, At, TypeOK, Syncs
    <3>2. \A j \in Keys : j # k => sync'[j] = sync[j] BY <2>6 DEF Album, AlbumFails, TypeOK
    <3> QED BY <2>6, <3>1, <3>2, StillBusy DEF Album, AlbumFails
  <2>7. CASE Albums(k) BY <2>7, <2>d, <2>g DEF Albums, Steps
  <2>8. CASE Replace(k) BY <2>8, <2>d DEF Replace, Steps
  <2>9. CASE Complete(k) BY <2>9, <2>d DEF Complete, Steps
  <2>10. CASE Record(k) BY <2>10, WakesAll DEF Record
  <2>11. CASE Throws(k) BY <2>11, <2>d DEF Throws, Steps
  <2>12. CASE Fails(k) BY <2>12, WakesAll DEF Fails
  <2> QED BY <1>9, <2>1, <2>2, <2>3, <2>4, <2>5, <2>6, <2>7, <2>8, <2>9, <2>10, <2>11, <2>12 DEF SyncStep
<1>10. CASE Crash BY <1>10 DEF Crash, NobodyStuck
<1>11. CASE Sweep \/ Migrate \/ MigrateFails \/ CopyLibrary \/ CopyState \/ MigrateEnds
  BY <1>0, <1>11 DEF Sweep, Migrate, MigrateFails, CopyLibrary, CopyState, MigrateEnds, Outside
<1>12. CASE UNCHANGED vars BY <1>0, <1>12 DEF vars
<1> QED BY <1>1, <1>3, <1>4, <1>5, <1>6, <1>7, <1>8, <1>9, <1>10, <1>11, <1>12 DEF Next

-----------------------------------------------------------------------------
(* The theorems. *)

\* The invariant holds at the start.
LEMMA InitHolds == Init => IInv
<1> SUFFICES ASSUME Init PROVE IInv OBVIOUS
<1>1. TypeOK BY InitTyped
<1>2. ASSUME NEW k \in Keys PROVE Row(k)
  <2>1. st[k] = NoState /\ sync[k] = NoSync /\ server[k] = 0 /\ edits[k] = 0 BY DEF Init
  <2> QED BY <2>1 DEF Row, Past, Unfinished, Recent, Whole, Remembered, Backed, NoState, NoSync
<1>3. Consistent /\ CopyIsTrue BY DEF Init, Consistent, CopyIsTrue
<1>4. NobodyStuck BY DEF Init, NobodyStuck
<1> QED BY <1>1, <1>2, <1>3, <1>4 DEF IInv, Rowwise

\* A step keeps it.
LEMMA StepHolds == IInv /\ [Next]_vars => IInv'
<1> SUFFICES ASSUME IInv, [Next]_vars PROVE IInv' OBVIOUS
<1>1. TypeOK' BY TypeStep DEF IInv
<1>2. Rowwise' BY <1>1, RowwiseStep DEF IInv
<1>3. Consistent' /\ CopyIsTrue' BY CopyStep DEF IInv
<1>4. NobodyStuck' BY StuckStep DEF IInv
<1> QED BY <1>1, <1>2, <1>3, <1>4 DEF IInv

\* The inductive invariant of the syncs, the passes and the migration.
THEOREM Invariance == Spec => []IInv
<1>1. Init => IInv BY InitHolds
<1>2. IInv /\ [Next]_vars => IInv' BY StepHolds
<1> QED BY <1>1, <1>2, PTL DEF Spec

\* Rows, syncs, passes and the target of a migration keep their types.
THEOREM TypeCorrect == Spec => []TypeOK
<1>1. IInv => TypeOK BY DEF IInv
<1> QED BY <1>1, Invariance, PTL

\* A source is called completed only if its rows are whole and were read after the
\* start its freshness is counted from.
THEOREM CompletedBacked == Spec => []CompletedIsTrue
<1>1. IInv => CompletedIsTrue BY DEF IInv, Rowwise, Row, CompletedIsTrue
<1> QED BY <1>1, Invariance, PTL

\* The same holds of the database a migration has filled while syncs went on.
THEOREM CopyBacked == Spec => []CopyIsTrue
<1>1. IInv => CopyIsTrue BY DEF IInv
<1> QED BY <1>1, Invariance, PTL

\* A pass waits for a running sync only, and the flag of sync-all is up exactly while
\* the one pass it stands for is under way.
THEOREM NoneStuck == Spec => []NobodyStuck
<1>1. IInv => NobodyStuck BY DEF IInv
<1> QED BY <1>1, Invariance, PTL

\* The rows of a source change by the replacement only.
LEMMA ReplaceOnly ==
  ASSUME TypeOK, [Next]_vars, NEW k \in Keys, lib'[k] # lib[k]
  PROVE  lib'[k].match = sync[k].match
<1> USE DEF world, tables, passes, migration
<1>1. ASSUME NEW j \in Keys, Replace(j) PROVE lib'[k].match = sync[k].match
  <2>1. j = k BY <1>1 DEF Replace, TypeOK
  <2> QED BY <1>1, <2>1 DEF Replace, TypeOK
<1>2. CASE UNCHANGED lib BY <1>2
<1>3. ASSUME NEW j \in Keys, SyncStep(j) \/ Throws(j) \/ (\E a \in Artists : AlbumFails(j, a)), ~Replace(j)
      PROVE  UNCHANGED lib
  <2>1. CASE Check(j) \/ Mark(j) \/ List(j) \/ Prepare(j) BY <2>1 DEF Check, Mark, List, Prepare
  <2>2. ASSUME NEW found \in SUBSET Artists, NEW lost \in SUBSET Artists, Match(j, found, lost)
        PROVE  UNCHANGED lib
    BY <2>2 DEF Match
  <2>3. ASSUME NEW a \in Artists, Album(j, a) \/ AlbumFails(j, a) PROVE UNCHANGED lib
    BY <2>3 DEF Album, AlbumFails
  <2>4. CASE Albums(j) \/ Complete(j) BY <2>4 DEF Albums, Complete
  <2>5. CASE Record(j) \/ Fails(j) \/ Throws(j) BY <2>5 DEF Record, Fails, Throws
  <2> QED BY <1>3, <2>1, <2>2, <2>3, <2>4, <2>5 DEF SyncStep
<1>4. ASSUME NEW j \in Keys, Change(j) \/ Age(j) \/ (\E a \in Artists, o \in Overrides : Edit(j, a, o))
      PROVE  UNCHANGED lib
  BY <1>4 DEF Change, Age, Edit
<1>5. ASSUME NEW c \in Passes, Tick(c) \/ Boot(c) \/ ForRun(c) \/ SyncAll(c) \/ Reconcile(c) PROVE UNCHANGED lib
  BY <1>5 DEF Tick, Boot, ForRun, SyncAll, Reconcile, Begin
<1>6. ASSUME NEW c \in Passes,
             PassFails(c) \/ PassEnds(c) \/ (\E j \in Keys : SyncOne(c, j) \/ Visit(c, j))
      PROVE  UNCHANGED lib
  BY <1>6 DEF PassFails, PassEnds, SyncOne, Visit, Begin
<1>7. CASE \/ Crash \/ Sweep \/ Migrate \/ MigrateFails \/ CopyLibrary \/ CopyState \/ MigrateEnds
           \/ UNCHANGED vars
  BY <1>2, <1>7 DEF Crash, Sweep, Migrate, MigrateFails, CopyLibrary, CopyState, MigrateEnds, Outside, vars
<1> QED BY <1>1, <1>2, <1>3, <1>4, <1>5, <1>6, <1>7 DEF Next

\* Replacing the rows of a source takes no match from an artist that could not be looked up.
THEOREM OutageKeepsMatches == Spec => MatchesKept
<1> DEFINE Kept == \A k \in Keys : (At(k, "replace") /\ lib'[k] # lib[k]) =>
                     \A a \in sync[k].lost : lib[k].match[a] # "none" =>
                       lib'[k].match[a] = lib[k].match[a]
<1>1. IInv /\ [Next]_vars => [Kept]_vars
  <2> SUFFICES ASSUME IInv, [Next]_vars, NEW k \in Keys, At(k, "replace"), lib'[k] # lib[k],
                      NEW a \in sync[k].lost
               PROVE  lib'[k].match[a] = lib[k].match[a]
    OBVIOUS
  <2>1. sync[k].match[a] = lib[k].match[a] BY DEF IInv, Rowwise, Row, Remembered, At
  <2>2. lib'[k].match = sync[k].match BY ReplaceOnly DEF IInv
  <2> QED BY <2>1, <2>2
<1> QED BY <1>1, Invariance, PTL DEF Spec, MatchesKept

-----------------------------------------------------------------------------
(* How long a sync and a pass can take. *)

\* what a sync does next: fails or ends, fetches one artist's albums, or goes on
Advances(p, S, q, T) ==
  \/ q = "none" /\ p \in {"check", "record", "fail"}
  \/ q = "fail" /\ p \in {"mark", "list", "prepare", "match", "albums", "replace", "complete", "record"}
  \/ p = "albums" /\ q = "albums" /\ \E a \in S : T = S \ {a}
  \/ <<p, q>> \in {<<"check", "mark">>, <<"mark", "list">>, <<"list", "prepare">>,
                   <<"prepare", "match">>, <<"match", "albums">>, <<"match", "replace">>,
                   <<"albums", "replace">>, <<"replace", "complete">>, <<"complete", "record">>}

\* a step of the sync of a source, one that fails included
Works(k) == SyncStep(k) \/ Throws(k) \/ (\E a \in Artists : AlbumFails(k, a))

\* A step of a sync is a step of this sync alone.
LEMMA WorkAdvances ==
  ASSUME TypeOK, NEW k \in Keys, Works(k)
  PROVE  /\ Advances(sync[k].pc, sync[k].todo, sync'[k].pc, sync'[k].todo)
         /\ \A j \in Keys : j # k => sync'[j] = sync[j]
<1>t. sync[k] \in Syncs /\ sync \in [Keys -> Syncs] BY DEF TypeOK
<1>d. /\ NoSync.pc = "none" /\ Step("fail").pc = "fail" /\ Step("complete").pc = "complete"
      /\ Step("record").pc = "record"
  BY DEF NoSync, Step
<1>1. ASSUME End(k), sync[k].pc \in {"check", "record", "fail"}
      PROVE  /\ Advances(sync[k].pc, sync[k].todo, sync'[k].pc, sync'[k].todo)
             /\ \A j \in Keys : j # k => sync'[j] = sync[j]
  BY <1>1, <1>t, <1>d DEF End, Advances
<1>2. ASSUME NEW q, Drop(k, q), Step(q).pc = q, q = "fail" \/ <<sync[k].pc, q>> \in {<<"replace", "complete">>, <<"complete", "record">>},
             sync[k].pc \in {"mark", "list", "prepare", "match", "albums", "replace", "complete", "record"}
      PROVE  /\ Advances(sync[k].pc, sync[k].todo, sync'[k].pc, sync'[k].todo)
             /\ \A j \in Keys : j # k => sync'[j] = sync[j]
  BY <1>2, <1>t DEF Drop, Advances
<1>3. CASE Check(k)
  <2>1. CASE Goto(k, "mark")
    BY <1>3, <1>t, <2>1 DEF Check, Goto, At, Advances, Syncs
  <2> QED BY <1>1, <1>3, <2>1 DEF Check, At
<1>4. CASE Mark(k) BY <1>4, <1>t DEF Mark, Goto, At, Advances, Syncs
<1>5. CASE List(k) BY <1>5, <1>t DEF List, At, Advances, Syncs
<1>6. CASE Prepare(k) BY <1>6, <1>t DEF Prepare, At, Advances, Syncs
<1>7. ASSUME NEW found \in SUBSET Artists, NEW lost \in SUBSET Artists, Match(k, found, lost)
      PROVE  /\ Advances(sync[k].pc, sync[k].todo, sync'[k].pc, sync'[k].todo)
             /\ \A j \in Keys : j # k => sync'[j] = sync[j]
  <2>1. sync[k].pc = "match" /\ sync'[k].pc \in {"albums", "replace"}
    BY <1>7, <1>t DEF Match, At, Syncs
  <2>2. \A j \in Keys : j # k => sync'[j] = sync[j]
    BY <1>7, <1>t DEF Match
  <2> QED BY <2>1, <2>2 DEF Advances
<1>8. ASSUME NEW a \in Artists, Album(k, a) \/ AlbumFails(k, a)
      PROVE  /\ Advances(sync[k].pc, sync[k].todo, sync'[k].pc, sync'[k].todo)
             /\ \A j \in Keys : j # k => sync'[j] = sync[j]
  <2>1. /\ sync[k].pc = "albums" /\ sync'[k].pc = "albums" /\ a \in sync[k].todo
        /\ sync'[k].todo = sync[k].todo \ {a}
    BY <1>8, <1>t DEF Album, AlbumFails, At, Syncs
  <2>2. \A j \in Keys : j # k => sync'[j] = sync[j]
    BY <1>8, <1>t DEF Album, AlbumFails
  <2> QED BY <2>1, <2>2 DEF Advances
<1>9. CASE Albums(k)
  <2>1. CASE Goto(k, "replace")
    BY <1>9, <1>t, <2>1 DEF Albums, Goto, At, Advances, Syncs
  <2> QED BY <1>2, <1>9, <1>d, <2>1 DEF Albums, At
<1>10. CASE Replace(k) BY <1>2, <1>10, <1>d DEF Replace, At
<1>11. CASE Complete(k) BY <1>2, <1>11, <1>d DEF Complete, At
<1>12. CASE Record(k) BY <1>1, <1>12 DEF Record, At
<1>13. CASE Throws(k)
  <2>1. sync[k].pc \in {"mark", "list", "prepare", "match", "replace", "complete", "record"}
    BY <1>13, <1>t DEF Throws, Syncs, Steps
  <2> QED BY <1>2, <1>13, <1>d, <2>1 DEF Throws
<1>14. CASE Fails(k) BY <1>1, <1>14 DEF Fails, At
<1> QED BY <1>3, <1>4, <1>5, <1>6, <1>7, <1>8, <1>9, <1>10, <1>11, <1>12, <1>13, <1>14 DEF Works, SyncStep

\* how far a sync is from its end, without the artists
Place(p) ==
  CASE p = "check" -> 10 [] p = "mark" -> 9 [] p = "list" -> 8 [] p = "prepare" -> 7
    [] p = "match" -> 6 [] p = "albums" -> 5 [] p = "replace" -> 4 [] p = "complete" -> 3
    [] p = "record" -> 2 [] p = "fail" -> 1 [] OTHER -> 0

\* how many steps a sync has left at most
Left(p, S) ==
  Place(p) + (IF p = "albums" THEN Cardinality(S)
              ELSE IF p \in {"check", "mark", "list", "prepare", "match"} THEN Cardinality(Artists)
              ELSE 0)

\* The number of steps that are left is one.
LEMMA LeftType ==
  ASSUME IsFiniteSet(Artists), NEW S \in SUBSET Artists, NEW p
  PROVE  /\ IsFiniteSet(S) /\ Cardinality(S) \in Nat /\ Cardinality(Artists) \in Nat
         /\ Cardinality(S) <= Cardinality(Artists)
         /\ Place(p) \in 0 .. 10 /\ Left(p, S) \in Nat
<1>1. IsFiniteSet(S) /\ Cardinality(S) <= Cardinality(Artists) BY FS_Subset
<1>2. Cardinality(S) \in Nat /\ Cardinality(Artists) \in Nat BY <1>1, FS_CardinalityType
<1>3. Place(p) \in 0 .. 10 BY DEF Place
<1> QED BY <1>1, <1>2, <1>3 DEF Left

\* A step that advances a sync uses up at least one.
LEMMA AdvanceCounts ==
  ASSUME IsFiniteSet(Artists), NEW S \in SUBSET Artists, NEW T \in SUBSET Artists, NEW p, NEW q,
         Advances(p, S, q, T)
  PROVE  Left(q, T) < Left(p, S)
<1>1. /\ IsFiniteSet(S) /\ Cardinality(S) \in Nat /\ Cardinality(T) \in Nat
      /\ Cardinality(Artists) \in Nat /\ Cardinality(T) <= Cardinality(Artists)
  BY LeftType
<1>2. ASSUME p = "albums", q = "albums", NEW a \in S, T = S \ {a}
      PROVE  Left(q, T) < Left(p, S)
  <2>1. Cardinality(T) = Cardinality(S) - 1 BY ONLY <1>1, <1>2, FS_RemoveElement
  <2>2. Left(p, S) = 5 + Cardinality(S) /\ Left(q, T) = 5 + Cardinality(T)
    BY <1>2 DEF Left, Place
  <2> QED BY <1>1, <2>1, <2>2
<1>3. CASE q = "none" /\ p \in {"check", "record", "fail"}
  BY <1>1, <1>3 DEF Left, Place
<1>4. CASE q = "fail" /\ p \in {"mark", "list", "prepare", "match", "albums", "replace", "complete", "record"}
  BY <1>1, <1>4 DEF Left, Place
<1>5. CASE <<p, q>> \in {<<"check", "mark">>, <<"mark", "list">>, <<"list", "prepare">>,
                   <<"prepare", "match">>, <<"match", "albums">>, <<"match", "replace">>,
                   <<"albums", "replace">>, <<"replace", "complete">>, <<"complete", "record">>}
  BY <1>1, <1>5 DEF Left, Place
<1> QED BY <1>2, <1>3, <1>4, <1>5 DEF Advances

\* what is left of a pass: the keys it has not come to, the one it waits for, its end
Rest(what, S, k) ==
  IF what = "idle" THEN 0 ELSE 2 * Cardinality(S) + (IF k = None THEN 1 ELSE 2)

\* a pass is given keys
Begins(c) == kind[c] = "idle" /\ kind'[c] # "idle"

\* a pass goes on by itself
Goes(c) == (\E k \in Keys : Visit(c, k)) \/ PassFails(c) \/ PassEnds(c)

\* Every step of a sync uses up some of its steps, and a pass that finds none under way
\* is all that gives it more; so it is with a pass, and its request.
EveryStepCounts ==
  [][/\ \A k \in Keys :
          /\ Works(k) => Left(sync[k].pc, sync[k].todo)' < Left(sync[k].pc, sync[k].todo)
          /\ Left(sync[k].pc, sync[k].todo)' > Left(sync[k].pc, sync[k].todo) =>
               Free(k) /\ \E c \in Passes : Visit(c, k)
     /\ \A c \in Passes :
          /\ Goes(c) => Rest(kind[c], todo[c], on[c])' < Rest(kind[c], todo[c], on[c])
          /\ Rest(kind[c], todo[c], on[c])' > Rest(kind[c], todo[c], on[c]) => Begins(c)]_vars

\* What is no step of a sync leaves it alone, ends it, or begins it.
LEMMA OthersLeave ==
  ASSUME TypeOK, [Next]_vars, NEW k \in Keys, \A j \in Keys : ~Works(j)
  PROVE  \/ sync'[k].pc = "none" \/ sync'[k] = sync[k]
         \/ Free(k) /\ \E c \in Passes : Visit(c, k)
<1> USE DEF world, tables, passes, migration
<1>1. ASSUME NEW c \in Passes, NEW j \in Keys, Visit(c, j)
      PROVE  sync'[k] = sync[k] \/ (Free(k) /\ Visit(c, k))
  BY <1>1 DEF Visit, TypeOK
<1>2. ASSUME NEW c \in Passes,
             \/ Tick(c) \/ Boot(c) \/ ForRun(c) \/ SyncAll(c) \/ Reconcile(c) \/ PassFails(c) \/ PassEnds(c)
             \/ \E j \in Keys : SyncOne(c, j)
      PROVE  sync' = sync
  BY <1>2 DEF Tick, Boot, ForRun, SyncAll, Reconcile, SyncOne, Begin, PassFails, PassEnds
<1>3. ASSUME NEW j \in Keys, Change(j) \/ Age(j) \/ (\E a \in Artists, o \in Overrides : Edit(j, a, o))
      PROVE  sync' = sync
  BY <1>3 DEF Change, Age, Edit
<1>4. Crash => sync'[k].pc = "none"
  BY DEF Crash, NoSync
<1>5. \/ Sweep \/ Migrate \/ MigrateFails \/ CopyLibrary \/ CopyState \/ MigrateEnds \/ UNCHANGED vars
      => sync' = sync
  BY DEF Sweep, Migrate, MigrateFails, CopyLibrary, CopyState, MigrateEnds, Outside, vars
<1> QED BY <1>1, <1>2, <1>3, <1>4, <1>5 DEF Next, Works

\* What is left of a pass is a number.
LEMMA RestType ==
  ASSUME IsFiniteSet(Keys), NEW S \in SUBSET Keys, NEW what, NEW k
  PROVE  IsFiniteSet(S) /\ Cardinality(S) \in Nat /\ Rest(what, S, k) \in Nat
<1>1. IsFiniteSet(S) BY FS_Subset
<1>2. Cardinality(S) \in Nat BY <1>1, FS_CardinalityType
<1> QED BY <1>1, <1>2 DEF Rest

\* What becomes of a pass in a step: it begins, is let go or given up, goes on by itself,
\* or is left alone.
LEMMA PassStep ==
  ASSUME TypeOK, [Next]_vars, NEW c \in Passes
  PROVE  \/ Begins(c) \/ kind'[c] = "idle"
         \/ kind'[c] = kind[c] /\ todo'[c] \in {todo[c], {}} /\ on'[c] \in {on[c], None}
         \/ kind'[c] = kind[c] /\ \E k \in Keys : Visit(c, k)
<1> USE DEF world, tables, passes, migration
<1>1. ASSUME NEW k \in Keys, Works(k)
      PROVE  kind'[c] = kind[c] /\ todo'[c] \in {todo[c], {}} /\ on'[c] \in {on[c], None}
  <2>1. CASE UNCHANGED passes BY <2>1
  <2>2. CASE End(k) /\ UNCHANGED kind /\ (UNCHANGED todo \/ todo' = [d \in Passes |-> IF on[d] = k THEN {} ELSE todo[d]])
    BY <2>2 DEF End
  <2>3. Check(k) => UNCHANGED passes \/ (End(k) /\ UNCHANGED kind /\ (UNCHANGED todo \/ todo' = [d \in Passes |-> IF on[d] = k THEN {} ELSE todo[d]]))
    BY DEF Check
  <2>4. Record(k) \/ Fails(k) => End(k) /\ UNCHANGED <<kind, todo>>
    BY DEF Record, Fails
  <2>5. \/ Mark(k) \/ List(k) \/ Prepare(k) \/ Albums(k) \/ Replace(k) \/ Complete(k) \/ Throws(k)
        \/ (\E found, lost \in SUBSET Artists : Match(k, found, lost))
        \/ (\E a \in Artists : Album(k, a) \/ AlbumFails(k, a))
        => UNCHANGED passes
    <3>1. Mark(k) \/ List(k) \/ Prepare(k) \/ Albums(k) \/ Throws(k) => UNCHANGED passes
      BY DEF Mark, List, Prepare, Albums, Throws, Inner
    <3>2. Replace(k) \/ Complete(k) => UNCHANGED passes
      BY DEF Replace, Complete, Inner
    <3>3. ASSUME NEW found, NEW lost, Match(k, found, lost) PROVE UNCHANGED passes
      BY <3>3 DEF Match, Inner
    <3>4. ASSUME NEW a, Album(k, a) \/ AlbumFails(k, a) PROVE UNCHANGED passes
      BY <3>4 DEF Album, AlbumFails, Inner
    <3> QED BY <3>1, <3>2, <3>3, <3>4
  <2> QED BY <1>1, <2>1, <2>2, <2>3, <2>4, <2>5 DEF Works, SyncStep
<1>2. ASSUME NEW d \in Passes, NEW what \in Kinds, NEW S, Begin(d, what, S)
      PROVE  \/ Begins(c) \/ kind'[c] = "idle"
             \/ kind'[c] = kind[c] /\ todo'[c] = todo[c] /\ on'[c] = on[c]
  BY <1>2 DEF Begin, Begins, TypeOK
<1>3. ASSUME NEW d \in Passes,
             Tick(d) \/ Boot(d) \/ ForRun(d) \/ SyncAll(d) \/ Reconcile(d) \/ (\E k \in Keys : SyncOne(d, k))
      PROVE  \/ Begins(c) \/ kind'[c] = "idle"
             \/ kind'[c] = kind[c] /\ todo'[c] = todo[c] /\ on'[c] = on[c]
  BY <1>2, <1>3 DEF Tick, Boot, ForRun, SyncAll, Reconcile, SyncOne, Kinds
<1>4. ASSUME NEW d \in Passes, NEW k \in Keys, Visit(d, k)
      PROVE  kind'[c] = kind[c] /\ (d = c \/ (todo'[c] = todo[c] /\ on'[c] = on[c]))
  <2>1. kind' = kind /\ on' = [on EXCEPT ![d] = k] /\ todo' = [todo EXCEPT ![d] = @ \ {k}]
    BY <1>4 DEF Visit
  <2>2. on \in [Passes -> Keys \cup {None}] /\ todo \in [Passes -> SUBSET Keys]
    BY DEF TypeOK
  <2>3. ASSUME d # c PROVE todo'[c] = todo[c] /\ on'[c] = on[c]
    BY <2>1, <2>2, <2>3
  <2> QED BY <2>1, <2>3
<1>5. ASSUME NEW d \in Passes, PassFails(d) \/ PassEnds(d)
      PROVE  \/ kind'[c] = "idle"
             \/ kind'[c] = kind[c] /\ todo'[c] \in {todo[c], {}} /\ on'[c] = on[c]
  BY <1>5 DEF PassFails, PassEnds, TypeOK
<1>6. Crash => kind'[c] = "idle" BY DEF Crash
<1>7. \/ Sweep \/ Migrate \/ MigrateFails \/ CopyLibrary \/ CopyState \/ MigrateEnds \/ UNCHANGED vars
      \/ \E k \in Keys : Change(k) \/ Age(k) \/ (\E a \in Artists, o \in Overrides : Edit(k, a, o))
      => UNCHANGED passes
  BY DEF Sweep, Migrate, MigrateFails, CopyLibrary, CopyState, MigrateEnds, Outside, vars, Change, Age, Edit
<1> QED BY <1>1, <1>3, <1>4, <1>5, <1>6, <1>7 DEF Next, Works

\* A pass that goes on comes nearer to its end.
LEMMA PassCounts ==
  ASSUME IsFiniteSet(Keys), TypeOK, TypeOK', NEW c \in Passes, Goes(c)
  PROVE  Rest(kind'[c], todo'[c], on'[c]) < Rest(kind[c], todo[c], on[c])
<1>t. /\ todo[c] \in SUBSET Keys /\ todo'[c] \in SUBSET Keys
      /\ todo \in [Passes -> SUBSET Keys] /\ kind \in [Passes -> Kinds] /\ on \in [Passes -> Keys \cup {None}]
  BY DEF TypeOK
<1>n. IsFiniteSet(todo[c]) /\ Cardinality(todo[c]) \in Nat BY <1>t, RestType
<1>1. ASSUME NEW k \in Keys, Visit(c, k)
      PROVE  Rest(kind'[c], todo'[c], on'[c]) < Rest(kind[c], todo[c], on[c])
  <2>1. /\ kind[c] # "idle" /\ kind'[c] = kind[c] /\ on[c] = None /\ on'[c] = k
        /\ k \in todo[c] /\ todo'[c] = todo[c] \ {k}
    BY <1>1, <1>t DEF Visit, Turn
  <2>2. Cardinality(todo'[c]) = Cardinality(todo[c]) - 1
    <3>1. PICK S : S = todo[c] OBVIOUS
    <3>2. IsFiniteSet(S) /\ k \in S /\ todo'[c] = S \ {k} BY <1>n, <2>1, <3>1
    <3>3. Cardinality(todo'[c]) = Cardinality(S) - 1 BY ONLY <3>2, FS_RemoveElement
    <3> QED BY <3>1, <3>3
  <2>3. k # None BY LibraryAssumption
  <2>4. Rest(kind[c], todo[c], on[c]) = 2 * Cardinality(todo[c]) + 1 BY <2>1 DEF Rest
  <2>5. Rest(kind'[c], todo'[c], on'[c]) = 2 * (Cardinality(todo[c]) - 1) + 2
    BY <2>1, <2>2, <2>3 DEF Rest
  <2> QED BY <1>n, <2>4, <2>5
<1>2. CASE PassFails(c)
  <2>1. /\ kind[c] # "idle" /\ kind'[c] = kind[c] /\ on[c] = None /\ on'[c] = None
        /\ todo[c] # {} /\ todo'[c] = {}
    BY <1>2, <1>t DEF PassFails
  <2>2. Cardinality({}) = 0 BY FS_EmptySet
  <2>3. Cardinality(todo[c]) # 0 BY <1>n, <2>1, FS_EmptySet
  <2>4. Rest(kind'[c], todo'[c], on'[c]) = 1 BY <2>1, <2>2 DEF Rest
  <2>5. Rest(kind[c], todo[c], on[c]) = 2 * Cardinality(todo[c]) + 1 BY <2>1 DEF Rest
  <2> QED BY <1>n, <2>3, <2>4, <2>5
<1>3. CASE PassEnds(c)
  <2>1. kind[c] # "idle" /\ kind'[c] = "idle" BY <1>3, <1>t DEF PassEnds
  <2> QED BY <1>n, <2>1 DEF Rest
<1> QED BY <1>1, <1>2, <1>3 DEF Goes

\* A pass that is given up or let go does not get longer.
LEMMA PassLess ==
  ASSUME IsFiniteSet(Keys), NEW S \in SUBSET Keys, NEW what, NEW k,
         NEW T \in {S, {}}, NEW j \in {k, None}
  PROVE  ~(Rest(what, T, j) > Rest(what, S, k))
<1>1. Cardinality(S) \in Nat BY RestType
<1>2. Cardinality({}) = 0 BY FS_EmptySet
<1> QED BY <1>1, <1>2 DEF Rest

\* A sync of n artists ends after n + 10 steps at most, a pass over n sources after
\* 2 * n + 1 of its own and of the ends it waits for.
THEOREM StepsRunOut == IsFiniteSet(Artists) /\ IsFiniteSet(Keys) => (Spec => EveryStepCounts)
<1> SUFFICES ASSUME IsFiniteSet(Artists), IsFiniteSet(Keys) PROVE Spec => EveryStepCounts
  OBVIOUS
<1>1. ASSUME TypeOK, TypeOK', [Next]_vars, NEW k \in Keys
      PROVE  /\ Works(k) => Left(sync'[k].pc, sync'[k].todo) < Left(sync[k].pc, sync[k].todo)
             /\ Left(sync'[k].pc, sync'[k].todo) > Left(sync[k].pc, sync[k].todo) =>
                  Free(k) /\ \E c \in Passes : Visit(c, k)
  <2>1. sync[k].todo \in SUBSET Artists /\ sync'[k].todo \in SUBSET Artists
    BY <1>1 DEF TypeOK, Syncs
  <2>2. /\ Left(sync[k].pc, sync[k].todo) \in Nat /\ Left(sync'[k].pc, sync'[k].todo) \in Nat
    BY <2>1, LeftType
  <2>3. Works(k) => Left(sync'[k].pc, sync'[k].todo) < Left(sync[k].pc, sync[k].todo)
    BY <1>1, <2>1, WorkAdvances, AdvanceCounts
  <2>4. ASSUME NEW j \in Keys, Works(j)
        PROVE  ~(Left(sync'[k].pc, sync'[k].todo) > Left(sync[k].pc, sync[k].todo))
    <3>1. CASE j = k BY <2>2, <2>3, <2>4, <3>1
    <3>2. CASE j # k
      <4>1. sync'[k] = sync[k] BY <1>1, <2>4, <3>2, WorkAdvances
      <4> QED BY <2>2, <4>1
    <3> QED BY <3>1, <3>2
  <2>5. CASE \A j \in Keys : ~Works(j)
    <3>1. sync'[k].pc = "none" => Left(sync'[k].pc, sync'[k].todo) = 0 BY DEF Left, Place
    <3>2. \/ sync'[k].pc = "none" \/ sync'[k] = sync[k]
          \/ Free(k) /\ \E c \in Passes : Visit(c, k)
      BY <1>1, <2>5, OthersLeave
    <3> QED BY <2>2, <2>3, <2>5, <3>1, <3>2
  <2> QED BY <2>3, <2>4, <2>5
<1>2. ASSUME TypeOK, TypeOK', [Next]_vars, NEW c \in Passes
      PROVE  /\ Goes(c) => Rest(kind'[c], todo'[c], on'[c]) < Rest(kind[c], todo[c], on[c])
             /\ Rest(kind'[c], todo'[c], on'[c]) > Rest(kind[c], todo[c], on[c]) => Begins(c)
  <2>1. todo[c] \in SUBSET Keys /\ todo'[c] \in SUBSET Keys BY <1>2 DEF TypeOK
  <2>2. Rest(kind[c], todo[c], on[c]) \in Nat /\ Rest(kind'[c], todo'[c], on'[c]) \in Nat
    BY <2>1, RestType
  <2>3. Goes(c) => Rest(kind'[c], todo'[c], on'[c]) < Rest(kind[c], todo[c], on[c])
    BY <1>2, PassCounts
  <2>4. CASE kind'[c] = "idle"
    <3>1. Rest(kind'[c], todo'[c], on'[c]) = 0 BY <2>4 DEF Rest
    <3> QED BY <2>2, <2>3, <3>1
  <2>5. CASE kind'[c] = kind[c] /\ todo'[c] \in {todo[c], {}} /\ on'[c] \in {on[c], None}
    <3>1. ~(Rest(kind'[c], todo'[c], on'[c]) > Rest(kind[c], todo[c], on[c]))
      BY <2>1, <2>5, PassLess
    <3> QED BY <2>3, <3>1
  <2>6. CASE \E k \in Keys : Visit(c, k)
    <3>1. Goes(c) BY <2>6 DEF Goes
    <3> QED BY <2>2, <2>3, <3>1
  <2> QED BY <1>2, <2>3, <2>4, <2>5, <2>6, PassStep
<1>3. IInv => TypeOK BY DEF IInv
<1>4. TypeOK /\ TypeOK' /\ [Next]_vars =>
        [/\ \A k \in Keys :
              /\ Works(k) => Left(sync[k].pc, sync[k].todo)' < Left(sync[k].pc, sync[k].todo)
              /\ Left(sync[k].pc, sync[k].todo)' > Left(sync[k].pc, sync[k].todo) =>
                   Free(k) /\ \E c \in Passes : Visit(c, k)
         /\ \A c \in Passes :
              /\ Goes(c) => Rest(kind[c], todo[c], on[c])' < Rest(kind[c], todo[c], on[c])
              /\ Rest(kind[c], todo[c], on[c])' > Rest(kind[c], todo[c], on[c]) => Begins(c)]_vars
  BY <1>1, <1>2
<1> QED BY <1>3, <1>4, Invariance, PTL DEF Spec, EveryStepCounts
=============================================================================
