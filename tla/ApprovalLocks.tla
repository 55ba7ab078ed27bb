--------------------------- MODULE ApprovalLocks ---------------------------
(***************************************************************************)
(* withApprovalLock and withApprovalLocks: one critical section at a time  *)
(* per recommendation, built from a map of promises                        *)
(* (core/targets/lidarr-retry-worker.ts).                                  *)
(*                                                                         *)
(* A task is one call: it takes the locks of its recommendations in        *)
(* ascending order, runs, and gives them back in the opposite order.  The  *)
(* map remembers the last promise of each recommendation; a task that      *)
(* finds one waits until that promise is settled.                          *)
(***************************************************************************)
EXTENDS Naturals

CONSTANTS
  Recs,     \* recommendation ids
  Tasks,    \* calls of withApprovalLock(s)
  NoTask

ASSUME LockAssumption == Recs \subseteq Nat /\ NoTask \notin Tasks

VARIABLES
  want,     \* the recommendations a task has yet to lock
  tail,     \* the map `locks`: the last task that asked for a recommendation
  prev,     \* the promise a task chained itself to, for each recommendation
  asked,    \* the recommendations a task holds or waits for
  settled,  \* the recommendations whose promise of this task is settled
  place,    \* the order in which the tasks asked for a recommendation
  count,    \* how many tasks asked for a recommendation
  state     \* "new", "locking", "running", "leaving", "done"

vars == <<want, tail, prev, asked, settled, place, count, state>>

\* a task is inside once the promise before its own is settled
Admitted(t, r) == prev[t][r] # NoTask => r \in settled[prev[t][r]]

Holds(t, r) == r \in asked[t] \ settled[t] /\ Admitted(t, r)

\* mutant: the ids are taken in the order of the request
AnyOrder(ids) == ids

\* lock(index) asks for the smallest id that is left
Smallest(ids) == {r \in ids : \A s \in ids : r <= s}

Largest(ids) == {r \in ids : \A s \in ids : s <= r}

TypeOK ==
  /\ want \in [Tasks -> SUBSET Recs]
  /\ tail \in [Recs -> Tasks \cup {NoTask}]
  /\ prev \in [Tasks -> [Recs -> Tasks \cup {NoTask}]]
  /\ asked \in [Tasks -> SUBSET Recs]
  /\ settled \in [Tasks -> SUBSET Recs]
  /\ place \in [Tasks -> [Recs -> Nat]]
  /\ count \in [Recs -> Nat]
  /\ state \in [Tasks -> {"new", "locking", "running", "leaving", "done"}]
  /\ \A t \in Tasks : want[t] \cap asked[t] = {}

Init ==
  /\ want = [t \in Tasks |-> {}]
  /\ tail = [r \in Recs |-> NoTask]
  /\ prev = [t \in Tasks |-> [r \in Recs |-> NoTask]]
  /\ asked = [t \in Tasks |-> {}]
  /\ settled = [t \in Tasks |-> {}]
  /\ place = [t \in Tasks |-> [r \in Recs |-> 0]]
  /\ count = [r \in Recs |-> 0]
  /\ state = [t \in Tasks |-> "new"]

\* a request, the retry worker or the slskd orchestrator calls with its ids
Call(t, ids) ==
  /\ state[t] = "new"
  /\ state' = [state EXCEPT ![t] = "locking"]
  /\ want' = [want EXCEPT ![t] = ids]
  /\ UNCHANGED <<tail, prev, asked, settled, place, count>>

\* the synchronous part of withApprovalLock: chain to the promise found in the
\* map and put the own one there; lock(index + 1) runs inside the lock before
Ask(t, r) ==
  /\ state[t] = "locking"
  /\ r \in Smallest(want[t])
  /\ \A s \in asked[t] : Holds(t, s)
  /\ want' = [want EXCEPT ![t] = @ \ {r}]
  /\ prev' = [prev EXCEPT ![t][r] = tail[r]]
  /\ tail' = [tail EXCEPT ![r] = t]
  /\ asked' = [asked EXCEPT ![t] = @ \cup {r}]
  /\ count' = [count EXCEPT ![r] = @ + 1]
  /\ place' = [place EXCEPT ![t][r] = count[r] + 1]
  /\ UNCHANGED <<settled, state>>

\* mutant: run() is called without waiting for the promise before
RunAtOnce(t) ==
  /\ state[t] = "locking"
  /\ want[t] = {}
  /\ state' = [state EXCEPT ![t] = "running"]
  /\ UNCHANGED <<want, tail, prev, asked, settled, place, count>>

\* every lock is held: run() is called
Run(t) ==
  /\ state[t] = "locking"
  /\ want[t] = {}
  /\ \A s \in asked[t] : Holds(t, s)
  /\ state' = [state EXCEPT ![t] = "running"]
  /\ UNCHANGED <<want, tail, prev, asked, settled, place, count>>

\* run() resolves or rejects, which settles the promise of the last lock
Return(t) ==
  /\ state[t] = "running"
  /\ state' = [state EXCEPT ![t] = IF asked[t] = {} THEN "done" ELSE "leaving"]
  /\ UNCHANGED <<want, tail, prev, asked, settled, place, count>>

\* the promise of the innermost lock settles; those chained to it may go on
Settle(t, r) ==
  /\ state[t] = "leaving"
  /\ r \in Largest(asked[t])
  /\ settled' = [settled EXCEPT ![t] = @ \cup {r}]
  /\ UNCHANGED <<want, tail, prev, asked, place, count, state>>

\* mutant: the entry of the map goes although a later task put its own there
CleanupAlways(t, r) ==
  /\ state[t] = "leaving"
  /\ r \in asked[t] \cap settled[t]
  /\ tail' = [tail EXCEPT ![r] = NoTask]
  /\ asked' = [asked EXCEPT ![t] = @ \ {r}]
  /\ state' = [state EXCEPT ![t] = IF asked[t] = {r} THEN "done" ELSE "leaving"]
  /\ UNCHANGED <<want, prev, settled, place, count>>

\* the finally block: drop the entry of the map if it is still the own one
Cleanup(t, r) ==
  /\ state[t] = "leaving"
  /\ r \in asked[t] \cap settled[t]
  /\ tail' = IF tail[r] = t THEN [tail EXCEPT ![r] = NoTask] ELSE tail
  /\ asked' = [asked EXCEPT ![t] = @ \ {r}]
  /\ state' = [state EXCEPT ![t] = IF asked[t] = {r} THEN "done" ELSE "leaving"]
  /\ UNCHANGED <<want, prev, settled, place, count>>

Step(t) ==
  \/ \E r \in Recs : Ask(t, r) \/ Settle(t, r) \/ Cleanup(t, r)
  \/ Run(t) \/ Return(t)

Next == \E t \in Tasks : Step(t) \/ \E ids \in SUBSET Recs : Call(t, ids)

Spec == Init /\ [][Next]_vars

\* every run() ends, and promises settle
FairSpec == Spec /\ \A t \in Tasks : WF_vars(Step(t))

-----------------------------------------------------------------------------
(* Properties. *)

\* Two approvals, rejections, retries or download updates never work on one
\* recommendation at the same time, however their sets of ids overlap.
MutualExclusion ==
  \A t, u \in Tasks :
    (t # u /\ state[t] = "running" /\ state[u] = "running") => asked[t] \cap asked[u] = {}

\* The lock is fair: a task that asked later is never admitted before one that
\* asked earlier and is not finished.
FirstComeFirstServed ==
  \A t, u \in Tasks : \A r \in asked[t] \cap asked[u] :
    (place[t][r] < place[u][r] /\ r \notin settled[t]) => ~Admitted(u, r)

\* Whatever sets of recommendations the calls lock, none waits for ever: the
\* ascending order rules out a cycle of waiting calls.
EveryCallEnds == \A t \in Tasks : state[t] = "locking" ~> state[t] = "done"

\* When the calls are over the map is empty: entries do not pile up.
MapIsEmptied ==
  (\A t \in Tasks : state[t] \in {"new", "done"}) => \A r \in Recs : tail[r] = NoTask

-----------------------------------------------------------------------------
(* What callers may rely on. *)

Phase ==
  [t \in Tasks |-> IF state[t] \in {"new", "locking"} THEN "before"
                   ELSE IF state[t] = "running" THEN "inside" ELSE "after"]

Lock == INSTANCE TicketLock WITH
          ticket <- place, drawn <- count, returned <- settled, phase <- Phase

\* The map of promises implements the ticket lock of TicketLock: a call works while
\* every earlier call at each of its recommendations is over, and a later one is let
\* in only once it has given its place back, although entries of the map come and go.
ImplementsTicketLock == Lock!Spec
=============================================================================
