------------------------ MODULE ApprovalLocksProofs ------------------------
(***************************************************************************)
(* Proofs about ApprovalLocks, for any recommendations and any calls.      *)
(*                                                                         *)
(* The promises of one recommendation form a chain in the order of asking: *)
(* a task is chained to the one that asked just before it.  So once a task *)
(* is admitted, everybody who asked earlier is settled, which gives mutual *)
(* exclusion and the fair order at once.                                   *)
(***************************************************************************)
EXTENDS ApprovalLocks, FiniteSetTheorems, WellFoundedInduction, TLAPS

\* what a task asked for, holds and wants, by the state it is in
Phases ==
  \A t \in Tasks : \A r \in Recs :
    /\ r \in asked[t] \cup settled[t] => place[t][r] > 0
    /\ place[t][r] > 0 /\ r \notin settled[t] => r \in asked[t]
    /\ r \in want[t] \/ state[t] = "new" => place[t][r] = 0
    /\ state[t] \in {"new", "locking", "running"} => r \notin settled[t]
    /\ state[t] \in {"running", "leaving", "done"} => r \notin want[t]
    /\ state[t] \in {"running", "leaving"} /\ r \in asked[t] => Admitted(t, r)
    /\ r \in settled[t] => Admitted(t, r)
    /\ state[t] \in {"new", "done"} => r \notin asked[t]

\* places are given once
Places ==
  \A r \in Recs : \A t, u \in Tasks :
    /\ place[t][r] <= count[r]
    /\ t # u /\ place[t][r] = place[u][r] => place[t][r] = 0

\* a task is chained to the one that asked just before it
Chain ==
  \A r \in Recs : \A t \in Tasks :
    prev[t][r] # NoTask =>
      /\ place[prev[t][r]][r] > 0
      /\ place[prev[t][r]][r] < place[t][r]
      /\ \A u \in Tasks : place[u][r] < place[t][r] => place[u][r] <= place[prev[t][r]][r]

\* whoever asked before an admitted task is settled
Admission ==
  \A r \in Recs : \A t, s \in Tasks :
    (place[t][r] > 0 /\ Admitted(t, r) /\ place[s][r] > 0 /\ place[s][r] < place[t][r])
      => r \in settled[s]

\* the map remembers the last task that asked, until everybody is settled
LastAsked ==
  \A r \in Recs :
    /\ tail[r] = NoTask => \A t \in Tasks : place[t][r] > 0 => r \in settled[t]
    /\ tail[r] # NoTask => r \in asked[tail[r]] /\ place[tail[r]][r] = count[r]

IInv == TypeOK /\ Phases /\ Places /\ Chain /\ Admission /\ LastAsked

\* In the beginning the map is empty and every task is outside.
LEMMA InitIInv == Init => IInv
BY LockAssumption DEF Init, IInv, TypeOK, Phases, Places, Chain, Admission, LastAsked, Admitted

\* A task that asks is put behind the tail, and becomes the tail.
LEMMA AskIInv == ASSUME IInv, NEW t \in Tasks, NEW r \in Recs, Ask(t, r) PROVE IInv'
<1>1. TypeOK /\ TypeOK'
  BY DEF IInv, TypeOK, Ask, Smallest
<1>2. /\ place[t][r] = 0 /\ r \in want[t] /\ r \notin settled[t] /\ r \notin asked[t]
      /\ state[t] = "locking"
  BY DEF IInv, Phases, TypeOK, Ask, Smallest
<1>3. /\ place'[t][r] = count[r] + 1 /\ count'[r] = count[r] + 1
      /\ prev'[t][r] = tail[r] /\ tail'[r] = t
      /\ \A u \in Tasks : \A s \in Recs : (u # t \/ s # r) =>
           place'[u][s] = place[u][s] /\ prev'[u][s] = prev[u][s]
      /\ \A s \in Recs \ {r} : count'[s] = count[s] /\ tail'[s] = tail[s]
      /\ settled' = settled /\ state' = state
      /\ want' = [want EXCEPT ![t] = @ \ {r}] /\ asked' = [asked EXCEPT ![t] = @ \cup {r}]
  BY <1>1 DEF Ask, TypeOK
<1>4. \A u \in Tasks : \A s \in Recs : (u # t \/ s # r) => (Admitted(u, s)' <=> Admitted(u, s))
  BY <1>3 DEF Admitted
<1>5. count[r] \in Nat /\ \A u \in Tasks : place[u][r] \in Nat /\ place[u][r] <= count[r]
  BY <1>1 DEF TypeOK, IInv, Places
<1>6. Phases'
  BY <1>1, <1>2, <1>3, <1>4, <1>5 DEF IInv, Phases, TypeOK
<1>7. Places'
  <2> SUFFICES ASSUME NEW q \in Recs, NEW u \in Tasks, NEW v \in Tasks
               PROVE  /\ place'[u][q] <= count'[q]
                      /\ u # v /\ place'[u][q] = place'[v][q] => place'[u][q] = 0
    BY DEF Places
  <2>1. CASE q # r
    BY <2>1, <1>3 DEF IInv, Places
  <2>2. CASE q = r
    <3>1. \A w \in Tasks \ {t} : place'[w][r] = place[w][r] /\ place[w][r] < place'[t][r]
      BY <1>3, <1>5
    <3>2. place'[t][r] = count'[r] /\ \A w \in Tasks \ {t} : place'[w][r] <= count'[r]
      BY <1>3, <1>5
    <3>3. u # t /\ v # t /\ u # v /\ place'[u][r] = place'[v][r] => place'[u][r] = 0
      BY <3>1 DEF IInv, Places
    <3>4. place'[u][r] <= count'[r]
      BY <3>2, <1>5, <1>3
    <3>5. CASE u # t /\ v # t
      BY <2>2, <3>3, <3>4, <3>5
    <3>6. CASE u = t /\ v # t
      <4>1. place[v][r] \in Nat /\ place'[v][r] < place'[t][r]
        BY <3>1, <3>6, <1>5
      <4> QED BY <2>2, <3>4, <3>6, <4>1, <3>1, <1>5
    <3>7. CASE u # t /\ v = t
      <4>1. place[u][r] \in Nat /\ place'[u][r] < place'[t][r]
        BY <3>1, <3>7, <1>5
      <4> QED BY <2>2, <3>4, <3>7, <4>1, <3>1, <1>5
    <3>8. CASE u = t /\ v = t
      BY <2>2, <3>4, <3>8
    <3> QED BY <3>5, <3>6, <3>7, <3>8
  <2> QED BY <2>1, <2>2
<1>8. Chain'
  <2>1. tail[r] # NoTask => tail[r] \in Tasks \ {t} /\ place[tail[r]][r] = count[r] /\ count[r] > 0
    BY <1>1, <1>2, <1>5 DEF IInv, LastAsked, Phases, TypeOK
  <2> SUFFICES ASSUME NEW s \in Recs, NEW u \in Tasks, prev'[u][s] # NoTask
               PROVE  /\ place'[prev'[u][s]][s] > 0
                      /\ place'[prev'[u][s]][s] < place'[u][s]
                      /\ \A v \in Tasks : place'[v][s] < place'[u][s] => place'[v][s] <= place'[prev'[u][s]][s]
    BY DEF Chain
  <2>2. CASE s = r /\ u = t
    BY <2>1, <2>2, <1>3, <1>5, <1>1 DEF TypeOK
  <2>3. CASE s # r
    BY <2>3, <1>3, <1>1 DEF IInv, Chain, TypeOK
  <2>4. CASE s = r /\ u # t
    <3>1. prev[u][r] \in Tasks \ {t} /\ prev'[u][r] = prev[u][r] /\ place'[u][r] = place[u][r]
      BY <2>4, <1>1, <1>2, <1>3 DEF IInv, Chain, TypeOK
    <3>2. place'[prev[u][r]][r] = place[prev[u][r]][r]
      BY <3>1, <1>3
    <3>3. \A v \in Tasks : v # t => place'[v][r] = place[v][r]
      BY <1>3
    <3>4. ~(place'[t][r] < place'[u][r])
      BY <1>3, <1>5, <3>1
    <3> QED BY <2>4, <3>1, <3>2, <3>3, <3>4 DEF IInv, Chain
  <2> QED BY <2>2, <2>3, <2>4
<1>9. Admission'
  <2>1. Admitted(t, r)' => \A s \in Tasks : place[s][r] > 0 => r \in settled[s]
    <3>1. CASE tail[r] = NoTask
      BY <3>1 DEF IInv, LastAsked
    <3>2. CASE tail[r] # NoTask /\ r \in settled[tail[r]]
      <4> DEFINE p == tail[r]
      <4>1. p \in Tasks /\ place[p][r] = count[r] /\ place[p][r] > 0 /\ Admitted(p, r)
        BY <3>2, <1>1 DEF IInv, LastAsked, Phases, TypeOK
      <4>2. \A s \in Tasks \ {p} : place[s][r] > 0 => place[s][r] < place[p][r]
        BY <4>1, <1>5 DEF IInv, Places
      <4> QED BY <3>2, <4>1, <4>2 DEF IInv, Admission
    <3> QED BY <3>1, <3>2, <1>3 DEF Admitted
  <2> QED BY <2>1, <1>1, <1>2, <1>3, <1>4, <1>5 DEF IInv, Admission
<1>10. LastAsked'
  BY <1>1, <1>2, <1>3, <1>5, LockAssumption DEF IInv, LastAsked, TypeOK
<1> QED BY <1>1, <1>6, <1>7, <1>8, <1>9, <1>10 DEF IInv

\* A task that settles lets go whoever waits for it, and nobody else.
LEMMA SettleIInv == ASSUME IInv, NEW t \in Tasks, NEW r \in Recs, Settle(t, r) PROVE IInv'
<1>1. TypeOK /\ TypeOK'
  BY DEF IInv, TypeOK, Settle
<1>2. /\ r \in asked[t] /\ state[t] = "leaving" /\ Admitted(t, r) /\ place[t][r] > 0
      /\ settled' = [settled EXCEPT ![t] = @ \cup {r}]
      /\ UNCHANGED <<want, tail, prev, asked, place, count, state>>
  BY DEF IInv, Phases, TypeOK, Settle, Largest
<1>3. \A u \in Tasks : \A s \in Recs :
        /\ s \in settled[u] => s \in settled'[u]
        /\ s \in settled'[u] => s \in settled[u] \/ (u = t /\ s = r)
        /\ Admitted(u, s) => Admitted(u, s)'
        /\ Admitted(u, s)' => Admitted(u, s) \/ (s = r /\ prev[u][s] = t)
  BY <1>1, <1>2 DEF Admitted, TypeOK
<1>4. Phases'
  BY <1>1, <1>2, <1>3 DEF IInv, Phases, TypeOK
<1>5. Places' /\ Chain' /\ LastAsked'
  BY <1>1, <1>2, <1>3 DEF IInv, Places, Chain, LastAsked, TypeOK
<1>6. Admission'
  <2> SUFFICES ASSUME NEW q \in Recs, NEW u \in Tasks, NEW s \in Tasks,
                      place[u][q] > 0, Admitted(u, q)', place[s][q] > 0, place[s][q] < place[u][q]
               PROVE  q \in settled'[s]
    BY <1>2 DEF Admission
  <2>1. CASE Admitted(u, q)
    BY <2>1, <1>3 DEF IInv, Admission
  <2>2. CASE q = r /\ prev[u][r] = t
    <3>1. place[s][r] <= place[t][r]
      BY <2>2, LockAssumption DEF IInv, Chain
    <3>2. CASE s = t
      BY <3>2, <2>2, <1>1, <1>2 DEF TypeOK
    <3>3. CASE s # t
      <4>1. place[s][r] < place[t][r]
        <5>1. place[s][r] \in Nat /\ place[t][r] \in Nat /\ place[s][r] > 0
          BY <2>2, <1>1 DEF TypeOK
        <5>2. place[s][r] # place[t][r]
          BY <5>1, <3>3 DEF IInv, Places
        <5> QED BY <5>1, <5>2, <3>1
      <4> QED BY <4>1, <2>2, <1>2, <1>3 DEF IInv, Admission
    <3> QED BY <3>2, <3>3
  <2> QED BY <2>1, <2>2, <1>3
<1> QED BY <1>1, <1>4, <1>5, <1>6 DEF IInv

\* The cleanup removes the entry only if it is still the task's own.
LEMMA CleanupIInv == ASSUME IInv, NEW t \in Tasks, NEW r \in Recs, Cleanup(t, r) PROVE IInv'
<1>1. TypeOK /\ TypeOK'
  BY DEF IInv, TypeOK, Cleanup
<1>2. /\ r \in asked[t] /\ r \in settled[t] /\ state[t] = "leaving"
      /\ asked' = [asked EXCEPT ![t] = @ \ {r}]
      /\ UNCHANGED <<want, prev, settled, place, count>>
      /\ \A u \in Tasks : state'[u] = state[u] \/ (u = t /\ state'[u] = "done" /\ asked[u] = {r})
      /\ \A s \in Recs : tail'[s] = tail[s] \/ (s = r /\ tail[r] = t /\ tail'[r] = NoTask)
      /\ tail'[r] # t
  BY <1>1, LockAssumption DEF Cleanup, TypeOK
<1>3. \A u \in Tasks : \A s \in Recs : Admitted(u, s)' <=> Admitted(u, s)
  BY <1>2 DEF Admitted
<1>4. Phases'
  BY <1>1, <1>2, <1>3 DEF IInv, Phases, TypeOK
<1>5. Places' /\ Chain' /\ Admission'
  BY <1>1, <1>2, <1>3 DEF IInv, Places, Chain, Admission
<1>6. LastAsked'
  <2>1. ASSUME tail[r] = t
        PROVE  \A u \in Tasks : place[u][r] > 0 => r \in settled[u]
    <3>1. place[t][r] = count[r] /\ place[t][r] > 0 /\ Admitted(t, r)
      BY <2>1, <1>1, <1>2, LockAssumption DEF IInv, LastAsked, Phases
    <3>2. \A u \in Tasks \ {t} : place[u][r] > 0 => place[u][r] < place[t][r]
      <4> SUFFICES ASSUME NEW u \in Tasks \ {t}, place[u][r] > 0
                   PROVE  place[u][r] < place[t][r]
        OBVIOUS
      <4>1. place[u][r] \in Nat /\ place[t][r] \in Nat /\ place[u][r] <= place[t][r]
        BY <3>1, <1>1 DEF IInv, Places, TypeOK
      <4>2. place[u][r] # place[t][r]
        BY <4>1 DEF IInv, Places
      <4> QED BY <4>1, <4>2
    <3> QED BY <3>1, <3>2, <1>2 DEF IInv, Admission
  <2> QED BY <2>1, <1>1, <1>2 DEF IInv, LastAsked, TypeOK
<1> QED BY <1>1, <1>4, <1>5, <1>6 DEF IInv

\* Together: every step of every task keeps the invariant.
LEMMA NextIInv == IInv /\ [Next]_vars => IInv'
<1> SUFFICES ASSUME IInv, [Next]_vars PROVE IInv'
  OBVIOUS
<1>1. ASSUME NEW t \in Tasks, NEW ids \in SUBSET Recs, Call(t, ids) PROVE IInv'
  BY <1>1 DEF Call, IInv, TypeOK, Phases, Places, Chain, Admission, LastAsked, Admitted
<1>2. ASSUME NEW t \in Tasks, Run(t) PROVE IInv'
  BY <1>2 DEF Run, Holds, IInv, TypeOK, Phases, Places, Chain, Admission, LastAsked, Admitted
<1>3. ASSUME NEW t \in Tasks, Return(t) PROVE IInv'
  BY <1>3 DEF Return, IInv, TypeOK, Phases, Places, Chain, Admission, LastAsked, Admitted
<1>4. CASE UNCHANGED vars
  BY <1>4 DEF vars, IInv, TypeOK, Phases, Places, Chain, Admission, LastAsked, Admitted
<1> QED BY <1>1, <1>2, <1>3, <1>4, AskIInv, SettleIInv, CleanupIInv DEF Next, Step

\* The inductive invariant holds of every behaviour.
THEOREM Invariance == Spec => []IInv
<1> QED BY InitIInv, NextIInv, PTL DEF Spec

\* Calls, promises and places keep their types.
THEOREM TypeCorrect == Spec => []TypeOK
<1>1. IInv => TypeOK BY DEF IInv
<1> QED BY <1>1, Invariance, PTL

\* The first call that asked for a recommendation is the first admitted.
THEOREM OrderHolds == Spec => []FirstComeFirstServed
<1>1. IInv => FirstComeFirstServed
  BY DEF IInv, FirstComeFirstServed, Admission, Phases, TypeOK
<1> QED BY <1>1, Invariance, PTL

\* At no time do two calls work on the same recommendation.
THEOREM LockIsExclusive == Spec => []MutualExclusion
<1>1. IInv => MutualExclusion
  <2> SUFFICES ASSUME IInv, NEW t \in Tasks, NEW u \in Tasks, NEW r \in Recs, t # u,
                      state[t] = "running", state[u] = "running", r \in asked[t] \cap asked[u]
               PROVE  FALSE
    BY DEF MutualExclusion, IInv, TypeOK
  <2>1. /\ place[t][r] \in Nat \ {0} /\ place[u][r] \in Nat \ {0}
        /\ r \notin settled[t] /\ r \notin settled[u]
        /\ Admitted(t, r) /\ Admitted(u, r)
    BY DEF IInv, Phases, TypeOK
  <2>2. place[t][r] < place[u][r] \/ place[u][r] < place[t][r]
    BY <2>1 DEF IInv, Places
  <2> QED BY <2>1, <2>2 DEF IInv, Admission
<1> QED BY <1>1, Invariance, PTL

\* The map of promises is empty whenever no call is on its way.
THEOREM NoEntryLeft == Spec => []MapIsEmptied
<1>1. IInv => MapIsEmptied
  <2> SUFFICES ASSUME IInv, \A t \in Tasks : state[t] \in {"new", "done"}, NEW r \in Recs
               PROVE  tail[r] = NoTask
    BY DEF MapIsEmptied
  <2>1. tail[r] \in Tasks \cup {NoTask}
    BY DEF IInv, TypeOK
  <2>2. \A t \in Tasks : r \notin asked[t]
    BY DEF IInv, Phases
  <2> QED BY <2>1, <2>2 DEF IInv, LastAsked
<1> QED BY <1>1, Invariance, PTL

-----------------------------------------------------------------------------
(* The least and the greatest of a set of numbers. *)

Below == {p \in Nat \X Nat : p[1] < p[2]}

\* A set of numbers has a least one.
LEMMA NatMin ==
  ASSUME NEW S \in SUBSET Nat, S # {}
  PROVE  \E m \in S : \A n \in S : m <= n
<1>1. IsWellFoundedOn(Below, Nat)
  BY NatLessThanWellFounded DEF OpToRel, Below
<1>2. PICK m \in S : \A n \in S : <<n, m>> \notin Below
  BY <1>1, WFMin
<1>3. \A n \in S : n \in Nat /\ m \in Nat /\ (<<n, m>> \in Below <=> n < m)
  BY DEF Below
<1>4. ASSUME NEW n \in S PROVE m <= n
  <2>1. ~(n < m) /\ n \in Nat /\ m \in Nat
    BY <1>2, <1>3
  <2> QED BY <2>1
<1> QED BY <1>4

\* A bounded set of numbers has a greatest one.
LEMMA NatMax ==
  ASSUME NEW S \in SUBSET Nat, S # {}, NEW b \in Nat, \A n \in S : n <= b
  PROVE  \E m \in S : \A n \in S : n <= m
<1> DEFINE U == {u \in Nat : \A n \in S : n <= u}
<1>1. PICK u \in U : \A v \in U : u <= v
  BY NatMin
<1>2. u \in S
  <2> SUFFICES ASSUME u \notin S PROVE FALSE
    OBVIOUS
  <2>1. \A n \in S : n \in Nat /\ n < u
    BY <1>1
  <2>2. u \in Nat \ {0}
    <3>1. PICK n \in S : n < u
      BY <2>1
    <3>2. n \in Nat /\ u \in Nat
      BY <1>1
    <3> QED BY <3>1, <3>2
  <2>3. u - 1 \in U
    BY <2>1, <2>2
  <2> QED BY <2>3, <1>1
<1> QED BY <1>1, <1>2

-----------------------------------------------------------------------------
(* No cycle of waiting calls. *)

InProgress(t) == state[t] \in {"locking", "running", "leaving"}

Waits(t, r) == r \in asked[t] /\ ~Admitted(t, r)

\* The guards of a call's steps, written out.
CanStep(t) ==
  \/ /\ state[t] = "locking"
     /\ \A r \in asked[t] : Holds(t, r)
     /\ want[t] = {} \/ Smallest(want[t]) # {}
  \/ state[t] = "running"
  \/ /\ state[t] = "leaving"
     /\ asked[t] \cap settled[t] # {} \/ Largest(asked[t]) # {}

\* Whatever one of these calls waits for is in the hands of one of them.
Closed(B) == \A t \in B : \A r \in Recs : Waits(t, r) => prev[t][r] \in B

\* Calls that only wait for each other never come to a stand: one of them has a
\* step to take.  A cycle of waiting calls would be such a set without one.
NoWaitingCycle ==
  \A B \in SUBSET Tasks : (Closed(B) /\ \E t \in B : InProgress(t)) => \E u \in B : CanStep(u)

\* A call has the greatest of its locks to wait for, and asks for greater ones only.
Ascending ==
  \A t \in Tasks :
    /\ state[t] = "leaving" => asked[t] # {}
    /\ \A r \in asked[t] : ~Admitted(t, r) => \A s \in asked[t] : s <= r
    /\ state[t] = "locking" => \A r \in asked[t] : \A s \in want[t] : r < s

\* A step keeps this order of a call's locks.
LEMMA AscendingStep == IInv /\ Ascending /\ [Next]_vars => Ascending'
<1> SUFFICES ASSUME IInv, Ascending, [Next]_vars PROVE Ascending'
  OBVIOUS
<1>0. TypeOK
  BY DEF IInv
<1>1. ASSUME NEW t \in Tasks, NEW ids \in SUBSET Recs, Call(t, ids) PROVE Ascending'
  <2>1. asked[t] = {}
    BY <1>1 DEF Call, IInv, Phases, TypeOK
  <2> QED BY <2>1, <1>0, <1>1 DEF Call, Ascending, Admitted, TypeOK
<1>2. ASSUME NEW t \in Tasks, NEW r \in Recs, Ask(t, r) PROVE Ascending'
  <2>1. /\ r \in want[t] /\ (\A s \in want[t] : r <= s) /\ state[t] = "locking"
        /\ \A s \in asked[t] : Admitted(t, s) /\ s < r
    BY <1>2, <1>0 DEF Ask, Holds, Ascending, Smallest
  <2>2. /\ prev' = [prev EXCEPT ![t][r] = tail[r]] /\ asked' = [asked EXCEPT ![t] = @ \cup {r}]
        /\ want' = [want EXCEPT ![t] = @ \ {r}]
        /\ UNCHANGED <<settled, state>>
    BY <1>2 DEF Ask
  <2>3. \A u \in Tasks : \A s \in Recs : (u # t \/ s # r) => (Admitted(u, s)' <=> Admitted(u, s))
    BY <2>2, <1>0 DEF Admitted, TypeOK
  <2>4. \A u \in Tasks \ {t} : asked'[u] = asked[u] /\ want'[u] = want[u] /\ state'[u] = state[u]
    BY <2>2, <1>0 DEF TypeOK
  <2>5. asked'[t] = asked[t] \cup {r} /\ want'[t] = want[t] \ {r} /\ state'[t] = "locking"
    BY <2>1, <2>2, <1>0 DEF TypeOK
  <2>6. \A u \in Tasks : asked[u] \subseteq Recs /\ want[u] \subseteq Recs /\ Recs \subseteq Nat
    BY <1>0, LockAssumption DEF TypeOK
  <2> SUFFICES ASSUME NEW u \in Tasks
               PROVE  /\ state'[u] = "leaving" => asked'[u] # {}
                      /\ \A s \in asked'[u] : ~Admitted(u, s)' => \A q \in asked'[u] : q <= s
                      /\ state'[u] = "locking" => \A s \in asked'[u] : \A q \in want'[u] : s < q
    BY DEF Ascending
  <2>7. CASE u # t
    BY <2>7, <2>3, <2>4, <2>6 DEF Ascending
  <2>8. CASE u = t
    <3>1. \A q \in asked[t] \cup {r} : q <= r
      BY <2>1, <2>6
    <3>2. \A s \in asked[t] : Admitted(t, s)'
      BY <2>1, <2>3, <2>6
    <3>3. \A s \in asked[t] \cup {r} : \A q \in want[t] \ {r} : s < q
      BY <2>1, <2>6
    <3> QED BY <2>5, <2>8, <3>1, <3>2, <3>3
  <2> QED BY <2>7, <2>8
<1>3. ASSUME NEW t \in Tasks, NEW r \in Recs, Settle(t, r) PROVE Ascending'
  <2>1. \A u \in Tasks : \A s \in Recs : Admitted(u, s) => Admitted(u, s)'
    BY <1>3, <1>0 DEF Settle, Admitted, TypeOK
  <2> QED BY <2>1, <1>0, <1>3 DEF Settle, Ascending, TypeOK
<1>4. ASSUME NEW t \in Tasks, NEW r \in Recs, Cleanup(t, r) PROVE Ascending'
  <2>1. /\ asked' = [asked EXCEPT ![t] = @ \ {r}] /\ UNCHANGED <<prev, settled, want>>
        /\ state' = [state EXCEPT ![t] = IF asked[t] = {r} THEN "done" ELSE "leaving"]
        /\ r \in asked[t]
    BY <1>4 DEF Cleanup
  <2>2. \A u \in Tasks : \A s \in Recs : Admitted(u, s)' <=> Admitted(u, s)
    BY <2>1 DEF Admitted
  <2>3. \A u \in Tasks : asked'[u] \subseteq asked[u] /\ want'[u] = want[u]
    BY <2>1, <1>0 DEF TypeOK
  <2>4. \A u \in Tasks : state'[u] = "locking" => state[u] = "locking"
    BY <2>1, <1>0 DEF TypeOK
  <2>5. \A u \in Tasks : state'[u] = "leaving" => asked'[u] # {}
    BY <2>1, <1>0 DEF TypeOK, Ascending
  <2> QED BY <2>2, <2>3, <2>4, <2>5, <1>0 DEF Ascending, TypeOK
<1>5. ASSUME NEW t \in Tasks, Run(t) PROVE Ascending'
  BY <1>5, <1>0 DEF Run, Ascending, Admitted, TypeOK
<1>6. ASSUME NEW t \in Tasks, Return(t) PROVE Ascending'
  BY <1>6, <1>0 DEF Return, Ascending, Admitted, TypeOK
<1>7. CASE UNCHANGED vars
  BY <1>7 DEF vars, Ascending, Admitted
<1> QED BY <1>1, <1>2, <1>3, <1>4, <1>5, <1>6, <1>7 DEF Next, Step

\* A call takes its locks in ascending order and waits for the last one only.
LEMMA AscendingOrder == Spec => []Ascending
<1>1. Init => Ascending
  BY DEF Init, Ascending
<1> QED BY <1>1, AscendingStep, Invariance, PTL DEF Spec

\* Where somebody of B is not done with a recommendation, the first of them in the
\* order of asking is admitted.
LEMMA FirstIsAdmitted ==
  ASSUME IInv, NEW B \in SUBSET Tasks, Closed(B), NEW r \in Recs, NEW t \in B,
         r \in asked[t] \ settled[t]
  PROVE  \E u \in B : r \in asked[u] \ settled[u] /\ Admitted(u, r)
<1> DEFINE Open == {u \in B : r \in asked[u] \ settled[u]}
           Numbers == {place[u][r] : u \in Open}
<1>1. Numbers \subseteq Nat /\ Numbers # {}
  <2>1. t \in Open
    OBVIOUS
  <2>2. \A u \in Tasks : place[u][r] \in Nat
    BY DEF IInv, TypeOK
  <2> QED BY <2>1, <2>2
<1>2. PICK m \in Numbers : \A n \in Numbers : m <= n
  BY <1>1, NatMin
<1>3. PICK u \in Open : place[u][r] = m
  BY <1>2
<1>4. ASSUME ~Admitted(u, r) PROVE FALSE
  <2>1. /\ prev[u][r] # NoTask /\ r \notin settled[prev[u][r]]
        /\ prev[u][r] \in B
    BY <1>3, <1>4 DEF Admitted, Closed, Waits
  <2>2. place[prev[u][r]][r] > 0 /\ place[prev[u][r]][r] < place[u][r]
    BY <1>3, <2>1 DEF IInv, Chain
  <2>3. prev[u][r] \in Open
    BY <2>1, <2>2 DEF IInv, Phases
  <2>4. place[prev[u][r]][r] \in Numbers
    BY <2>3
  <2>5. m <= place[prev[u][r]][r] /\ m \in Nat /\ place[prev[u][r]][r] \in Nat
    BY <2>4, <1>1, <1>2
  <2> QED BY <2>2, <2>5, <1>3
<1> QED BY <1>3, <1>4

\* A call that is under way and waits for nothing can go on.
LEMMA UnlessItWaits ==
  ASSUME IInv, Ascending, NEW b \in Nat, \A r \in Recs : r <= b,
         NEW t \in Tasks, InProgress(t), \A r \in Recs : ~Waits(t, r)
  PROVE  CanStep(t)
<1>0. /\ asked[t] \subseteq Recs /\ want[t] \subseteq Recs /\ Recs \subseteq Nat
      /\ TypeOK
  BY LockAssumption DEF IInv, TypeOK
<1>1. CASE state[t] = "locking"
  <2>1. \A r \in asked[t] : Holds(t, r)
    BY <1>0, <1>1 DEF Holds, Waits, IInv, Phases
  <2>2. ASSUME want[t] # {} PROVE Smallest(want[t]) # {}
    <3>1. PICK m \in want[t] : \A n \in want[t] : m <= n
      BY <2>2, <1>0, NatMin
    <3>2. m \in Smallest(want[t])
      BY <3>1 DEF Smallest
    <3> QED BY <3>2
  <2> QED BY <1>1, <2>1, <2>2 DEF CanStep
<1>2. CASE state[t] = "running"
  BY <1>2 DEF CanStep
<1>3. CASE state[t] = "leaving"
  <2>1. asked[t] # {} /\ \A r \in asked[t] : r <= b
    BY <1>0, <1>3 DEF Ascending
  <2>2. PICK m \in asked[t] : \A n \in asked[t] : n <= m
    BY <2>1, <1>0, NatMax
  <2>3. m \in Largest(asked[t])
    BY <2>2 DEF Largest
  <2> QED BY <1>3, <2>3 DEF CanStep
<1> QED BY <1>1, <1>2, <1>3 DEF InProgress

\* The calls of B that wait for the greatest recommendation anybody of B waits for
\* wait for one of B that waits for nothing.
LEMMA SomebodyMoves ==
  ASSUME IInv, Ascending, NEW b \in Nat, \A r \in Recs : r <= b
  PROVE  NoWaitingCycle
<1> SUFFICES ASSUME NEW B \in SUBSET Tasks, Closed(B), NEW t \in B, InProgress(t)
             PROVE  \E u \in B : CanStep(u)
  BY DEF NoWaitingCycle
<1> DEFINE Awaited == {r \in Recs : \E u \in B : Waits(u, r)}
<1>1. CASE Awaited = {}
  <2>1. \A r \in Recs : ~Waits(t, r)
    BY <1>1
  <2> QED BY <2>1, UnlessItWaits
<1>2. CASE Awaited # {}
  <2>1. Awaited \subseteq Nat /\ \A r \in Awaited : r <= b
    BY LockAssumption
  <2>2. PICK r \in Awaited : \A s \in Awaited : s <= r
    BY <1>2, <2>1, NatMax
  <2>3. PICK u \in B : Waits(u, r)
    BY <2>2
  <2>4. r \in asked[u] \ settled[u]
    BY <2>3 DEF Waits, IInv, Phases
  <2>5. PICK v \in B : r \in asked[v] \ settled[v] /\ Admitted(v, r)
    BY <2>4, FirstIsAdmitted
  <2>6. ASSUME NEW s \in Recs, Waits(v, s) PROVE FALSE
    <3>1. s \in Awaited /\ s <= r
      BY <2>6, <2>2
    <3>2. r <= s
      BY <2>5, <2>6 DEF Waits, Ascending
    <3>3. s = r
      BY <3>1, <3>2, <2>1
    <3> QED BY <3>3, <2>5, <2>6 DEF Waits
  <2>7. InProgress(v)
    BY <2>5 DEF IInv, TypeOK, Phases, InProgress
  <2> QED BY <2>6, <2>7, UnlessItWaits
<1> QED BY <1>1, <1>2

\* withApprovalLocks takes the locks in ascending order, so no calls ever wait for each
\* other in a circle, however many calls with whatever ids overlap: among calls that
\* wait only for one another one can go on.  Ids are bounded numbers in the database.
THEOREM NoDeadlock ==
  ASSUME NEW b \in Nat, \A r \in Recs : r <= b
  PROVE  Spec => []NoWaitingCycle
<1>1. IInv /\ Ascending => NoWaitingCycle
  BY SomebodyMoves
<1> QED BY <1>1, Invariance, AscendingOrder, PTL

-----------------------------------------------------------------------------
(* A call ends after finitely many steps of its own. *)

\* Four steps for a recommendation: to ask for it, to be admitted and give it back, to
\* settle its promise and to clear its entry; one to begin and one to end the work.
Ahead(t) == IF state[t] \in {"new", "locking"} THEN 2 ELSE IF state[t] = "running" THEN 1 ELSE 0

Remaining(t) ==
  4 * Cardinality(want[t]) + Cardinality(asked[t]) + Cardinality(asked[t] \ settled[t]) + Ahead(t)

EveryStepCounts ==
  [][\A t \in Tasks : Step(t) => /\ Remaining(t)' < Remaining(t)
                                 /\ \A u \in Tasks \ {t} : Remaining(u)' = Remaining(u)]_vars

\* Sets of bounded recommendations are finite, and one element counts one.
LEMMA RecsFinite ==
  ASSUME NEW b \in Nat, Recs \subseteq Nat, \A r \in Recs : r <= b, NEW S \in SUBSET Recs
  PROVE  /\ IsFiniteSet(S) /\ Cardinality(S) \in Nat
         /\ \A r \in S : Cardinality(S \ {r}) = Cardinality(S) - 1
         /\ \A r \in Recs \ S : Cardinality(S \cup {r}) = Cardinality(S) + 1
<1>1. S \subseteq 0 .. b /\ IsFiniteSet(0 .. b)
  BY FS_Interval
<1>2. IsFiniteSet(S)
  BY <1>1, FS_Subset
<1> QED BY <1>2, FS_CardinalityType, FS_RemoveElement, FS_AddElement

\* A step of a call uses up one of its remaining steps at least, and none of another's.
LEMMA StepCounts ==
  ASSUME IInv, NEW b \in Nat, \A r \in Recs : r <= b, NEW t \in Tasks, Step(t), ~UNCHANGED vars
  PROVE  /\ Remaining(t)' < Remaining(t)
         /\ \A u \in Tasks \ {t} : Remaining(u)' = Remaining(u)
<1>0. TypeOK /\ Recs \subseteq Nat
  BY LockAssumption DEF IInv
<1>1. \A u \in Tasks :
        /\ want[u] \in SUBSET Recs /\ asked[u] \in SUBSET Recs /\ asked[u] \ settled[u] \in SUBSET Recs
        /\ Cardinality(want[u]) \in Nat /\ Cardinality(asked[u]) \in Nat
        /\ Cardinality(asked[u] \ settled[u]) \in Nat /\ Ahead(u) \in Nat
  BY <1>0, RecsFinite DEF TypeOK, Ahead
<1>2. ASSUME NEW r \in Recs, Ask(t, r)
      PROVE  /\ Remaining(t)' < Remaining(t)
             /\ \A u \in Tasks \ {t} : Remaining(u)' = Remaining(u)
  <2>1. /\ want'[t] = want[t] \ {r} /\ asked'[t] = asked[t] \cup {r}
        /\ settled' = settled /\ state' = state /\ state[t] = "locking"
        /\ r \in want[t] /\ r \notin asked[t] /\ r \notin settled[t]
        /\ \A u \in Tasks \ {t} : want'[u] = want[u] /\ asked'[u] = asked[u]
    BY <1>2, <1>0 DEF Ask, Smallest, IInv, TypeOK, Phases
  <2>2. asked'[t] \ settled'[t] = (asked[t] \ settled[t]) \cup {r}
    BY <2>1
  <2>3. /\ Cardinality(want'[t]) = Cardinality(want[t]) - 1
        /\ Cardinality(asked'[t]) = Cardinality(asked[t]) + 1
        /\ Cardinality(asked'[t] \ settled'[t]) = Cardinality(asked[t] \ settled[t]) + 1
    BY <2>1, <2>2, <1>0, <1>1, RecsFinite
  <2>4. \A u \in Tasks : Ahead(u)' = Ahead(u)
    BY <2>1 DEF Ahead
  <2>5. Remaining(t)' < Remaining(t)
    <3>1. Remaining(t)' = 4 * (Cardinality(want[t]) - 1) + (Cardinality(asked[t]) + 1)
                            + (Cardinality(asked[t] \ settled[t]) + 1) + Ahead(t)
      BY <2>3, <2>4 DEF Remaining
    <3> QED BY <3>1, <1>1 DEF Remaining
  <2>6. \A u \in Tasks \ {t} : Remaining(u)' = Remaining(u)
    BY <2>1, <2>4 DEF Remaining
  <2> QED BY <2>5, <2>6
<1>3. ASSUME NEW r \in Recs, Settle(t, r)
      PROVE  /\ Remaining(t)' < Remaining(t)
             /\ \A u \in Tasks \ {t} : Remaining(u)' = Remaining(u)
  <2>1. /\ settled' = [settled EXCEPT ![t] = @ \cup {r}] /\ r \in asked[t] /\ state[t] = "leaving"
        /\ UNCHANGED <<want, tail, prev, asked, place, count, state>>
    BY <1>3 DEF Settle, Largest
  <2>2. r \notin settled[t]
    <3> SUFFICES ASSUME r \in settled[t] PROVE FALSE
      OBVIOUS
    <3>1. settled' = settled
      BY <2>1, <1>0 DEF TypeOK
    <3> QED BY <3>1, <2>1 DEF vars
  <2>3. /\ asked'[t] \ settled'[t] = (asked[t] \ settled[t]) \ {r} /\ r \in asked[t] \ settled[t]
        /\ \A u \in Tasks \ {t} : settled'[u] = settled[u]
    BY <2>1, <2>2, <1>0 DEF TypeOK
  <2>4. Cardinality(asked'[t] \ settled'[t]) = Cardinality(asked[t] \ settled[t]) - 1
    BY <2>3, <1>0, <1>1, RecsFinite
  <2>5. want' = want /\ asked' = asked /\ \A u \in Tasks : Ahead(u)' = Ahead(u)
    BY <2>1 DEF Ahead
  <2>6. Remaining(t)' < Remaining(t)
    BY <2>4, <2>5, <1>1 DEF Remaining
  <2>7. \A u \in Tasks \ {t} : Remaining(u)' = Remaining(u)
    BY <2>3, <2>5 DEF Remaining
  <2> QED BY <2>6, <2>7
<1>4. ASSUME NEW r \in Recs, Cleanup(t, r)
      PROVE  /\ Remaining(t)' < Remaining(t)
             /\ \A u \in Tasks \ {t} : Remaining(u)' = Remaining(u)
  <2>1. /\ asked'[t] = asked[t] \ {r} /\ r \in asked[t] /\ r \in settled[t]
        /\ settled' = settled /\ want' = want
        /\ state[t] = "leaving" /\ state'[t] \in {"leaving", "done"}
        /\ \A u \in Tasks \ {t} : asked'[u] = asked[u] /\ state'[u] = state[u]
    BY <1>4, <1>0 DEF Cleanup, TypeOK
  <2>2. asked'[t] \ settled'[t] = asked[t] \ settled[t]
    BY <2>1
  <2>3. Cardinality(asked'[t]) = Cardinality(asked[t]) - 1
    BY <2>1, <1>0, <1>1, RecsFinite
  <2>4. \A u \in Tasks : Ahead(u)' = Ahead(u)
    BY <2>1, <1>0 DEF Ahead, TypeOK
  <2>5. Remaining(t)' < Remaining(t)
    <3>1. Remaining(t)' = 4 * Cardinality(want[t]) + (Cardinality(asked[t]) - 1)
                            + Cardinality(asked[t] \ settled[t]) + Ahead(t)
      BY <2>1, <2>2, <2>3, <2>4 DEF Remaining
    <3> QED BY <3>1, <1>1 DEF Remaining
  <2>6. \A u \in Tasks \ {t} : Remaining(u)' = Remaining(u)
    BY <2>1, <2>4 DEF Remaining
  <2> QED BY <2>5, <2>6
<1>5. CASE Run(t) \/ Return(t)
  <2>1. /\ want' = want /\ asked' = asked /\ settled' = settled
        /\ \A u \in Tasks \ {t} : state'[u] = state[u]
        /\ \/ state[t] = "locking" /\ state'[t] = "running"
           \/ state[t] = "running" /\ state'[t] \in {"leaving", "done"}
    BY <1>5, <1>0 DEF Run, Return, TypeOK
  <2>2. Ahead(t)' < Ahead(t) /\ Ahead(t)' \in Nat /\ \A u \in Tasks \ {t} : Ahead(u)' = Ahead(u)
    BY <2>1 DEF Ahead
  <2>3. Remaining(t)' < Remaining(t)
    BY <2>1, <2>2, <1>1 DEF Remaining
  <2>4. \A u \in Tasks \ {t} : Remaining(u)' = Remaining(u)
    BY <2>1, <2>2 DEF Remaining
  <2> QED BY <2>3, <2>4
<1> QED BY <1>2, <1>3, <1>4, <1>5 DEF Step

\* A call of n recommendations is over after 4 * n + 2 steps of its own: together with
\* NoDeadlock, nothing but the scheduling of the steps is left of EveryCallEnds.
THEOREM StepsRunOut ==
  ASSUME NEW b \in Nat, \A r \in Recs : r <= b
  PROVE  Spec => EveryStepCounts
<1>1. IInv /\ [Next]_vars =>
        [\A t \in Tasks : Step(t) => /\ Remaining(t)' < Remaining(t)
                                     /\ \A u \in Tasks \ {t} : Remaining(u)' = Remaining(u)]_vars
  BY StepCounts
<1> QED BY <1>1, Invariance, PTL DEF Spec, EveryStepCounts

-----------------------------------------------------------------------------
(* The refinement of TicketLock. *)

\* The first state is the first state of the ticket lock.
LEMMA LockInit == Init => Lock!Init
<1> SUFFICES ASSUME Init PROVE Lock!Init
  OBVIOUS
<1>1. Phase = [t \in Tasks |-> "before"]
  BY DEF Init, Phase
<1> QED BY <1>1 DEF Init, Lock!Init

\* What a step does to the phases.
LEMMA PhaseStep ==
  ASSUME TypeOK, NEW t \in Tasks, NEW s \in {"new", "locking", "running", "leaving", "done"},
         state' = [state EXCEPT ![t] = s]
  PROVE  Phase' = [Phase EXCEPT ![t] = IF s \in {"new", "locking"} THEN "before"
                                       ELSE IF s = "running" THEN "inside" ELSE "after"]
BY DEF Phase, TypeOK

\* Asking draws a ticket.
LEMMA AskDraws == ASSUME IInv, NEW t \in Tasks, NEW r \in Recs, Ask(t, r) PROVE Lock!Draw(t, r)
<1>1. place[t][r] = 0 /\ state[t] = "locking"
  BY DEF Ask, Smallest, IInv, Phases, TypeOK
<1>2. Phase' = Phase /\ Phase[t] = "before"
  BY <1>1 DEF Ask, Phase
<1> QED BY <1>1, <1>2 DEF Ask, Lock!Draw, Lock!HasTicket

\* A call is admitted everywhere when all earlier tickets were handed back.
LEMMA RunEnters == ASSUME IInv, NEW t \in Tasks, Run(t) PROVE Lock!Enter(t)
<1>1. Phase[t] = "before"
  BY DEF Run, Phase
<1>2. Phase' = [Phase EXCEPT ![t] = "inside"]
  BY PhaseStep DEF Run, IInv
<1>3. ASSUME NEW r \in Recs, place[t][r] > 0, NEW u \in Tasks, place[u][r] > 0,
             place[u][r] < place[t][r]
      PROVE  r \in settled[u]
  <2>1. r \notin settled[t]
    BY DEF Run, IInv, Phases
  <2>2. r \in asked[t]
    BY <2>1, <1>3 DEF IInv, Phases
  <2>3. Admitted(t, r)
    BY <2>2 DEF Run, Holds
  <2> QED BY <2>3, <1>3 DEF IInv, Admission
<1>4. \A r \in Recs : Lock!HasTicket(t, r) => Lock!Served(t, r)
  BY <1>3 DEF Lock!HasTicket, Lock!Served
<1> QED BY <1>1, <1>2, <1>4 DEF Run, Lock!Enter

\* The end of the work leaves the section, with or without locks.
LEMMA ReturnLeaves == ASSUME IInv, NEW t \in Tasks, Return(t) PROVE Lock!Leave(t)
<1>1. Phase[t] = "inside"
  BY DEF Return, Phase
<1>2. PICK s \in {"leaving", "done"} : state' = [state EXCEPT ![t] = s]
  BY DEF Return
<1>3. Phase' = [Phase EXCEPT ![t] = "after"]
  BY <1>2, PhaseStep DEF IInv
<1> QED BY <1>1, <1>3 DEF Return, Lock!Leave

\* Settling a promise hands its ticket back.
LEMMA SettleReturns ==
  ASSUME IInv, NEW t \in Tasks, NEW r \in Recs, Settle(t, r)
  PROVE  Lock!Return(t, r)
<1>1. state[t] = "leaving" /\ r \in asked[t] /\ place[t][r] > 0
  BY DEF Settle, Largest, IInv, Phases
<1>2. Phase' = Phase /\ Phase[t] = "after"
  BY <1>1 DEF Settle, Phase
<1> QED BY <1>1, <1>2 DEF Settle, Lock!Return, Lock!HasTicket

\* Nobody who waits for the lock sees a call begin or the map cleaned up.
LEMMA OthersStutter ==
  ASSUME IInv, NEW t \in Tasks,
         \/ \E ids \in SUBSET Recs : Call(t, ids)
         \/ \E r \in Recs : Cleanup(t, r)
  PROVE  UNCHANGED Lock!lock
<1>1. /\ UNCHANGED <<place, count, settled>>
      /\ \A u \in Tasks \ {t} : state'[u] = state[u]
      /\ \/ state[t] = "new" /\ state'[t] = "locking"
         \/ state[t] = "leaving" /\ state'[t] \in {"leaving", "done"}
  BY DEF Call, Cleanup, IInv, TypeOK
<1>2. Phase' = Phase
  BY <1>1 DEF Phase
<1> QED BY <1>1, <1>2 DEF Lock!lock

\* A step of the map is a step of the ticket lock, or none.
LEMMA LockStep == IInv /\ [Next]_vars => [Lock!Next]_(Lock!lock)
<1> SUFFICES ASSUME IInv, [Next]_vars PROVE [Lock!Next]_(Lock!lock)
  OBVIOUS
<1>1. CASE UNCHANGED vars
  BY <1>1 DEF vars, Lock!lock, Phase
<1>2. CASE Next
  <2>1. PICK t \in Tasks : Step(t) \/ \E ids \in SUBSET Recs : Call(t, ids)
    BY <1>2 DEF Next
  <2> QED BY <2>1, AskDraws, RunEnters, ReturnLeaves, SettleReturns, OthersStutter
          DEF Step, Lock!Next
<1> QED BY <1>1, <1>2

\* The map of promises, whose entries come and go, implements a lock with tickets: for
\* any recommendations and calls, a call works only when every call that asked before it
\* at one of its recommendations is over.
THEOREM ImplementsLock == Spec => ImplementsTicketLock
<1> QED BY LockInit, LockStep, Invariance, PTL DEF Spec, ImplementsTicketLock, Lock!Spec
=============================================================================
