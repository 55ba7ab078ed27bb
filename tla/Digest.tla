------------------------------ MODULE Digest ------------------------------
(***************************************************************************)
(* The notification digest (core/jobs/digest-notifier.ts): a tick of the   *)
(* schedule sends each channel what happened since the channel's delivery  *)
(* position and advances the position (db/queries/settings.ts).            *)
(*                                                                         *)
(* An item is a recommendation, an approval or a run that getDigestStats   *)
(* counts.  It is stamped when it begins and counted once it is done: the  *)
(* transaction that inserts or acts on a recommendation has ended, or the  *)
(* run has completed.  A digest is the set of the items it counts.         *)
(* A disabled channel also stands for one without the digest event, and    *)
(* all channels disabled for a digest that is not scheduled.               *)
(***************************************************************************)
EXTENDS Naturals, FiniteSets

CONSTANTS
  Channels, Items,
  Ticks,        \* cron callbacks: a replaced schedule may have one under way
  Window,       \* windowMsFromCron: the gap before the current fire
  None,
  MaxTime,      \* bound: the clock
  MaxFaults     \* bound: failed calls, lost answers, crashes

ASSUME DigestAssumption ==
  /\ Window \in Nat \ {0} /\ MaxTime \in Nat /\ MaxFaults \in Nat
  /\ None \notin Nat \cup Channels

Times == 0 .. MaxTime

VARIABLES
  now,
  stamp, done,    \* when an item began and when it was done
  enabled,        \* channels that want the digest
  pos,            \* settings.digestDeliveryPositions
  inFlight,       \* digestDeliveryInFlight
  phase,          \* what a tick awaits
  at, read,       \* the time of a tick and the positions it read
  todo,           \* channels it has not come to
  chan, since,    \* the channel it works on and its window
  seen, unseen,   \* items it counted, and those begun and not done then
  from,           \* start of the first window of a channel
  told,           \* items the channel accepted a digest of
  again,          \* those that may be told again
  late,           \* items done too late for the digest of their window
  faults

tick    == <<phase, at, read, todo, chan, since, seen, unseen>>
history == <<from, told, again, late>>
items   == <<now, stamp, done>>
vars    == <<items, enabled, pos, inFlight, tick, history, faults>>

Begun == {i \in Items : stamp[i] # None}
Done  == {i \in Items : done[i] # None}

TypeOK ==
  /\ now \in Times
  /\ stamp \in [Items -> Times \cup {None}] /\ done \in [Items -> Times \cup {None}]
  /\ enabled \subseteq Channels
  /\ pos \in [Channels -> Times \cup {None}]
  /\ inFlight \in BOOLEAN
  /\ phase \in [Ticks -> {"idle", "read", "next", "stats", "send", "save"}]
  /\ at \in [Ticks -> Times]
  /\ read \in [Ticks -> [Channels -> Times \cup {None}]]
  /\ todo \in [Ticks -> SUBSET Channels]
  /\ chan \in [Ticks -> Channels \cup {None}]
  /\ since \in [Ticks -> Times]
  /\ seen \in [Ticks -> SUBSET Items] /\ unseen \in [Ticks -> SUBSET Items]
  /\ from \in [Channels -> Times \cup {None}]
  /\ told \in [Channels -> SUBSET Items] /\ again \in [Channels -> SUBSET Items]
  /\ late \in [Channels -> SUBSET Items]
  /\ faults \in 0 .. MaxFaults

NoPositions == [c \in Channels |-> None]

\* a position may be absent, inherited, or in the future of this clock
Init ==
  /\ now = 0
  /\ stamp = [i \in Items |-> None] /\ done = [i \in Items |-> None]
  /\ enabled = Channels
  /\ pos \in [Channels -> (Times \ {MaxTime}) \cup {None}]
  /\ inFlight = FALSE
  /\ phase = [k \in Ticks |-> "idle"] /\ at = [k \in Ticks |-> 0]
  /\ read = [k \in Ticks |-> NoPositions] /\ todo = [k \in Ticks |-> {}]
  /\ chan = [k \in Ticks |-> None] /\ since = [k \in Ticks |-> 0]
  /\ seen = [k \in Ticks |-> {}] /\ unseen = [k \in Ticks |-> {}]
  /\ from = [c \in Channels |-> None]
  /\ told = [c \in Channels |-> {}] /\ again = [c \in Channels |-> {}]
  /\ late = [c \in Channels |-> {}]
  /\ faults = 0

Fault == faults < MaxFaults /\ faults' = faults + 1

-----------------------------------------------------------------------------
(* The world. *)

Clock ==
  /\ now < MaxTime /\ now' = now + 1
  /\ UNCHANGED <<stamp, done, enabled, pos, inFlight, tick, history, faults>>

Begin(i) ==
  /\ i \notin Begun /\ stamp' = [stamp EXCEPT ![i] = now]
  /\ UNCHANGED <<now, done, enabled, pos, inFlight, tick, history, faults>>

End(i) ==
  /\ i \in Begun \ Done /\ done' = [done EXCEPT ![i] = now]
  /\ UNCHANGED <<now, stamp, enabled, pos, inFlight, tick, history, faults>>

Toggle(c) ==
  /\ enabled' = IF c \in enabled THEN enabled \ {c} ELSE enabled \cup {c}
  /\ UNCHANGED <<items, pos, inFlight, tick, history, faults>>

-----------------------------------------------------------------------------
(* A tick. *)

\* mutant: ticks overlap
MayRun == TRUE

MayStart == ~inFlight

Fire(k) ==
  /\ phase[k] = "idle" /\ MayStart
  /\ inFlight' = TRUE
  /\ phase' = [phase EXCEPT ![k] = "read"]
  /\ UNCHANGED <<items, enabled, pos, at, read, todo, chan, since, seen, unseen, history, faults>>

\* the channels, then the time, then the positions: one step, since other ticks are kept out
Read(k) ==
  /\ phase[k] = "read"
  /\ phase' = [phase EXCEPT ![k] = "next"]
  /\ at' = [at EXCEPT ![k] = now]
  /\ read' = [read EXCEPT ![k] = pos]
  /\ todo' = [todo EXCEPT ![k] = enabled]
  /\ UNCHANGED <<items, enabled, pos, inFlight, chan, since, seen, unseen, history, faults>>

\* nothing of the channel is left in the tick
Leave(k) ==
  /\ phase' = [phase EXCEPT ![k] = "next"]
  /\ chan' = [chan EXCEPT ![k] = None]
  /\ since' = [since EXCEPT ![k] = 0]
  /\ seen' = [seen EXCEPT ![k] = {}] /\ unseen' = [unseen EXCEPT ![k] = {}]

Enter(k, c, s) ==
  /\ phase' = [phase EXCEPT ![k] = "stats"]
  /\ chan' = [chan EXCEPT ![k] = c]
  /\ since' = [since EXCEPT ![k] = s]
  /\ from' = [from EXCEPT ![c] = IF @ = None THEN s ELSE @]
  /\ UNCHANGED <<seen, unseen>>

Valid(p, t) == p # None /\ p <= t

FirstWindow(t) == IF t < Window THEN 0 ELSE t - Window

\* a position that is valid gives the window, any other is first replaced by a start
Channel(k, c) ==
  LET p == read[k][c]  t == at[k] IN
  /\ phase[k] = "next" /\ c \in todo[k]
  /\ todo' = [todo EXCEPT ![k] = @ \ {c}]
  /\ \/ /\ Valid(p, t) /\ p = t                              \* continue
        /\ UNCHANGED <<phase, chan, since, seen, unseen, from, pos, faults>>
     \/ /\ Valid(p, t) /\ p # t
        /\ Enter(k, c, p) /\ UNCHANGED <<pos, faults>>
     \/ /\ ~Valid(p, t)
        /\ Enter(k, c, FirstWindow(t))
        /\ pos' = [pos EXCEPT ![c] = FirstWindow(t)] /\ UNCHANGED faults
     \/ /\ ~Valid(p, t) /\ Fault                             \* the start is not saved
        /\ UNCHANGED <<phase, chan, since, seen, unseen, from, pos>>
  /\ UNCHANGED <<items, enabled, inFlight, at, read, told, again, late>>

\* mutant: what has the stamp of the position is left to the window before
After(s) == {i \in Done : stamp[i] > s}

\* getDigestStats: no upper bound
Since(s) == {i \in Done : stamp[i] >= s}

Stats(k) ==
  /\ phase[k] = "stats"
  /\ seen' = [seen EXCEPT ![k] = Since(since[k])]
  /\ unseen' = [unseen EXCEPT ![k] = Begun \ Done]
  /\ phase' = [phase EXCEPT ![k] = IF Since(since[k]) = {} THEN "save" ELSE "send"]
  /\ UNCHANGED <<items, enabled, pos, inFlight, at, read, todo, chan, since, history, faults>>

Accept(k) == told' = [told EXCEPT ![chan[k]] = @ \cup seen[k]]

\* what has a stamp of the tick's time or later is counted again in the next window
Send(k) ==
  LET c == chan[k] IN
  /\ phase[k] = "send"
  /\ \/ /\ Accept(k)                                         \* ok
        /\ again' = [again EXCEPT ![c] = @ \cup {i \in seen[k] : stamp[i] >= at[k]}]
        /\ phase' = [phase EXCEPT ![k] = "save"]
        /\ UNCHANGED <<chan, since, seen, unseen, faults>>
     \/ /\ Accept(k) /\ Fault                                \* accepted, no answer
        /\ again' = [again EXCEPT ![c] = @ \cup seen[k]]
        /\ Leave(k)
     \/ /\ Fault /\ Leave(k) /\ UNCHANGED <<told, again>>    \* refused
  /\ UNCHANGED <<items, enabled, pos, inFlight, at, read, todo, from, late>>

Save(k) ==
  LET c == chan[k] IN
  /\ phase[k] = "save"
  /\ pos' = [pos EXCEPT ![c] = at[k]]
  /\ late' = [late EXCEPT ![c] = @ \cup {i \in unseen[k] : stamp[i] < at[k]}]
  /\ Leave(k)
  /\ UNCHANGED <<items, enabled, inFlight, at, read, todo, from, told, again, faults>>

\* the stats or the position fail: the channel is given up until the next tick
Fails(k) ==
  LET c == chan[k] IN
  /\ phase[k] \in {"stats", "save"} /\ Fault
  /\ again' = [again EXCEPT ![c] = @ \cup seen[k]]
  /\ Leave(k)
  /\ UNCHANGED <<items, enabled, pos, inFlight, at, read, todo, from, told, late>>

\* mutant: the flag is only reset by a tick that came to a channel
Kept(k) == inFlight' = (read[k] = [c \in Channels |-> at[k]])

Freed(k) == inFlight' = FALSE

\* the finally block
Finish(k) ==
  /\ phase[k] = "next" /\ todo[k] = {}
  /\ Freed(k)
  /\ phase' = [phase EXCEPT ![k] = "idle"]
  /\ at' = [at EXCEPT ![k] = 0] /\ read' = [read EXCEPT ![k] = NoPositions]
  /\ UNCHANGED <<items, enabled, pos, todo, chan, since, seen, unseen, history, faults>>

\* the settings or the positions cannot be read
ReadFails(k) ==
  /\ phase[k] = "read" /\ Fault
  /\ inFlight' = FALSE
  /\ phase' = [phase EXCEPT ![k] = "idle"]
  /\ UNCHANGED <<items, enabled, pos, at, read, todo, chan, since, seen, unseen, history>>

\* what a channel accepted and the tick did not come to record
Unrecorded(c) == UNION {seen[k] : k \in {j \in Ticks : phase[j] = "save" /\ chan[j] = c}}

Crash ==
  /\ Fault
  /\ inFlight' = FALSE
  /\ phase' = [k \in Ticks |-> "idle"] /\ at' = [k \in Ticks |-> 0]
  /\ read' = [k \in Ticks |-> NoPositions] /\ todo' = [k \in Ticks |-> {}]
  /\ chan' = [k \in Ticks |-> None] /\ since' = [k \in Ticks |-> 0]
  /\ seen' = [k \in Ticks |-> {}] /\ unseen' = [k \in Ticks |-> {}]
  /\ again' = [c \in Channels |-> again[c] \cup Unrecorded(c)]
  /\ UNCHANGED <<items, enabled, pos, from, told, late>>

Step(k) ==
  \/ Read(k) \/ ReadFails(k)
  \/ \E c \in Channels : Channel(k, c)
  \/ Stats(k) \/ Send(k) \/ Save(k) \/ Fails(k) \/ Finish(k)

Next ==
  \/ Clock
  \/ \E i \in Items : Begin(i) \/ End(i)
  \/ \E c \in Channels : Toggle(c)
  \/ \E k \in Ticks : Fire(k) \/ Step(k)
  \/ Crash

Spec == Init /\ [][Next]_vars

\* the clock goes on, the schedule fires again and again, and a tick that runs goes on
Fairness ==
  /\ WF_vars(Clock)
  /\ WF_vars(\E k \in Ticks : Fire(k))
  /\ \A k \in Ticks : WF_vars(Step(k))

FairSpec == Spec /\ Fairness

-----------------------------------------------------------------------------
(* Properties *)

\* Nothing between the first window of a channel and its position is skipped, whatever
\* calls fail and whenever the process stops: a channel was told of every item that is
\* done, unless the item was not done yet when its window was counted (setDeliveryPosition
\* follows the dispatch and the window starts where the one before ended).
NothingSkipped ==
  \A c \in Channels : from[c] # None =>
    \A i \in Done : from[c] <= stamp[i] /\ stamp[i] < pos[c] => i \in told[c] \cup late[c]

\* A digest about to be sent holds nothing its channel was told, but for what the channel
\* accepted and nobody recorded, and for what came between the time of a tick and its
\* count (the guard inFlight, which outlives a replaced schedule).
NoReplay ==
  \A k \in Ticks : phase[k] = "send" => seen[k] \cap told[chan[k]] \subseteq again[chan[k]]

\* what is done and was not before the first window of a channel
Wanted(c) == {i \in Done : from[c] = None \/ from[c] <= stamp[i]}

\* An item is told to every channel that stays enabled, though calls fail and the process
\* stops: no failure of a channel keeps the tick or the next ones from going on.
EventuallyTold ==
  \A c \in Channels, i \in Items :
    i \in Wanted(c) /\ stamp[i] < MaxTime ~>
      \/ i \in told[c] \cup late[c]
      \/ c \notin enabled
      \/ i \notin Wanted(c)
=============================================================================
