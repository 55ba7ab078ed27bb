---------------------------- MODULE DigestProofs ----------------------------
(***************************************************************************)
(* Proofs about Digest for any channels, items, ticks and schedule.        *)
(***************************************************************************)
EXTENDS Digest, FiniteSetTheorems, TLAPS

-----------------------------------------------------------------------------
(* The inductive invariant. *)

\* An item is done after it has begun.
Ordered == \A i \in Items : done[i] # None => stamp[i] # None

\* One tick at a time.
Single ==
  \A k \in Ticks : phase[k] # "idle" =>
    inFlight /\ \A j \in Ticks : phase[j] # "idle" => j = k

\* A channel has a position, not in the future, as soon as it has a window.
Placed(c) ==
  /\ told[c] \subseteq Begun
  /\ from[c] = None => told[c] = {}
  /\ from[c] # None => pos[c] # None /\ from[c] <= pos[c] /\ pos[c] <= now

\* What has begun before the position was told, or was too late for its digest.
Covered(c) ==
  from[c] # None =>
    \A i \in Begun : from[c] <= stamp[i] /\ stamp[i] < pos[c] => i \in told[c] \cup late[c]

\* What was told and will be counted again was accepted and not recorded, or is about to be.
Excused(c) ==
  from[c] # None =>
    \A i \in told[c] : stamp[i] >= pos[c] =>
      i \in again[c] \/ \E k \in Ticks : phase[k] = "save" /\ chan[k] = c /\ i \in seen[k]

\* The positions a tick has read are still the positions of the channels before it.
Ahead(k) ==
  phase[k] \in {"next", "stats", "send", "save"} =>
    /\ at[k] <= now
    /\ \A c \in todo[k] : read[k][c] = pos[c] /\ (from[c] # None => pos[c] <= at[k])

\* The channel a tick works on: its window begins at its position.
AtWork(k) ==
  phase[k] \in {"stats", "send", "save"} =>
    /\ chan[k] \in Channels /\ chan[k] \notin todo[k] /\ from[chan[k]] # None
    /\ pos[chan[k]] = since[k] /\ since[k] <= at[k]

\* What began in the window was counted, or was not done yet.
Counted(k) ==
  phase[k] \in {"send", "save"} =>
    /\ seen[k] \subseteq Begun
    /\ \A i \in Begun : since[k] <= stamp[i] /\ stamp[i] < at[k] => i \in seen[k] \cup unseen[k]

\* A digest about to be sent is new, and one that was sent is told.
Dispatched(k) ==
  /\ phase[k] = "send" => seen[k] \cap told[chan[k]] \subseteq again[chan[k]]
  /\ phase[k] = "save" =>
       /\ seen[k] \subseteq told[chan[k]]
       /\ {i \in seen[k] : stamp[i] >= at[k]} \subseteq again[chan[k]]

Channelwise(c) == Placed(c) /\ Covered(c) /\ Excused(c)
Tickwise(k)    == Ahead(k) /\ AtWork(k) /\ Counted(k) /\ Dispatched(k)

IInv ==
  /\ TypeOK /\ Ordered /\ Single
  /\ \A c \in Channels : Channelwise(c)
  /\ \A k \in Ticks : Tickwise(k)

-----------------------------------------------------------------------------
(* Types. *)

\* What happens around the ticks leaves every type.
LEMMA WorldTyped ==
  ASSUME TypeOK,
         \/ Clock
         \/ \E i \in Items : Begin(i) \/ End(i)
         \/ \E c \in Channels : Toggle(c)
  PROVE  TypeOK'
<1> USE DEF items, tick, history
<1>1. CASE Clock
  <2>1. now' \in Times BY <1>1, DigestAssumption DEF Clock, TypeOK, Times
  <2> QED BY <1>1, <2>1 DEF Clock, TypeOK
<1>2. ASSUME NEW i \in Items, Begin(i) PROVE TypeOK'
  <2>1. stamp' \in [Items -> Times \cup {None}] BY <1>2 DEF Begin, TypeOK
  <2> QED BY <1>2, <2>1 DEF Begin, TypeOK
<1>3. ASSUME NEW i \in Items, End(i) PROVE TypeOK'
  <2>1. done' \in [Items -> Times \cup {None}] BY <1>3 DEF End, TypeOK
  <2> QED BY <1>3, <2>1 DEF End, TypeOK
<1>4. ASSUME NEW c \in Channels, Toggle(c) PROVE TypeOK'
  <2>1. enabled' \subseteq Channels BY <1>4 DEF Toggle, TypeOK
  <2> QED BY <1>4, <2>1 DEF Toggle, TypeOK
<1> QED BY <1>1, <1>2, <1>3, <1>4

\* A fault is counted up to the bound.
LEMMA FaultTyped == TypeOK /\ Fault => faults' \in 0 .. MaxFaults
BY DigestAssumption DEF TypeOK, Fault

\* The first window of a channel begins at a time.
LEMMA FirstTyped == ASSUME NEW t \in Times PROVE FirstWindow(t) \in Times /\ FirstWindow(t) <= t
BY DigestAssumption DEF FirstWindow, Times

\* A tick may turn to a channel or leave one.
LEMMA TurnTyped ==
  ASSUME TypeOK, NEW k \in Ticks
  PROVE  /\ Leave(k) =>
              /\ phase' \in [Ticks -> {"idle", "read", "next", "stats", "send", "save"}]
              /\ chan' \in [Ticks -> Channels \cup {None}] /\ since' \in [Ticks -> Times]
              /\ seen' \in [Ticks -> SUBSET Items] /\ unseen' \in [Ticks -> SUBSET Items]
         /\ \A c \in Channels, s \in Times : Enter(k, c, s) =>
              /\ phase' \in [Ticks -> {"idle", "read", "next", "stats", "send", "save"}]
              /\ chan' \in [Ticks -> Channels \cup {None}] /\ since' \in [Ticks -> Times]
              /\ seen' \in [Ticks -> SUBSET Items] /\ unseen' \in [Ticks -> SUBSET Items]
              /\ from' \in [Channels -> Times \cup {None}]
<1>1. 0 \in Times BY DigestAssumption DEF Times
<1>2. ASSUME Leave(k)
      PROVE  /\ phase' \in [Ticks -> {"idle", "read", "next", "stats", "send", "save"}]
             /\ chan' \in [Ticks -> Channels \cup {None}] /\ since' \in [Ticks -> Times]
             /\ seen' \in [Ticks -> SUBSET Items] /\ unseen' \in [Ticks -> SUBSET Items]
  BY <1>1, <1>2 DEF Leave, TypeOK
<1>3. ASSUME NEW c \in Channels, NEW s \in Times, Enter(k, c, s)
      PROVE  /\ phase' \in [Ticks -> {"idle", "read", "next", "stats", "send", "save"}]
             /\ chan' \in [Ticks -> Channels \cup {None}] /\ since' \in [Ticks -> Times]
             /\ seen' \in [Ticks -> SUBSET Items] /\ unseen' \in [Ticks -> SUBSET Items]
             /\ from' \in [Channels -> Times \cup {None}]
  BY <1>3 DEF Enter, TypeOK
<1> QED BY <1>2, <1>3

\* Every step of a tick leaves every type.
LEMMA TickTyped ==
  ASSUME TypeOK, NEW k \in Ticks, Fire(k) \/ Step(k)
  PROVE  TypeOK'
<1> USE DEF items, tick, history
<1>0. 0 \in Times /\ NoPositions \in [Channels -> Times \cup {None}]
  BY DigestAssumption DEF Times, NoPositions
<1>1. CASE Fire(k) BY <1>1 DEF Fire, TypeOK
<1>2. CASE Read(k)
  <2>1. at' \in [Ticks -> Times] /\ read' \in [Ticks -> [Channels -> Times \cup {None}]]
    BY <1>2 DEF Read, TypeOK
  <2>2. todo' \in [Ticks -> SUBSET Channels] BY <1>2 DEF Read, TypeOK
  <2> QED BY <1>2, <2>1, <2>2 DEF Read, TypeOK
<1>3. CASE ReadFails(k) BY <1>3, FaultTyped DEF ReadFails, TypeOK
<1>4. ASSUME NEW c \in Channels, Channel(k, c) PROVE TypeOK'
  <2>0. /\ read[k][c] \in Times \cup {None} /\ at[k] \in Times
        /\ FirstWindow(at[k]) \in Times
    BY FirstTyped DEF TypeOK
  <2>1. todo' \in [Ticks -> SUBSET Channels] BY <1>4 DEF Channel, TypeOK
  <2>2. faults' \in 0 .. MaxFaults BY <1>4, FaultTyped DEF Channel, TypeOK
  <2>3. pos' \in [Channels -> Times \cup {None}] BY <1>4, <2>0 DEF Channel, TypeOK
  <2>4. \/ UNCHANGED <<phase, chan, since, seen, unseen, from>>
        \/ \E s \in Times : Enter(k, c, s)
    BY <1>4, <2>0 DEF Channel, Valid
  <2>5. /\ phase' \in [Ticks -> {"idle", "read", "next", "stats", "send", "save"}]
        /\ chan' \in [Ticks -> Channels \cup {None}] /\ since' \in [Ticks -> Times]
        /\ seen' \in [Ticks -> SUBSET Items] /\ unseen' \in [Ticks -> SUBSET Items]
        /\ from' \in [Channels -> Times \cup {None}]
    <3>1. CASE UNCHANGED <<phase, chan, since, seen, unseen, from>> BY <3>1 DEF TypeOK
    <3>2. CASE \E s \in Times : Enter(k, c, s) BY <3>2, TurnTyped
    <3> QED BY <2>4, <3>1, <3>2
  <2> QED BY <1>4, <2>1, <2>2, <2>3, <2>5 DEF Channel, TypeOK
<1>5. CASE Stats(k)
  <2>1. seen' \in [Ticks -> SUBSET Items] /\ unseen' \in [Ticks -> SUBSET Items]
    BY <1>5 DEF Stats, TypeOK, Since, Begun, Done
  <2>2. phase' \in [Ticks -> {"idle", "read", "next", "stats", "send", "save"}]
    BY <1>5 DEF Stats, TypeOK
  <2> QED BY <1>5, <2>1, <2>2 DEF Stats, TypeOK
<1>6. CASE Send(k)
  <2>1. told' \in [Channels -> SUBSET Items] /\ again' \in [Channels -> SUBSET Items]
    <3>1. seen[k] \subseteq Items /\ {i \in seen[k] : stamp[i] >= at[k]} \subseteq Items
      BY DEF TypeOK
    <3>2. told' \in [Channels -> SUBSET Items] BY <1>6, <3>1 DEF Send, Accept, TypeOK
    <3>3. again' \in [Channels -> SUBSET Items] BY <1>6, <3>1 DEF Send, TypeOK
    <3> QED BY <3>2, <3>3
  <2>2. faults' \in 0 .. MaxFaults BY <1>6, FaultTyped DEF Send, TypeOK
  <2>3. \/ phase' = [phase EXCEPT ![k] = "save"] /\ UNCHANGED <<chan, since, seen, unseen>>
        \/ Leave(k)
    BY <1>6 DEF Send
  <2>4. /\ phase' \in [Ticks -> {"idle", "read", "next", "stats", "send", "save"}]
        /\ chan' \in [Ticks -> Channels \cup {None}] /\ since' \in [Ticks -> Times]
        /\ seen' \in [Ticks -> SUBSET Items] /\ unseen' \in [Ticks -> SUBSET Items]
    BY <2>3, TurnTyped DEF TypeOK
  <2> QED BY <1>6, <2>1, <2>2, <2>4 DEF Send, TypeOK
<1>7. CASE Save(k)
  <2>1. pos' \in [Channels -> Times \cup {None}] BY <1>7 DEF Save, TypeOK
  <2>2. late' \in [Channels -> SUBSET Items] BY <1>7 DEF Save, TypeOK
  <2> QED BY <1>7, <2>1, <2>2, TurnTyped DEF Save, TypeOK
<1>8. CASE Fails(k)
  <2>1. again' \in [Channels -> SUBSET Items] BY <1>8 DEF Fails, TypeOK
  <2> QED BY <1>8, <2>1, TurnTyped, FaultTyped DEF Fails, TypeOK
<1>9. CASE Finish(k)
  <2>1. at' \in [Ticks -> Times] /\ read' \in [Ticks -> [Channels -> Times \cup {None}]]
    BY <1>0, <1>9 DEF Finish, TypeOK
  <2> QED BY <1>9, <2>1 DEF Finish, Freed, TypeOK
<1> QED BY <1>1, <1>2, <1>3, <1>4, <1>5, <1>6, <1>7, <1>8, <1>9 DEF Step

\* A crash leaves every type.
LEMMA CrashTyped == TypeOK /\ Crash => TypeOK'
<1> SUFFICES ASSUME TypeOK, Crash PROVE TypeOK' OBVIOUS
<1> USE DEF items, tick, history
<1>0. 0 \in Times /\ NoPositions \in [Channels -> Times \cup {None}]
  BY DigestAssumption DEF Times, NoPositions
<1>1. again' \in [Channels -> SUBSET Items] BY DEF Crash, TypeOK, Unrecorded
<1>2. at' \in [Ticks -> Times] /\ read' \in [Ticks -> [Channels -> Times \cup {None}]]
  BY <1>0 DEF Crash
<1>3. since' \in [Ticks -> Times] BY <1>0 DEF Crash
<1> QED BY <1>1, <1>2, <1>3, FaultTyped DEF Crash, TypeOK

\* The first state is well typed.
LEMMA InitTyped == Init => TypeOK
<1> SUFFICES ASSUME Init PROVE TypeOK OBVIOUS
<1>0. 0 \in Times /\ NoPositions \in [Channels -> Times \cup {None}]
  BY DigestAssumption DEF Times, NoPositions
<1>1. faults \in 0 .. MaxFaults BY DigestAssumption DEF Init
<1>2. at \in [Ticks -> Times] /\ read \in [Ticks -> [Channels -> Times \cup {None}]]
  BY <1>0 DEF Init
<1>3. pos \in [Channels -> Times \cup {None}] BY DEF Init
<1>4. now \in Times /\ since \in [Ticks -> Times] BY <1>0 DEF Init
<1> QED BY <1>1, <1>2, <1>3, <1>4 DEF Init, TypeOK

-----------------------------------------------------------------------------
(* The invariant holds at first, and what happens around the ticks keeps it. *)

\* Nothing was told and no tick works.
LEMMA InitHolds == Init => IInv
<1> SUFFICES ASSUME Init PROVE IInv OBVIOUS
<1>1. TypeOK BY InitTyped
<1>2. Ordered /\ Single BY DEF Init, Ordered, Single
<1>3. ASSUME NEW c \in Channels PROVE Channelwise(c)
  BY DEF Init, Channelwise, Placed, Covered, Excused
<1>4. ASSUME NEW k \in Ticks PROVE Tickwise(k)
  BY DEF Init, Tickwise, Ahead, AtWork, Counted, Dispatched
<1> QED BY <1>1, <1>2, <1>3, <1>4 DEF IInv

\* What has begun has a time.
LEMMA BegunTimes ==
  ASSUME TypeOK
  PROVE  /\ \A i \in Begun : i \in Items /\ stamp[i] \in Nat
         /\ now \in Nat
         /\ \A c \in Channels : /\ pos[c] # None => pos[c] \in Nat
                                /\ from[c] # None => from[c] \in Nat
         /\ \A k \in Ticks : at[k] \in Nat /\ since[k] \in Nat
BY DigestAssumption DEF TypeOK, Times, Begun

\* Later is still not in the future.
LEMMA ClockHolds == IInv /\ Clock => IInv'
<1> SUFFICES ASSUME IInv, Clock PROVE IInv' OBVIOUS
<1> USE DEF items, tick, history
<1>1. TypeOK' BY WorldTyped DEF IInv
<1>2. Ordered' /\ Single' BY DEF IInv, Clock, Ordered, Single
<1>3. ASSUME NEW c \in Channels PROVE Channelwise(c)'
  <2>1. Placed(c)' BY BegunTimes DEF IInv, Clock, Channelwise, Placed, Begun
  <2>2. Covered(c)' BY DEF IInv, Clock, Channelwise, Covered, Begun
  <2>3. Excused(c)' BY DEF IInv, Clock, Channelwise, Excused
  <2> QED BY <2>1, <2>2, <2>3 DEF Channelwise
<1>4. ASSUME NEW k \in Ticks PROVE Tickwise(k)'
  <2>1. Ahead(k)' BY BegunTimes DEF IInv, Clock, Tickwise, Ahead
  <2>2. AtWork(k)' BY DEF IInv, Clock, Tickwise, AtWork
  <2>3. Counted(k)' BY DEF IInv, Clock, Tickwise, Counted, Begun
  <2>4. Dispatched(k)' BY DEF IInv, Clock, Tickwise, Dispatched
  <2> QED BY <2>1, <2>2, <2>3, <2>4 DEF Tickwise
<1> QED BY <1>1, <1>2, <1>3, <1>4 DEF IInv

\* What begins now is not before a position nor before the time of a tick.
LEMMA BeginHolds == ASSUME IInv, NEW n \in Items, Begin(n) PROVE IInv'
<1> USE DEF items, tick, history
<1>0. TypeOK BY DEF IInv
<1>1. TypeOK' BY <1>0, WorldTyped
<1>2. /\ Begun' = Begun \cup {n} /\ n \notin Begun /\ stamp'[n] = now
      /\ \A i \in Begun : stamp'[i] = stamp[i]
  <2>1. now # None BY <1>0, DigestAssumption DEF TypeOK, Times
  <2> QED BY <1>0, <2>1 DEF Begin, TypeOK, Begun
<1>3. Ordered' BY <1>0, DigestAssumption DEF IInv, Begin, Ordered, TypeOK, Times
<1>4. Single' BY DEF IInv, Begin, Single
<1>5. ASSUME NEW c \in Channels PROVE Channelwise(c)'
  <2>0. Channelwise(c) BY DEF IInv
  <2>1. Placed(c)' BY <1>2, <2>0 DEF Begin, Channelwise, Placed
  <2>2. Covered(c)' BY <1>0, <1>2, <2>0, BegunTimes DEF Begin, Channelwise, Placed, Covered
  <2>3. Excused(c)' BY <1>2, <2>0 DEF Begin, Channelwise, Placed, Excused
  <2> QED BY <2>1, <2>2, <2>3 DEF Channelwise
<1>6. ASSUME NEW k \in Ticks PROVE Tickwise(k)'
  <2>0. Tickwise(k) BY DEF IInv
  <2>1. Ahead(k)' BY <2>0 DEF Begin, Tickwise, Ahead
  <2>2. AtWork(k)' BY <2>0 DEF Begin, Tickwise, AtWork
  <2>3. Counted(k)' BY <1>0, <1>2, <2>0, BegunTimes DEF Begin, Tickwise, Ahead, Counted
  <2>4. Dispatched(k)' BY <1>2, <2>0 DEF Begin, Tickwise, Counted, Dispatched
  <2> QED BY <2>1, <2>2, <2>3, <2>4 DEF Tickwise
<1> QED BY <1>1, <1>3, <1>4, <1>5, <1>6 DEF IInv

\* Whether an item is done, and whether a channel is enabled, is asked again by each tick.
LEMMA EndToggleHolds ==
  ASSUME IInv, (\E i \in Items : End(i)) \/ (\E c \in Channels : Toggle(c))
  PROVE  IInv'
<1> USE DEF items, tick, history
<1>1. TypeOK' BY WorldTyped DEF IInv
<1>2. UNCHANGED <<now, stamp, pos, inFlight, tick, history>> BY DEF End, Toggle
<1>3. Ordered' BY <1>2 DEF IInv, End, Toggle, Ordered, Begun, TypeOK
<1>4. Single' BY <1>2 DEF IInv, Single
<1>5. ASSUME NEW c \in Channels PROVE Channelwise(c)'
  BY <1>2 DEF IInv, Channelwise, Placed, Covered, Excused, Begun
<1>6. ASSUME NEW k \in Ticks PROVE Tickwise(k)'
  BY <1>2 DEF IInv, Tickwise, Ahead, AtWork, Counted, Dispatched, Begun
<1> QED BY <1>1, <1>3, <1>4, <1>5, <1>6 DEF IInv

-----------------------------------------------------------------------------
(* A step of a tick: the others are idle. *)

\* While a tick is at work every other is idle,
LEMMA Alone ==
  ASSUME IInv, NEW k \in Ticks, phase[k] # "idle"
  PROVE  inFlight /\ \A j \in Ticks \ {k} : phase[j] = "idle"
BY DEF IInv, Single

\* stays so,
LEMMA StaysSingle ==
  ASSUME NEW k \in Ticks, \A j \in Ticks \ {k} : phase'[j] = "idle",
         phase'[k] # "idle" => inFlight'
  PROVE  Single'
BY DEF Single

\* and an idle tick is no tick's concern.
LEMMA IdleTick == ASSUME NEW j \in Ticks, phase'[j] = "idle" PROVE Tickwise(j)'
BY DEF Tickwise, Ahead, AtWork, Counted, Dispatched

\* A channel nothing was recorded of, while no dispatch waits for its position.
LEMMA QuietChannel ==
  ASSUME IInv, NEW c \in Channels, UNCHANGED <<now, stamp>>,
         pos'[c] = pos[c], from'[c] = from[c], told'[c] = told[c],
         late'[c] = late[c], again[c] \subseteq again'[c],
         \A k \in Ticks : phase[k] = "save" /\ chan[k] = c =>
            \/ seen[k] \subseteq again'[c]
            \/ phase'[k] = "save" /\ chan'[k] = c /\ seen'[k] = seen[k]
  PROVE  Channelwise(c)'
<1>0. Channelwise(c) BY DEF IInv
<1>1. Placed(c)' BY <1>0 DEF Channelwise, Placed, Begun
<1>2. Covered(c)' BY <1>0 DEF Channelwise, Covered, Begun
<1>3. Excused(c)' BY <1>0 DEF Channelwise, Excused
<1> QED BY <1>1, <1>2, <1>3 DEF Channelwise

\* A step of one tick that leaves every channel as it was.
LEMMA QuietStep ==
  ASSUME IInv, TypeOK', NEW k \in Ticks, phase[k] # "save",
         \A j \in Ticks \ {k} : phase[j] = "idle" /\ phase'[j] = "idle",
         phase'[k] # "idle" => inFlight',
         UNCHANGED <<items, pos, from, told, again, late>>,
         Tickwise(k)'
  PROVE  IInv'
<1>1. Ordered' BY DEF IInv, Ordered, items
<1>2. Single' BY StaysSingle
<1>3. ASSUME NEW c \in Channels PROVE Channelwise(c)' BY QuietChannel DEF items
<1>4. ASSUME NEW j \in Ticks PROVE Tickwise(j)'
  <2>1. CASE j = k BY <2>1
  <2>2. CASE j # k BY <2>2, IdleTick
  <2> QED BY <2>1, <2>2
<1> QED BY <1>1, <1>2, <1>3, <1>4 DEF IInv

\* A tick begins when none works.
LEMMA FireHolds == ASSUME IInv, NEW k \in Ticks, Fire(k) PROVE IInv'
<1>0. TypeOK' BY TickTyped DEF IInv
<1>1. \A j \in Ticks : phase[j] = "idle" BY DEF IInv, Single, Fire, MayStart
<1>2. phase' = [phase EXCEPT ![k] = "read"] /\ phase \in [Ticks -> {"idle", "read", "next", "stats", "send", "save"}]
  BY DEF Fire, IInv, TypeOK
<1>3. phase'[k] = "read" /\ \A j \in Ticks \ {k} : phase'[j] = "idle" BY <1>1, <1>2
<1>4. Tickwise(k)' BY <1>3 DEF Tickwise, Ahead, AtWork, Counted, Dispatched
<1>5. UNCHANGED <<items, pos, from, told, again, late>> /\ inFlight' BY DEF Fire, history
<1> QED BY <1>0, <1>1, <1>3, <1>4, <1>5, QuietStep

\* How a tick of phases goes on.
LEMMA Moves ==
  ASSUME IInv, NEW k \in Ticks, phase[k] # "idle",
         NEW p \in {"idle", "read", "next", "stats", "send", "save"},
         phase' = [phase EXCEPT ![k] = p]
  PROVE  phase'[k] = p /\ \A j \in Ticks \ {k} : phase[j] = "idle" /\ phase'[j] = "idle"
BY Alone DEF IInv, TypeOK

\* The positions it reads are those of now.
LEMMA ReadHolds == ASSUME IInv, NEW k \in Ticks, Read(k) PROVE IInv'
<1>0. TypeOK' /\ TypeOK BY TickTyped DEF IInv, Step
<1>1. phase[k] = "read" /\ phase' = [phase EXCEPT ![k] = "next"] BY DEF Read
<1>2. phase'[k] = "next" /\ \A j \in Ticks \ {k} : phase[j] = "idle" /\ phase'[j] = "idle"
  BY <1>1, Moves
<1>3. at'[k] = now /\ read'[k] = pos BY <1>0 DEF Read, TypeOK
<1>4. UNCHANGED <<items, pos, from, told, again, late>> /\ inFlight'
  BY <1>1, Alone DEF Read, history
<1>5. Ahead(k)'
  <2>1. \A c \in todo'[k] : c \in Channels BY <1>0 DEF TypeOK
  <2>2. now <= now BY BegunTimes, <1>0
  <2> QED BY <1>3, <1>4, <2>1, <2>2 DEF Ahead, IInv, Channelwise, Placed, items
<1>6. Tickwise(k)' BY <1>2, <1>5 DEF Tickwise, AtWork, Counted, Dispatched
<1> QED BY <1>0, <1>1, <1>2, <1>4, <1>6, QuietStep

\* A tick that ends leaves nothing behind.
LEMMA EndTickHolds == ASSUME IInv, NEW k \in Ticks, ReadFails(k) \/ Finish(k) PROVE IInv'
<1>0. TypeOK' BY TickTyped DEF IInv, Step
<1>1. phase[k] \in {"read", "next"} /\ phase' = [phase EXCEPT ![k] = "idle"]
  BY DEF ReadFails, Finish
<1>2. phase'[k] = "idle" /\ \A j \in Ticks \ {k} : phase[j] = "idle" /\ phase'[j] = "idle"
  BY <1>1, Moves
<1>3. UNCHANGED <<items, pos, from, told, again, late>> BY DEF ReadFails, Finish, history
<1>4. Tickwise(k)' BY <1>2, IdleTick
<1> QED BY <1>0, <1>1, <1>2, <1>3, <1>4, QuietStep

\* A channel that is passed over: its position is this tick's time, or no start was saved.
LEMMA PassedHolds ==
  ASSUME IInv, NEW k \in Ticks, NEW c \in Channels, Channel(k, c),
         UNCHANGED <<phase, chan, since, seen, unseen, from, pos>>
  PROVE  IInv'
<1>0. TypeOK' /\ TypeOK BY TickTyped DEF IInv, Step
<1>1. phase[k] = "next" BY DEF Channel
<1>2. \A j \in Ticks \ {k} : phase[j] = "idle" /\ phase'[j] = "idle" BY <1>1, Alone
<1>3. UNCHANGED <<items, pos, from, told, again, late, at, read, inFlight>> BY DEF Channel
<1>4. todo'[k] \subseteq todo[k] BY <1>0 DEF Channel, TypeOK
<1>5. Ahead(k)' BY <1>3, <1>4 DEF IInv, Tickwise, Ahead, items
<1>6. Tickwise(k)' BY <1>1, <1>5 DEF Tickwise, AtWork, Counted, Dispatched
<1> QED BY <1>0, <1>1, <1>2, <1>3, <1>6, QuietStep, Alone

\* The window of a channel begins at its position: the one it had, or the start that
\* replaces a position nothing was told from.
LEMMA EnteredHolds ==
  ASSUME IInv, NEW k \in Ticks, NEW c \in Channels, NEW s \in Times, Channel(k, c),
         Enter(k, c, s), pos'[c] = s, s <= at[k], UNCHANGED now,
         \A d \in Channels \ {c} : pos'[d] = pos[d],
         from[c] # None => s = pos[c]
  PROVE  IInv'
<1>0. TypeOK' /\ TypeOK BY TickTyped DEF IInv, Step
<1>1. phase[k] = "next" /\ phase' = [phase EXCEPT ![k] = "stats"] BY DEF Channel, Enter
<1>2. phase'[k] = "stats" /\ \A j \in Ticks \ {k} : phase[j] = "idle" /\ phase'[j] = "idle"
  BY <1>1, Moves
<1>3. UNCHANGED <<items, told, again, late, at, read, inFlight>> BY DEF Channel
<1>4. chan'[k] = c /\ since'[k] = s BY <1>0 DEF Enter, TypeOK
<1>5. c \in todo[k] /\ todo'[k] = todo[k] \ {c} BY <1>0 DEF Channel, TypeOK
<1>6. /\ from'[c] = (IF from[c] = None THEN s ELSE from[c])
      /\ \A d \in Channels \ {c} : from'[d] = from[d]
  BY <1>0 DEF Enter, TypeOK
<1>7. s \in Nat /\ s # None BY DigestAssumption DEF Times
<1>8. Ahead(k) /\ at[k] <= now BY <1>1 DEF IInv, Tickwise, Ahead
<1>9. Ordered' BY <1>3 DEF IInv, Ordered, items
<1>10. Single' BY <1>1, <1>2, <1>3, StaysSingle, Alone
<1>11. Channelwise(c)'
  <2>0. Channelwise(c) BY DEF IInv
  <2>1. Placed(c)'
    <3>1. from'[c] # None /\ pos'[c] # None BY <1>6, <1>7
    <3>2. told'[c] \subseteq Begun' BY <1>3, <2>0 DEF Channelwise, Placed, items, Begun
    <3>3. from'[c] <= pos'[c]
      <4>1. CASE from[c] = None BY <4>1, <1>6, <1>7
      <4>2. CASE from[c] # None BY <4>2, <1>6, <2>0 DEF Channelwise, Placed
      <4> QED BY <4>1, <4>2
    <3>4. pos'[c] <= now' BY <1>0, <1>7, <1>8, BegunTimes
    <3> QED BY <3>1, <3>2, <3>3, <3>4 DEF Placed
  <2>2. Begun' = Begun /\ stamp' = stamp BY <1>3 DEF items, Begun
  <2>3. Covered(c)'
    <3>1. CASE from[c] = None
      <4>1. from'[c] = s /\ pos'[c] = s BY <3>1, <1>6
      <4> QED BY <4>1, <2>2, <1>0, <1>7, BegunTimes DEF Covered
    <3>2. CASE from[c] # None BY <3>2, <1>3, <1>6, <2>0, <2>2 DEF Channelwise, Covered
    <3> QED BY <3>1, <3>2
  <2>4. Excused(c)'
    <3>1. CASE from[c] = None BY <3>1, <1>3, <2>0 DEF Channelwise, Placed, Excused
    <3>2. CASE from[c] # None
      <4>1. pos'[c] = pos[c] BY <3>2
      <4>2. \A j \in Ticks : phase[j] # "save" BY <1>1, <1>2
      <4> QED BY <3>2, <4>1, <4>2, <1>3, <2>0, <2>2 DEF Channelwise, Excused
    <3> QED BY <3>1, <3>2
  <2> QED BY <2>1, <2>3, <2>4 DEF Channelwise
<1>12. ASSUME NEW d \in Channels, d # c PROVE Channelwise(d)'
  <2>1. \A j \in Ticks : phase[j] # "save" BY <1>1, <1>2
  <2> QED BY <1>3, <1>6, <1>12, <2>1, QuietChannel DEF items
<1>13. Tickwise(k)'
  <2>1. Ahead(k)'
    <3>1. todo[k] \subseteq Channels BY <1>0 DEF TypeOK
    <3>2. \A d \in todo[k] : read[k][d] = pos[d] /\ (from[d] # None => pos[d] <= at[k])
      BY <1>1, <1>8 DEF Ahead
    <3> QED BY <1>3, <1>5, <1>6, <1>8, <3>1, <3>2 DEF Ahead, items
  <2>2. AtWork(k)' BY <1>3, <1>4, <1>5, <1>6, <1>7 DEF AtWork
  <2>3. Counted(k)' /\ Dispatched(k)' BY <1>2 DEF Counted, Dispatched
  <2> QED BY <2>1, <2>2, <2>3 DEF Tickwise
<1>14. ASSUME NEW j \in Ticks PROVE Tickwise(j)'
  <2>1. CASE j = k BY <2>1, <1>13
  <2>2. CASE j # k BY <2>2, <1>2, IdleTick
  <2> QED BY <2>1, <2>2
<1> QED BY <1>0, <1>9, <1>10, <1>11, <1>12, <1>14 DEF IInv

\* A position is replaced only where nothing was told yet.
LEMMA ChannelHolds == ASSUME IInv, NEW k \in Ticks, NEW c \in Channels, Channel(k, c) PROVE IInv'
<1>0. TypeOK BY DEF IInv
<1>1. phase[k] = "next" /\ c \in todo[k] BY DEF Channel
<1>2. read[k][c] = pos[c] /\ (from[c] # None => pos[c] <= at[k])
  BY <1>1 DEF IInv, Tickwise, Ahead
<1>3. from[c] # None => pos[c] # None BY DEF IInv, Channelwise, Placed
<1>4. at[k] \in Times /\ FirstWindow(at[k]) \in Times /\ FirstWindow(at[k]) <= at[k]
  BY <1>0, FirstTyped DEF TypeOK
<1>5. UNCHANGED now BY DEF Channel, items
<1>6. CASE UNCHANGED <<phase, chan, since, seen, unseen, from, pos>> BY <1>6, PassedHolds
<1>7. CASE Valid(pos[c], at[k]) /\ Enter(k, c, pos[c]) /\ UNCHANGED pos
  <2>1. pos[c] \in Times /\ pos[c] <= at[k] BY <1>0, <1>7 DEF TypeOK, Valid
  <2> QED BY <1>5, <1>7, <2>1, EnteredHolds
<1>8. CASE /\ ~Valid(pos[c], at[k]) /\ Enter(k, c, FirstWindow(at[k]))
           /\ pos' = [pos EXCEPT ![c] = FirstWindow(at[k])]
  <2>1. from[c] = None BY <1>2, <1>3, <1>8 DEF Valid
  <2>2. pos'[c] = FirstWindow(at[k]) /\ \A d \in Channels \ {c} : pos'[d] = pos[d]
    BY <1>0, <1>8 DEF TypeOK
  <2> QED BY <1>4, <1>5, <1>8, <2>1, <2>2, EnteredHolds
<1> QED BY <1>2, <1>6, <1>7, <1>8 DEF Channel

\* The count of a window: what began in it is done, or was not done yet.
LEMMA StatsHolds == ASSUME IInv, NEW k \in Ticks, Stats(k) PROVE IInv'
<1>0. TypeOK' /\ TypeOK BY TickTyped DEF IInv, Step
<1> DEFINE next == IF Since(since[k]) = {} THEN "save" ELSE "send"
<1>1. phase[k] = "stats" /\ phase' = [phase EXCEPT ![k] = next] BY DEF Stats
<1>2. phase'[k] = next /\ \A j \in Ticks \ {k} : phase[j] = "idle" /\ phase'[j] = "idle"
  BY <1>1, Moves
<1>3. UNCHANGED <<items, pos, from, told, again, late, at, read, todo, chan, since, inFlight>>
  BY DEF Stats, history
<1>4. inFlight' BY <1>1, <1>3, Alone
<1>5. seen'[k] = Since(since[k]) /\ unseen'[k] = Begun \ Done BY <1>0 DEF Stats, TypeOK
<1>6. Ahead(k) /\ AtWork(k) BY DEF IInv, Tickwise
<1>7. Ahead(k)' /\ AtWork(k)' BY <1>1, <1>3, <1>6 DEF Ahead, AtWork, items
<1>8. Counted(k)'
  <2>1. Done \subseteq Begun BY DEF IInv, Ordered, Done, Begun
  <2>2. Begun' = Begun /\ stamp' = stamp BY <1>3 DEF items, Begun
  <2> QED BY <1>3, <1>5, <2>1, <2>2 DEF Counted, Since
<1>9. Dispatched(k)'
  <2>1. CASE Since(since[k]) = {} BY <2>1, <1>2, <1>5 DEF Dispatched
  <2>2. CASE Since(since[k]) # {}
    <3>1. phase'[k] = "send" BY <2>2, <1>2
    <3>2. chan[k] \in Channels /\ from[chan[k]] # None /\ pos[chan[k]] = since[k]
      BY <1>1, <1>6 DEF AtWork
    <3>3. Excused(chan[k]) BY <3>2 DEF IInv, Channelwise
    <3>4. \A j \in Ticks : phase[j] # "save" BY <1>1, <1>2
    <3>5. seen'[k] \cap told[chan[k]] \subseteq again[chan[k]]
      BY <1>5, <3>2, <3>3, <3>4 DEF Since, Excused
    <3> QED BY <1>3, <3>1, <3>5 DEF Dispatched
  <2> QED BY <2>1, <2>2
<1> QED BY <1>0, <1>1, <1>2, <1>3, <1>4, <1>7, <1>8, <1>9, QuietStep DEF Tickwise

\* A channel that was left, or came to its position, is behind the tick.
LEMMA LeftBehind ==
  ASSUME IInv, NEW k \in Ticks, phase[k] \in {"stats", "send", "save"},
         phase'[k] = "next", UNCHANGED <<items, from, at, read, todo>>,
         \A d \in Channels \ {chan[k]} : pos'[d] = pos[d]
  PROVE  Tickwise(k)'
<1>1. Ahead(k) /\ AtWork(k) BY DEF IInv, Tickwise
<1>2. chan[k] \notin todo[k] /\ todo[k] \subseteq Channels BY <1>1 DEF AtWork, IInv, TypeOK
<1>3. Ahead(k)' BY <1>1, <1>2 DEF Ahead, items
<1> QED BY <1>3 DEF Tickwise, AtWork, Counted, Dispatched

\* A tick at work on a channel, after a step that left the other channels alone.
LEMMA ChannelStep ==
  ASSUME IInv, TypeOK', NEW k \in Ticks, NEW c \in Channels, c = chan[k],
         phase[k] \in {"stats", "send", "save"},
         \A j \in Ticks \ {k} : phase[j] = "idle" /\ phase'[j] = "idle", inFlight',
         UNCHANGED <<items, from>>,
         \A d \in Channels \ {c} :
           pos'[d] = pos[d] /\ told'[d] = told[d] /\ late'[d] = late[d] /\ again'[d] = again[d],
         Channelwise(c)', Tickwise(k)'
  PROVE  IInv'
<1>1. Ordered' BY DEF IInv, Ordered, items
<1>2. Single' BY StaysSingle
<1>3. ASSUME NEW d \in Channels PROVE Channelwise(d)'
  <2>1. CASE d = c BY <2>1
  <2>2. CASE d # c
    <3>1. \A j \in Ticks : ~(phase[j] = "save" /\ chan[j] = d) BY <2>2
    <3>2. from'[d] = from[d] OBVIOUS
    <3> QED BY <2>2, <3>1, <3>2, QuietChannel DEF items
  <2> QED BY <2>1, <2>2
<1>4. ASSUME NEW j \in Ticks PROVE Tickwise(j)'
  <2>1. CASE j = k BY <2>1
  <2>2. CASE j # k BY <2>2, IdleTick
  <2> QED BY <2>1, <2>2
<1> QED BY <1>1, <1>2, <1>3, <1>4 DEF IInv

\* What is accepted is told, and will not be counted again once the position is saved.
LEMMA SentHolds ==
  ASSUME IInv, NEW k \in Ticks, Send(k), Accept(k),
         again' = [again EXCEPT ![chan[k]] = @ \cup {i \in seen[k] : stamp[i] >= at[k]}],
         phase' = [phase EXCEPT ![k] = "save"], UNCHANGED <<chan, since, seen, unseen>>
  PROVE  IInv'
<1>0. TypeOK' /\ TypeOK BY TickTyped DEF IInv, Step
<1>1. phase[k] = "send" BY DEF Send
<1>2. phase'[k] = "save" /\ \A j \in Ticks \ {k} : phase[j] = "idle" /\ phase'[j] = "idle"
  BY <1>1, Moves
<1>3. UNCHANGED <<items, pos, from, late, at, read, todo, inFlight>> BY DEF Send
<1>4. inFlight' BY <1>1, <1>3, Alone
<1>5. Tickwise(k) BY DEF IInv
<1>6. chan[k] \in Channels BY <1>1, <1>5 DEF Tickwise, AtWork
<1>c. PICK c \in Channels : c = chan[k] BY <1>6
<1>7. /\ told'[c] = told[c] \cup seen[k]
      /\ again'[c] = again[c] \cup {i \in seen[k] : stamp[i] >= at[k]}
  BY <1>0, <1>c DEF Accept, TypeOK
<1>8. \A d \in Channels \ {c} : told'[d] = told[d] /\ again'[d] = again[d]
  BY <1>0, <1>c DEF Accept, TypeOK
<1>9. Begun' = Begun /\ stamp' = stamp BY <1>3 DEF items, Begun
<1>10. Channelwise(c)'
  <2>0. Channelwise(c) BY DEF IInv
  <2>1. Placed(c)'
    <3>1. seen[k] \subseteq Begun BY <1>1, <1>5 DEF Tickwise, Counted
    <3>2. from[c] # None BY <1>1, <1>5, <1>c DEF Tickwise, AtWork
    <3> QED BY <1>3, <1>7, <1>9, <2>0, <3>1, <3>2 DEF Channelwise, Placed, items
  <2>2. Covered(c)' BY <1>3, <1>7, <1>9, <2>0 DEF Channelwise, Covered
  <2>3. Excused(c)'
    <3>1. \A j \in Ticks : phase[j] # "save" BY <1>1, <1>2
    <3>2. chan'[k] = chan[k] /\ seen'[k] = seen[k] OBVIOUS
    <3> QED BY <1>2, <1>3, <1>c, <1>7, <1>9, <2>0, <3>1, <3>2 DEF Channelwise, Excused
  <2> QED BY <2>1, <2>2, <2>3 DEF Channelwise
<1>11. Tickwise(k)'
  <2>1. Ahead(k)' /\ AtWork(k)' BY <1>1, <1>3, <1>5 DEF Tickwise, Ahead, AtWork, items
  <2>2. Counted(k)' BY <1>1, <1>3, <1>5, <1>9 DEF Tickwise, Counted
  <2>3. Dispatched(k)' BY <1>2, <1>3, <1>c, <1>7, <1>9 DEF Dispatched
  <2> QED BY <2>1, <2>2, <2>3 DEF Tickwise
<1>12. \A d \in Channels \ {c} : pos'[d] = pos[d] /\ late'[d] = late[d] BY <1>3
<1> QED BY <1>0, <1>1, <1>2, <1>3, <1>4, <1>c, <1>8, <1>10, <1>11, <1>12, ChannelStep

\* What a channel may have been told and nobody recorded may be told again.
LEMMA GivenUpHolds ==
  ASSUME IInv, NEW k \in Ticks, Send(k) \/ Fails(k), Leave(k)
  PROVE  IInv'
<1>0. TypeOK' /\ TypeOK BY TickTyped DEF IInv, Step
<1>1. phase[k] \in {"stats", "send", "save"} BY DEF Send, Fails
<1>2. phase'[k] = "next" /\ \A j \in Ticks \ {k} : phase[j] = "idle" /\ phase'[j] = "idle"
  BY <1>1, Moves DEF Leave
<1>3. UNCHANGED <<items, pos, from, late, at, read, todo, inFlight>> BY DEF Send, Fails
<1>4. inFlight' BY <1>1, <1>3, Alone
<1>5. Tickwise(k) BY DEF IInv
<1>6. chan[k] \in Channels /\ from[chan[k]] # None BY <1>1, <1>5 DEF Tickwise, AtWork
<1>c. PICK c \in Channels : c = chan[k] BY <1>6
<1>7. \/ UNCHANGED <<told, again>> /\ phase[k] = "send"
      \/ told' = told /\ again' = [again EXCEPT ![chan[k]] = @ \cup seen[k]]
      \/ /\ phase[k] = "send" /\ again' = [again EXCEPT ![chan[k]] = @ \cup seen[k]]
         /\ Accept(k)
  <2>1. phase[k] = "send" => phase[k] # "save" OBVIOUS
  <2>2. ~(phase' = [phase EXCEPT ![k] = "save"])
    BY <1>0, <1>2, <2>1 DEF TypeOK
  <2> QED BY <2>2 DEF Send, Fails
<1>8. \A d \in Channels \ {c} : told'[d] = told[d] /\ again'[d] = again[d]
  BY <1>0, <1>c, <1>7 DEF Accept, TypeOK
<1>9. Begun' = Begun /\ stamp' = stamp BY <1>3 DEF items, Begun
<1>10. /\ told[c] \subseteq told'[c]
       /\ told'[c] \subseteq told[c] \cup seen[k]
       /\ again[c] \subseteq again'[c]
       /\ \/ phase[k] = "send" /\ told'[c] = told[c]
          \/ seen[k] \subseteq again'[c]
  BY <1>0, <1>c, <1>7 DEF Accept, TypeOK
<1>11. Channelwise(c)'
  <2>0. Channelwise(c) BY DEF IInv
  <2>1. Placed(c)'
    <3>1. told'[c] \subseteq Begun
      <4>1. CASE phase[k] \in {"send", "save"}
        <5>1. seen[k] \subseteq Begun BY <4>1, <1>5 DEF Tickwise, Counted
        <5> QED BY <5>1, <1>10, <2>0 DEF Channelwise, Placed
      <4>2. CASE phase[k] = "stats"
        <5>1. told' = told BY <4>2, <1>7
        <5> QED BY <5>1, <2>0 DEF Channelwise, Placed
      <4> QED BY <1>1, <4>1, <4>2
    <3> QED BY <1>3, <1>6, <1>c, <1>9, <2>0, <3>1 DEF Channelwise, Placed, items
  <2>2. Covered(c)' BY <1>3, <1>9, <1>10, <2>0 DEF Channelwise, Covered
  <2>3. Excused(c)'
    <3>1. \A j \in Ticks : phase[j] = "save" => j = k BY <1>2
    <3>2. \A i \in told[c] : stamp[i] >= pos[c] =>
             i \in again[c] \/ (phase[k] = "save" /\ i \in seen[k])
      BY <1>6, <1>c, <2>0, <3>1 DEF Channelwise, Excused
    <3>3. \A i \in told'[c] : stamp[i] >= pos[c] => i \in again'[c]
      BY <1>10, <3>2
    <3> QED BY <1>3, <1>9, <3>3 DEF Excused
  <2> QED BY <2>1, <2>2, <2>3 DEF Channelwise
<1>12. Tickwise(k)' BY <1>1, <1>2, <1>3, LeftBehind
<1> QED BY <1>0, <1>1, <1>2, <1>3, <1>4, <1>c, <1>8, <1>11, <1>12, ChannelStep

\* The position moves over what was told, and over what was not done when it was counted.
LEMMA SaveHolds == ASSUME IInv, NEW k \in Ticks, Save(k) PROVE IInv'
<1>0. TypeOK' /\ TypeOK BY TickTyped DEF IInv, Step
<1>1. phase[k] = "save" BY DEF Save
<1>2. phase'[k] = "next" /\ \A j \in Ticks \ {k} : phase[j] = "idle" /\ phase'[j] = "idle"
  BY <1>1, Moves DEF Save, Leave
<1>3. UNCHANGED <<items, from, told, again, at, read, todo, inFlight>> BY DEF Save
<1>4. inFlight' BY <1>1, <1>3, Alone
<1>5. Tickwise(k) BY DEF IInv
<1>6. /\ chan[k] \in Channels /\ from[chan[k]] # None
      /\ pos[chan[k]] = since[k] /\ since[k] <= at[k] /\ at[k] <= now
  BY <1>1, <1>5 DEF Tickwise, AtWork, Ahead
<1>c. PICK c \in Channels : c = chan[k] BY <1>6
<1>7. /\ pos'[c] = at[k] /\ late'[c] = late[c] \cup {i \in unseen[k] : stamp[i] < at[k]}
      /\ \A d \in Channels \ {c} : pos'[d] = pos[d] /\ late'[d] = late[d]
  BY <1>0, <1>c DEF Save, TypeOK
<1>8. \A d \in Channels \ {c} : told'[d] = told[d] /\ again'[d] = again[d] BY <1>3
<1>9. Begun' = Begun /\ stamp' = stamp BY <1>3 DEF items, Begun
<1>10. at[k] \in Nat /\ at[k] # None /\ since[k] \in Nat
  BY <1>0, DigestAssumption DEF TypeOK, Times
<1>11. Channelwise(c)'
  <2>0. Channelwise(c) BY DEF IInv
  <2>1. Placed(c)'
    <3>1. from[c] # None /\ from[c] <= pos[c] /\ pos[c] <= at[k]
      BY <1>6, <1>c, <2>0 DEF Channelwise, Placed
    <3>2. from[c] \in Nat /\ pos[c] \in Nat BY <1>0, <1>6, <1>c, <1>10, <3>1, BegunTimes
    <3>3. from[c] <= at[k] BY <1>10, <3>1, <3>2
    <3> QED BY <1>3, <1>6, <1>7, <1>9, <1>10, <2>0, <3>1, <3>3 DEF Channelwise, Placed, items
  <2>2. Covered(c)'
    <3> SUFFICES ASSUME NEW i \in Begun, from[c] <= stamp[i], stamp[i] < at[k]
                 PROVE  i \in told[c] \cup late'[c]
      BY <1>3, <1>7, <1>9 DEF Covered
    <3>1. CASE stamp[i] < pos[c] BY <3>1, <1>6, <1>c, <1>7, <2>0 DEF Channelwise, Covered
    <3>2. CASE ~(stamp[i] < pos[c])
      <4>1. since[k] <= stamp[i] BY <3>2, <1>0, <1>6, <1>c, <1>10, BegunTimes
      <4>2. i \in seen[k] \cup unseen[k] BY <4>1, <1>1, <1>5 DEF Tickwise, Counted
      <4>3. seen[k] \subseteq told[c] BY <1>1, <1>5, <1>c DEF Tickwise, Dispatched
      <4> QED BY <4>2, <4>3, <1>7
    <3> QED BY <3>1, <3>2
  <2>3. Excused(c)'
    <3> SUFFICES ASSUME NEW i \in told[c], stamp[i] >= at[k] PROVE i \in again[c]
      BY <1>3, <1>7, <1>9 DEF Excused
    <3>1. i \in Begun BY <2>0 DEF Channelwise, Placed
    <3>2. stamp[i] >= pos[c] BY <3>1, <1>0, <1>6, <1>c, <1>10, BegunTimes
    <3>3. \A j \in Ticks : phase[j] = "save" => j = k BY <1>2
    <3>4. i \in again[c] \/ i \in seen[k]
      BY <3>2, <3>3, <1>6, <1>c, <2>0 DEF Channelwise, Excused
    <3>5. {n \in seen[k] : stamp[n] >= at[k]} \subseteq again[c]
      BY <1>1, <1>5, <1>c DEF Tickwise, Dispatched
    <3> QED BY <3>4, <3>5
  <2> QED BY <2>1, <2>2, <2>3 DEF Channelwise
<1>12. Tickwise(k)' BY <1>1, <1>2, <1>3, <1>c, <1>7, LeftBehind
<1> QED BY <1>0, <1>1, <1>2, <1>3, <1>4, <1>c, <1>7, <1>8, <1>11, <1>12, ChannelStep

\* What the process had not recorded when it stopped may be told again.
LEMMA CrashHolds == IInv /\ Crash => IInv'
<1> SUFFICES ASSUME IInv, Crash PROVE IInv' OBVIOUS
<1>1. TypeOK' BY CrashTyped DEF IInv
<1>2. UNCHANGED <<items, pos, from, told, late>> BY DEF Crash
<1>3. \A k \in Ticks : phase'[k] = "idle" BY DEF Crash
<1>4. Ordered' /\ Single' BY <1>2, <1>3 DEF IInv, Ordered, Single, items
<1>5. ASSUME NEW c \in Channels PROVE Channelwise(c)'
  <2>1. again'[c] = again[c] \cup Unrecorded(c) BY DEF Crash
  <2>2. \A k \in Ticks : phase[k] = "save" /\ chan[k] = c => seen[k] \subseteq Unrecorded(c)
    BY DEF Unrecorded
  <2>3. again[c] \subseteq again'[c] BY <2>1
  <2>4. \A k \in Ticks : phase[k] = "save" /\ chan[k] = c => seen[k] \subseteq again'[c]
    BY <2>1, <2>2
  <2> QED BY <1>2, <2>3, <2>4, QuietChannel DEF items
<1>6. ASSUME NEW k \in Ticks PROVE Tickwise(k)' BY <1>3, IdleTick
<1> QED BY <1>1, <1>4, <1>5, <1>6 DEF IInv

\* Every step keeps the invariant.
LEMMA NextHolds == IInv /\ [Next]_vars => IInv'
<1> SUFFICES ASSUME IInv, [Next]_vars PROVE IInv' OBVIOUS
<1>1. CASE Clock BY <1>1, ClockHolds
<1>2. ASSUME NEW i \in Items, Begin(i) \/ End(i) PROVE IInv'
  BY <1>2, BeginHolds, EndToggleHolds
<1>3. ASSUME NEW c \in Channels, Toggle(c) PROVE IInv' BY <1>3, EndToggleHolds
<1>4. ASSUME NEW k \in Ticks, Fire(k) PROVE IInv' BY <1>4, FireHolds
<1>5. ASSUME NEW k \in Ticks, Step(k) PROVE IInv'
  <2>1. CASE Read(k) BY <2>1, ReadHolds
  <2>2. CASE ReadFails(k) \/ Finish(k) BY <2>2, EndTickHolds
  <2>3. ASSUME NEW c \in Channels, Channel(k, c) PROVE IInv' BY <2>3, ChannelHolds
  <2>4. CASE Stats(k) BY <2>4, StatsHolds
  <2>5. CASE Send(k)
    <3>1. CASE Leave(k) BY <2>5, <3>1, GivenUpHolds
    <3>2. CASE ~Leave(k) BY <2>5, <3>2, SentHolds DEF Send
    <3> QED BY <3>1, <3>2
  <2>6. CASE Save(k) BY <2>6, SaveHolds
  <2>7. CASE Fails(k) BY <2>7, GivenUpHolds DEF Fails
  <2> QED BY <1>5, <2>1, <2>2, <2>3, <2>4, <2>5, <2>6, <2>7 DEF Step
<1>6. CASE Crash BY <1>6, CrashHolds
<1>7. CASE UNCHANGED vars
  <2> USE DEF vars, items, tick, history
  <2>1. TypeOK' BY <1>7 DEF IInv, TypeOK
  <2>2. Ordered' /\ Single' BY <1>7 DEF IInv, Ordered, Single
  <2>3. ASSUME NEW c \in Channels PROVE Channelwise(c)'
    BY <1>7 DEF IInv, Channelwise, Placed, Covered, Excused, Begun
  <2>4. ASSUME NEW k \in Ticks PROVE Tickwise(k)'
    BY <1>7 DEF IInv, Tickwise, Ahead, AtWork, Counted, Dispatched, Begun
  <2> QED BY <2>1, <2>2, <2>3, <2>4 DEF IInv
<1> QED BY <1>1, <1>2, <1>3, <1>4, <1>5, <1>6, <1>7 DEF Next

-----------------------------------------------------------------------------
(* Theorems. *)

\* The invariant holds of every behaviour.
THEOREM Invariance == Spec => []IInv
<1>1. Init => IInv BY InitHolds
<1>2. IInv /\ [Next]_vars => IInv' BY NextHolds
<1> QED BY <1>1, <1>2, PTL DEF Spec

\* Every variable of the digest keeps its type.
THEOREM TypeCorrect == Spec => []TypeOK
<1>1. IInv => TypeOK BY DEF IInv
<1> QED BY <1>1, Invariance, PTL

\* No item falls between two windows of a channel, whatever fails and whenever the process
\* stops: the position only moves to the time of a tick once its digest was accepted.
THEOREM NeverSkips == Spec => []NothingSkipped
<1>1. IInv => NothingSkipped
  <2> SUFFICES ASSUME IInv PROVE NothingSkipped OBVIOUS
  <2>1. Done \subseteq Begun BY DEF IInv, Ordered, Done, Begun
  <2> QED BY <2>1 DEF IInv, Channelwise, Covered, NothingSkipped
<1> QED BY <1>1, Invariance, PTL

\* A digest holds what its channel was told before only when nobody recorded that it was,
\* or when it came between the time of a tick and its count.
THEOREM NoneRepeated == Spec => []NoReplay
<1>1. IInv => NoReplay BY DEF IInv, Tickwise, Dispatched, NoReplay
<1> QED BY <1>1, Invariance, PTL

-----------------------------------------------------------------------------
(* A tick runs out of steps, and no channel keeps it for good: the flag     *)
(* digestDeliveryInFlight comes down.                                       *)

\* the steps of a channel, by how many await their turn
Place(p) ==
  IF p = "stats" THEN 4 ELSE IF p = "send" THEN 3 ELSE IF p = "save" THEN 2
  ELSE IF p = "next" THEN 1 ELSE 0

InChannels == {"next", "stats", "send", "save"}

\* A step of a tick ends it, reads the positions, takes up a channel, or brings the channel
\* at work nearer to its end.
Advances(p, S, q, T) ==
  \/ p = "read" /\ q \in {"idle", "next"}
  \/ p = "next" /\ q = "idle"
  \/ p = "next" /\ q \in {"next", "stats"} /\ \E c \in S : T = S \ {c}
  \/ p \in {"stats", "send", "save"} /\ q \in {"next", "send", "save"} /\ T = S /\ Place(q) < Place(p)

\* What the steps of a tick do to it, and that they leave the other ticks alone.
LEMMA TickAdvances ==
  ASSUME IInv, NEW k \in Ticks, Step(k)
  PROVE  /\ Advances(phase[k], todo[k], phase'[k], todo'[k])
         /\ \A j \in Ticks \ {k} : phase'[j] = phase[j] /\ todo'[j] = todo[j]
<1>0. TypeOK
  BY DEF IInv
<1>1. ASSUME Leave(k) PROVE phase'[k] = "next" /\ \A j \in Ticks \ {k} : phase'[j] = phase[j]
  BY <1>0, <1>1 DEF Leave, TypeOK
<1>2. CASE Read(k)
  BY <1>0, <1>2 DEF Read, Advances, TypeOK
<1>3. CASE ReadFails(k)
  BY <1>0, <1>3 DEF ReadFails, Advances, TypeOK
<1>4. ASSUME NEW c \in Channels, Channel(k, c)
      PROVE  /\ Advances(phase[k], todo[k], phase'[k], todo'[k])
             /\ \A j \in Ticks \ {k} : phase'[j] = phase[j] /\ todo'[j] = todo[j]
  <2>1. phase[k] = "next" /\ c \in todo[k] /\ todo' = [todo EXCEPT ![k] = @ \ {c}]
    BY <1>4 DEF Channel
  <2>2. phase' = phase \/ phase' = [phase EXCEPT ![k] = "stats"]
    BY <1>4 DEF Channel, Enter
  <2>3. todo'[k] = todo[k] \ {c} /\ \A j \in Ticks \ {k} : todo'[j] = todo[j]
    BY <1>0, <2>1 DEF TypeOK
  <2>4. phase'[k] \in {"next", "stats"} /\ \A j \in Ticks \ {k} : phase'[j] = phase[j]
    BY <1>0, <2>1, <2>2 DEF TypeOK
  <2> QED BY <2>1, <2>3, <2>4 DEF Advances
<1>5. CASE Stats(k)
  BY <1>0, <1>5 DEF Stats, Advances, Place, TypeOK
<1>6. CASE Send(k)
  <2>1. phase[k] = "send" /\ todo' = todo
    BY <1>6 DEF Send
  <2>2. phase'[k] \in {"next", "save"} /\ \A j \in Ticks \ {k} : phase'[j] = phase[j]
    <3>1. phase' = [phase EXCEPT ![k] = "save"] \/ Leave(k)
      BY <1>6 DEF Send
    <3> QED BY <1>0, <1>1, <3>1 DEF TypeOK
  <2> QED BY <2>1, <2>2 DEF Advances, Place
<1>7. CASE Save(k) \/ Fails(k)
  <2>1. phase[k] \in {"stats", "save"} /\ todo' = todo /\ Leave(k)
    BY <1>7 DEF Save, Fails
  <2> QED BY <1>1, <2>1 DEF Advances, Place
<1>8. CASE Finish(k)
  BY <1>0, <1>8 DEF Finish, Advances, TypeOK
<1> QED BY <1>2, <1>3, <1>4, <1>5, <1>6, <1>7, <1>8 DEF Step

\* What is no step of a tick leaves it alone, ends it, or begins it.
LEMMA OthersLeave ==
  ASSUME IInv, [Next]_vars, NEW k \in Ticks, \A j \in Ticks : ~Step(j)
  PROVE  phase'[k] = "idle" \/ Fire(k) \/ (phase'[k] = phase[k] /\ todo'[k] = todo[k])
<1>1. ASSUME NEW j \in Ticks, Fire(j) PROVE Fire(k) \/ (phase'[k] = phase[k] /\ todo'[k] = todo[k])
  BY <1>1 DEF Fire, IInv, TypeOK
<1>2. Crash => phase'[k] = "idle"
  BY DEF Crash
<1>3. \/ Clock \/ \E i \in Items : Begin(i) \/ End(i)
      \/ \E c \in Channels : Toggle(c)
      \/ UNCHANGED vars
      => phase' = phase /\ todo' = todo
  BY DEF Clock, Begin, End, Toggle, vars, tick
<1> QED BY <1>1, <1>2, <1>3 DEF Next

\* how many steps a tick has left at most
Left(p, S) ==
  IF p = "idle" THEN 0
  ELSE IF p = "read" THEN 4 * Cardinality(Channels) + 2
  ELSE 4 * Cardinality(S) + Place(p)

\* Every step of a tick uses up some of its steps, and nothing but the schedule gives it more.
EveryStepCounts ==
  [][\A k \in Ticks :
       /\ Step(k) => Left(phase[k], todo[k])' < Left(phase[k], todo[k])
       /\ Left(phase[k], todo[k])' > Left(phase[k], todo[k]) => Fire(k)]_vars

\* The number of steps that are left is one.
LEMMA LeftType ==
  ASSUME IsFiniteSet(Channels), NEW S \in SUBSET Channels, NEW p
  PROVE  /\ IsFiniteSet(S) /\ Cardinality(S) \in Nat /\ Cardinality(Channels) \in Nat
         /\ Cardinality(S) <= Cardinality(Channels)
         /\ Place(p) \in 0 .. 4 /\ Left(p, S) \in Nat
<1>1. IsFiniteSet(S) /\ Cardinality(S) <= Cardinality(Channels)
  BY FS_Subset
<1>2. Cardinality(S) \in Nat /\ Cardinality(Channels) \in Nat
  BY <1>1, FS_CardinalityType
<1>3. Place(p) \in 0 .. 4
  BY DEF Place
<1> QED BY <1>1, <1>2, <1>3 DEF Left

\* A step that advances a tick uses up at least one.
LEMMA AdvanceCounts ==
  ASSUME IsFiniteSet(Channels), NEW S \in SUBSET Channels, NEW T \in SUBSET Channels, NEW p, NEW q,
         Advances(p, S, q, T)
  PROVE  Left(q, T) < Left(p, S)
<1>1. /\ IsFiniteSet(S) /\ Cardinality(S) \in Nat /\ Cardinality(T) \in Nat
      /\ Cardinality(Channels) \in Nat /\ Cardinality(T) <= Cardinality(Channels)
      /\ Place(p) \in 0 .. 4 /\ Place(q) \in 0 .. 4
  BY LeftType
<1>2. CASE p = "read" /\ q \in {"idle", "next"}
  BY <1>1, <1>2 DEF Left, Place
<1>3. CASE p = "next" /\ q = "idle"
  BY <1>1, <1>3 DEF Left, Place
<1>4. ASSUME p = "next", q \in {"next", "stats"}, NEW c \in S, T = S \ {c}
      PROVE  Left(q, T) < Left(p, S)
  <2>1. Cardinality(T) = Cardinality(S) - 1
    BY <1>1, <1>4, FS_RemoveElement
  <2>2. Left(p, S) = 4 * Cardinality(S) + 1
        /\ Left(q, T) = 4 * (Cardinality(S) - 1) + Place(q)
    BY <1>4, <2>1 DEF Left, Place
  <2> QED BY <1>1, <2>2
<1>5. CASE /\ p \in {"stats", "send", "save"} /\ q \in {"next", "send", "save"}
           /\ T = S /\ Place(q) < Place(p)
  <2>1. Left(p, S) = 4 * Cardinality(S) + Place(p) /\ Left(q, T) = 4 * Cardinality(S) + Place(q)
    BY <1>5 DEF Left
  <2> QED BY <1>1, <1>5, <2>1
<1> QED BY <1>2, <1>3, <1>4, <1>5 DEF Advances

\* A tick of n channels ends after 4 * n + 2 steps at most.
THEOREM StepsRunOut == IsFiniteSet(Channels) => (Spec => EveryStepCounts)
<1> SUFFICES ASSUME IsFiniteSet(Channels) PROVE Spec => EveryStepCounts
  OBVIOUS
<1>1. ASSUME IInv, IInv', [Next]_vars, NEW k \in Ticks
      PROVE  /\ Step(k) => Left(phase'[k], todo'[k]) < Left(phase[k], todo[k])
             /\ Left(phase'[k], todo'[k]) > Left(phase[k], todo[k]) => Fire(k)
  <2>1. todo[k] \in SUBSET Channels /\ todo'[k] \in SUBSET Channels
    BY <1>1 DEF IInv, TypeOK
  <2>2. Left(phase[k], todo[k]) \in Nat /\ Left(phase'[k], todo'[k]) \in Nat
    BY <2>1, LeftType
  <2>3. Step(k) => Left(phase'[k], todo'[k]) < Left(phase[k], todo[k])
    BY <1>1, <2>1, TickAdvances, AdvanceCounts
  <2>4. ASSUME NEW j \in Ticks, Step(j) PROVE ~(Left(phase'[k], todo'[k]) > Left(phase[k], todo[k]))
    <3>1. CASE j = k
      BY <2>2, <2>3, <2>4, <3>1
    <3>2. CASE j # k
      <4>1. phase'[k] = phase[k] /\ todo'[k] = todo[k]
        BY <1>1, <2>4, <3>2, TickAdvances
      <4> QED BY <2>2, <4>1
    <3> QED BY <3>1, <3>2
  <2>5. CASE \A j \in Ticks : ~Step(j)
    <3>1. phase'[k] = "idle" => Left(phase'[k], todo'[k]) = 0
      BY DEF Left
    <3> QED BY <1>1, <2>2, <2>3, <2>5, <3>1, OthersLeave
  <2> QED BY <2>3, <2>4, <2>5
<1>2. IInv /\ IInv' /\ [Next]_vars =>
        [\A k \in Ticks : /\ Step(k) => Left(phase[k], todo[k])' < Left(phase[k], todo[k])
                          /\ Left(phase[k], todo[k])' > Left(phase[k], todo[k]) => Fire(k)]_vars
  BY <1>1
<1> QED BY <1>2, Invariance, PTL DEF Spec, EveryStepCounts

\* the flag is a tick's
Held == inFlight => \E k \in Ticks : phase[k] # "idle"

\* While the flag is up a tick is at work, so that no schedule waits for a tick that is over.
THEOREM FlagIsATicks == Spec => []Held
<1>1. Init => Held
  BY DEF Init, Held
<1>2. ASSUME IInv, Held, [Next]_vars PROVE Held'
  <2>1. ASSUME NEW k \in Ticks, Fire(k) PROVE phase'[k] # "idle"
    BY <1>2, <2>1 DEF Fire, IInv, TypeOK
  <2>2. ASSUME NEW k \in Ticks, Step(k) PROVE inFlight' => phase'[k] # "idle"
    <3>1. CASE ReadFails(k) \/ Finish(k)
      BY <3>1 DEF ReadFails, Finish, Freed
    <3>2. CASE phase'[k] \in {"next", "stats", "send", "save"}
      BY <3>2
    <3>3. phase[k] # "idle" /\ (phase'[k] = "idle" => ReadFails(k) \/ Finish(k))
      <4> USE <2>2 DEF IInv, TypeOK
      <4>0. TypeOK BY <1>2
      <4>1. Read(k) => phase[k] = "read" /\ phase'[k] = "next" BY <4>0 DEF Read
      <4>2. \A c \in Channels : Channel(k, c) => phase[k] = "next" /\ phase'[k] \in {"next", "stats"}
        BY <4>0 DEF Channel, Enter
      <4>3. Stats(k) => phase[k] = "stats" /\ phase'[k] \in {"send", "save"} BY <4>0 DEF Stats
      <4>4. Send(k) => phase[k] = "send" /\ phase'[k] \in {"next", "save"} BY <4>0 DEF Send, Leave
      <4>5. Save(k) \/ Fails(k) => phase[k] \in {"stats", "save"} /\ phase'[k] = "next"
        BY <4>0 DEF Save, Fails, Leave
      <4>6. ReadFails(k) \/ Finish(k) => phase[k] \in {"read", "next"} BY DEF ReadFails, Finish
      <4> QED BY <4>1, <4>2, <4>3, <4>4, <4>5, <4>6 DEF Step
    <3> QED BY <3>1, <3>3
  <2>3. Crash => ~inFlight'
    BY DEF Crash
  <2>4. \/ Clock \/ \E i \in Items : Begin(i) \/ End(i)
        \/ \E c \in Channels : Toggle(c)
        \/ UNCHANGED vars
        => phase' = phase /\ inFlight' = inFlight
    BY DEF Clock, Begin, End, Toggle, vars, tick
  <2> QED BY <1>2, <2>1, <2>2, <2>3, <2>4 DEF Next, Held
<1> QED BY <1>1, <1>2, Invariance, PTL DEF Spec

\* nothing of a tick is under way
Over(k) == phase[k] = "idle"

\* The requests of a tick end: it is over again and again, or its steps are.  Where a tick
\* under way can always take a step, this is the fairness of FairSpec.
Answers(k) == []<>Over(k) \/ []<><<Step(k)>>_vars

\* The fairness of FairSpec, with its guard in the place of ENABLED.
LEMMA FairnessInGuards ==
  ASSUME NEW k \in Ticks
  PROVE  WF_vars(Step(k)) /\ [](~Over(k) => ENABLED <<Step(k)>>_vars) => Answers(k)
BY PTL DEF Answers

\* a tick that has the channels S before it, and n steps of one at most
Within(p, T, S, n) == p \in InChannels /\ T = S /\ Place(p) <= n
At(k, S, n) == Within(phase[k], todo[k], S, n)
Has(k, S) == phase[k] \in InChannels /\ todo[k] = S

\* it is over, or has fewer of these channels before it
Relieved(p, T, S) == p = "idle" \/ (p \in InChannels /\ T \subseteq S /\ T # S)
AtFewer(k, S) == Relieved(phase[k], todo[k], S)

\* the steps of a channel follow one another, and so do the channels
Descends(k, S, n, m) == At(k, S, n) ~> (At(k, S, m) \/ AtFewer(k, S))
Relieves(k, S) == Has(k, S) ~> AtFewer(k, S)

\* a tick reads the positions, then comes to its channels
Reading(k) == phase[k] = "read"
Comes(k) == phase[k] \in InChannels \cup {"idle"}
Starts(k) == Reading(k) ~> Comes(k)

\* What any step does to a tick under way.
LEMMA StepAdvances ==
  ASSUME IInv, [Next]_vars, NEW k \in Ticks, phase[k] # "idle"
  PROVE  /\ \/ phase'[k] = phase[k] /\ todo'[k] = todo[k]
            \/ phase'[k] = "idle"
            \/ Advances(phase[k], todo[k], phase'[k], todo'[k])
         /\ Step(k) => Advances(phase[k], todo[k], phase'[k], todo'[k])
<1>1. ASSUME NEW j \in Ticks, Step(j), j # k PROVE phase'[k] = phase[k] /\ todo'[k] = todo[k]
  BY <1>1, TickAdvances
<1>2. CASE \A j \in Ticks : ~Step(j)
  BY <1>2, OthersLeave DEF Fire
<1> QED BY <1>1, <1>2, TickAdvances

\* A step of a tick brings the channel at work nearer to its end.
LEMMA StepDescends ==
  ASSUME NEW p, NEW T, NEW q, NEW U, NEW S, NEW m \in Nat, NEW n \in Nat, n = m + 1,
         Within(p, T, S, n), Advances(p, T, q, U)
  PROVE  Within(q, U, S, m) \/ Relieved(q, U, S)
<1>1. p \in InChannels /\ T = S /\ Place(p) <= n
  BY DEF Within
<1>2. Place(p) \in Nat /\ Place(q) \in Nat
  BY DEF Place
<1>3. CASE q = "idle"
  BY <1>3 DEF Relieved
<1>4. CASE q \in {"next", "stats"} /\ \E c \in T : U = T \ {c}
  BY <1>1, <1>4 DEF Relieved, InChannels
<1>5. CASE q \in {"next", "send", "save"} /\ U = T /\ Place(q) < Place(p)
  BY <1>1, <1>2, <1>5 DEF Within, InChannels
<1> QED BY <1>1, <1>3, <1>4, <1>5 DEF Advances, InChannels

\* A tick whose requests end does not stay with a channel: whichever channels it has before
\* it, it comes to have fewer of them or is over.  It reads the positions in the same way.
THEOREM ChannelsGiveWay ==
  ASSUME NEW k \in Ticks
  PROVE  Spec /\ Answers(k) => Starts(k) /\ \A S \in SUBSET Channels : Relieves(k, S)
<1>1. ASSUME IInv, [Next]_vars, NEW S, NEW m \in Nat, NEW n \in Nat, n = m + 1, At(k, S, n)
      PROVE  /\ At(k, S, n)' \/ AtFewer(k, S)'
             /\ Step(k) => At(k, S, m)' \/ AtFewer(k, S)'
  <2>1. Within(phase[k], todo[k], S, n) /\ phase[k] # "idle"
    BY <1>1 DEF At, Within, InChannels
  <2>2. Within(phase'[k], todo'[k], S, m) => Within(phase'[k], todo'[k], S, n)
    <3>1. Place(phase'[k]) \in Nat
      BY DEF Place
    <3> QED BY <1>1, <3>1 DEF Within
  <2>3. phase'[k] = "idle" => Relieved(phase'[k], todo'[k], S)
    BY DEF Relieved
  <2>4. Advances(phase[k], todo[k], phase'[k], todo'[k])
          => Within(phase'[k], todo'[k], S, m) \/ Relieved(phase'[k], todo'[k], S)
    BY <1>1, <2>1, StepDescends
  <2> QED BY <1>1, <2>1, <2>2, <2>3, <2>4, StepAdvances DEF At, AtFewer
<1>2. ASSUME NEW S, NEW m \in Nat, NEW n \in Nat, n = m + 1
      PROVE  Spec /\ Answers(k) => Descends(k, S, n, m)
  <2>1. IInv /\ [Next]_vars /\ At(k, S, n) => At(k, S, n)' \/ AtFewer(k, S)'
    BY <1>1, <1>2
  <2>2. IInv /\ [Next]_vars /\ <<Step(k)>>_vars /\ At(k, S, n) => At(k, S, m)' \/ AtFewer(k, S)'
    BY <1>1, <1>2
  <2>3. At(k, S, n) => ~Over(k)
    BY DEF At, Over, Within, InChannels
  <2> QED BY <2>1, <2>2, <2>3, Invariance, PTL DEF Spec, Answers, Descends
<1>3. ASSUME NEW S \in SUBSET Channels PROVE Spec /\ Answers(k) => Relieves(k, S)
  <2>1. Spec /\ Answers(k) => Descends(k, S, 4, 3)
    <3>1. 4 \in Nat /\ 3 \in Nat /\ 4 = 3 + 1 OBVIOUS
    <3> QED BY <1>2, <3>1
  <2>2. Spec /\ Answers(k) => Descends(k, S, 3, 2)
    <3>1. 3 \in Nat /\ 2 \in Nat /\ 3 = 2 + 1 OBVIOUS
    <3> QED BY <1>2, <3>1
  <2>3. Spec /\ Answers(k) => Descends(k, S, 2, 1)
    <3>1. 2 \in Nat /\ 1 \in Nat /\ 2 = 1 + 1 OBVIOUS
    <3> QED BY <1>2, <3>1
  <2>4. Spec /\ Answers(k) => Descends(k, S, 1, 0)
    <3>1. 1 \in Nat /\ 0 \in Nat /\ 1 = 0 + 1 OBVIOUS
    <3> QED BY <1>2, <3>1
  <2>5. Has(k, S) => At(k, S, 4)
    <3>1. Place(phase[k]) \in 0 .. 4
      BY DEF Place
    <3> QED BY <3>1 DEF Within, Has, At
  <2>6. ~At(k, S, 0)
    BY DEF At, Within, InChannels, Place
  <2> QED BY <2>1, <2>2, <2>3, <2>4, <2>5, <2>6, PTL DEF Descends, Relieves
<1>4. Spec /\ Answers(k) => Starts(k)
  <2>1. /\ IInv /\ [Next]_vars /\ Reading(k) => Reading(k)' \/ Comes(k)'
        /\ IInv /\ [Next]_vars /\ <<Step(k)>>_vars /\ Reading(k) => Comes(k)'
    BY StepAdvances DEF Advances, InChannels, Reading, Comes
  <2>2. Reading(k) => ~Over(k)
    BY DEF Reading, Over
  <2> QED BY <2>1, <2>2, Invariance, PTL DEF Spec, Answers, Starts
<1> QED BY <1>3, <1>4
=============================================================================
