----------------------- MODULE PlaylistExportsProofs -----------------------
(***************************************************************************)
(* Proofs about PlaylistExports, for any targets, accounts and callers.    *)
(*                                                                         *)
(* That a target gets one remote playlist at most is not inductive: a      *)
(* creation under way must know that every earlier playlist of its target  *)
(* was forgotten.  It does because its reservation found no binding, which *)
(* proves nothing unless a target without a binding has no playlist that   *)
(* anybody remembers; and because the lock keeps resets and other          *)
(* generations out until the new playlist is accounted for.  Deletions are *)
(* not kept out, but a deleted target never reserves again.                *)
(***************************************************************************)
EXTENDS PlaylistExports, SequenceTheorems, FiniteSetTheorems, TLAPS

\* the lock: one generation at a time, and none during a reset
Exclusive ==
  /\ \A c, d \in Callers : gen[c].pc # "idle" /\ gen[d].pc # "idle" => c = d
  /\ resetting # None => \A c \in Callers : gen[c].pc = "idle"

\* a generation at work on a target knows it, and from the verification on its account
Aimed(g) ==
  /\ g.pc \in {"open", "reserve", "create", "link", "fill", "replace", "mark"} => g.t \in Targets
  /\ g.pc \in {"reserve", "create", "link"} => g.scope \in Accounts

\* what the bindings say of the remote playlists
Bound ==
  \A t \in Targets :
    /\ binding[t].state = "linked" =>
         /\ binding[t].id \in Ids
         /\ remotes[binding[t].id].target = t
         /\ remotes[binding[t].id].account = binding[t].scope
         /\ ~remotes[binding[t].id].forgotten
    /\ (t \in owned /\ binding[t].state = "none") =>
         \A x \in Ids : remotes[x].target = t => remotes[x].forgotten

\* what a generation relies on between its awaits
Working(g) ==
  /\ g.pc = "create" =>
       /\ \A x \in Ids : remotes[x].target = g.t => remotes[x].forgotten
       /\ g.t \in owned => binding[g.t].state # "none"
  /\ g.pc = "link" =>
       /\ g.id \in Ids /\ remotes[g.id].target = g.t /\ remotes[g.id].account = g.scope
       /\ g.t \in owned => ~remotes[g.id].forgotten
  /\ g.pc \in {"fill", "replace"} => g.id \in Ids
  /\ g.pc = "replace" => remotes[g.id].target = g.t /\ remotes[g.id].account = g.scope

Safe == Exclusive /\ (\A c \in Callers : Aimed(gen[c]) /\ Working(gen[c])) /\ Bound /\ OneRemote

IInv == TypeOK /\ Safe

-----------------------------------------------------------------------------

\* The program starts with no binding, no remote playlist and a free lock.
LEMMA InitIInv == Init => IInv
<1> SUFFICES ASSUME Init PROVE IInv
  OBVIOUS
<1>1. remotes \in Seq(Remote) /\ Len(remotes) = 0
  BY DEF Init
<1>2. \A c \in Callers : gen[c] = Idle
  BY DEF Init
<1>3. Idle.pc = "idle" /\ Idle \in Generation
  BY <1>1, ExportAssumption DEF Idle, Generation
<1>4. NoBinding \in Binding /\ NoBinding.state = "none"
  BY <1>1 DEF NoBinding, Binding, States
<1>5. TypeOK
  BY <1>1, <1>3, <1>4, ExportAssumption DEF Init, TypeOK
<1>6. Safe
  BY <1>1, <1>2, <1>3, <1>4
     DEF Init, Safe, Exclusive, Aimed, Working, Bound, OneRemote, Ids
<1> QED BY <1>5, <1>6 DEF IInv

\* The invariant gives the promised properties.
LEMMA IInvAccounted == IInv => Accounted /\ RightAccount
<1> SUFFICES ASSUME IInv PROVE Accounted /\ RightAccount
  OBVIOUS
<1>1. Accounted
  <2> SUFFICES ASSUME NEW x \in Ids, ~remotes[x].forgotten, remotes[x].target \in owned
               PROVE  LET b == binding[remotes[x].target]
                      IN \/ b.state = "linked" /\ b.id = x
                         \/ b.state \in {"creating", "recovery_required"}
    BY DEF Accounted
  <2>1. remotes[x].target \in Targets
    BY DEF IInv, TypeOK
  <2>2. binding[remotes[x].target].state \in States
    BY <2>1 DEF IInv, TypeOK, Binding
  <2>3. binding[remotes[x].target].state # "none"
    BY <2>1 DEF IInv, Safe, Bound
  <2>4. binding[remotes[x].target].state = "linked" => binding[remotes[x].target].id = x
    BY <2>1 DEF IInv, Safe, Bound, OneRemote
  <2> QED BY <2>2, <2>3, <2>4 DEF States
<1>2. RightAccount
  BY DEF IInv, Safe, Working, RightAccount
<1> QED BY <1>1, <1>2

-----------------------------------------------------------------------------
(* The parts of a step. *)

\* The types grow with the remote playlists.
LEMMA TypesGrow ==
  ASSUME remotes \in Seq(Remote), remotes' \in Seq(Remote), Len(remotes) <= Len(remotes')
  PROVE  Binding \subseteq Binding' /\ Generation \subseteq Generation' /\ Ids \subseteq Ids'
<1>1. Len(remotes) \in Nat /\ Len(remotes') \in Nat
  BY LenProperties
<1>2. 0..Len(remotes) \subseteq 0..Len(remotes') /\ Ids \subseteq Ids'
  BY <1>1 DEF Ids
<1> QED BY <1>2 DEF Binding, Generation

\* A generation that goes on, or starts while the lock is free, stays alone.
LEMMA GenMove ==
  ASSUME IInv, NEW c \in Callers, NEW g, gen' = [gen EXCEPT ![c] = g], UNCHANGED resetting,
         gen[c].pc # "idle" \/ ~Busy,
         remotes' \in Seq(Remote), Len(remotes) <= Len(remotes'),
         g \in Generation', Aimed(g)
  PROVE  /\ gen' \in [Callers -> Generation'] /\ Exclusive'
         /\ gen'[c] = g
         /\ \A d \in Callers : Aimed(gen'[d])
         /\ \A d \in Callers \ {c} : gen'[d].pc = "idle"
<1>1. gen \in [Callers -> Generation] /\ remotes \in Seq(Remote)
  BY DEF IInv, TypeOK
<1>2. gen' \in [Callers -> Generation']
  BY <1>1, TypesGrow
<1>3. gen'[c] = g /\ \A d \in Callers \ {c} : gen'[d] = gen[d]
  BY <1>1
<1>4. \A d \in Callers \ {c} : gen[d].pc = "idle"
  BY DEF IInv, Safe, Exclusive, Busy
<1>5. resetting = None \/ g.pc = "idle"
  BY DEF IInv, Safe, Exclusive, Busy
<1>6. Exclusive'
  <2>1. ASSUME NEW d \in Callers, NEW e \in Callers, gen'[d].pc # "idle", gen'[e].pc # "idle"
        PROVE  d = e
    BY <2>1, <1>3, <1>4
  <2>2. ASSUME resetting' # None, NEW d \in Callers PROVE gen'[d].pc = "idle"
    BY <2>2, <1>3, <1>4, <1>5
  <2> QED BY <2>1, <2>2 DEF Exclusive
<1>7. \A d \in Callers : Aimed(gen'[d])
  BY <1>3 DEF IInv, Safe
<1> QED BY <1>2, <1>3, <1>4, <1>6, <1>7

\* Such a step is safe when the bindings and what the generation relies on are.
LEMMA SafeMove ==
  ASSUME IInv, NEW c \in Callers, NEW g, gen' = [gen EXCEPT ![c] = g], UNCHANGED resetting,
         gen[c].pc # "idle" \/ ~Busy,
         remotes' \in Seq(Remote), Len(remotes) <= Len(remotes'),
         g \in Generation', Aimed(g), Working(g)', Bound', OneRemote'
  PROVE  gen' \in [Callers -> Generation'] /\ Safe'
<1>1. /\ gen' \in [Callers -> Generation'] /\ Exclusive'
      /\ gen'[c] = g
      /\ \A d \in Callers : Aimed(gen'[d])
      /\ \A d \in Callers \ {c} : gen'[d].pc = "idle"
  BY GenMove
<1>2. ASSUME NEW d \in Callers PROVE Working(gen[d])'
  <2>1. CASE d = c
    BY <2>1, <1>1
  <2>2. CASE d # c
    BY <2>2, <1>1 DEF Working
  <2> QED BY <2>1, <2>2
<1>3. \A d \in Callers : Aimed(gen[d])'
  BY <1>1 DEF Aimed
<1> QED BY <1>1, <1>2, <1>3 DEF Safe

\* A step of a generation that leaves the bindings and the remote playlists alone.
LEMMA PlainMove ==
  ASSUME IInv, NEW c \in Callers, NEW g \in Generation, gen' = [gen EXCEPT ![c] = g],
         UNCHANGED <<binding, owned, resetting, remotes>>,
         gen[c].pc # "idle" \/ ~Busy, Aimed(g), Working(g),
         done' \in [n: 0..MaxGens, targets: SUBSET Targets], gens' \in 0..MaxGens,
         forgotten' \in 0..MaxForgotten, faults' \in 0..MaxFaults
  PROVE  IInv'
<1>1. remotes \in Seq(Remote) /\ Len(remotes) \in Nat
  BY LenProperties DEF IInv, TypeOK
<1>2. Generation' = Generation /\ Binding' = Binding
  BY DEF Generation, Binding
<1>3. Working(g)' /\ Bound' /\ OneRemote'
  BY DEF IInv, Safe, Working, Bound, OneRemote, Ids
<1>4. remotes' \in Seq(Remote) /\ Len(remotes) <= Len(remotes') /\ g \in Generation'
  BY <1>1, <1>2
<1>5. gen' \in [Callers -> Generation'] /\ Safe'
  BY <1>3, <1>4, SafeMove
<1> QED BY <1>2, <1>5 DEF IInv, TypeOK

\* A target that has failed is left, perhaps after its binding is marked.
LEMMA FailsMoves ==
  ASSUME IInv, NEW c \in Callers, Fails(c),
         gen[c].pc \in {"open", "reserve", "create", "link", "fill", "replace"}
  PROVE  \E g \in Generation :
           gen' = [gen EXCEPT ![c] = g] /\ g.pc \in {"mark", "next"} /\ Aimed(g)
<1> DEFINE g == [gen[c] EXCEPT !.pc = IF gen[c].created THEN "mark" ELSE "next",
                               !.failed = TRUE]
<1>1. gen[c] \in Generation /\ gen[c].t \in Targets
  BY DEF IInv, TypeOK, Safe, Aimed
<1>2. g \in Generation /\ g.pc \in {"mark", "next"} /\ g.t = gen[c].t
  BY <1>1 DEF Generation
<1>3. gen' = [gen EXCEPT ![c] = g]
  BY DEF Fails
<1> QED BY <1>1, <1>2, <1>3 DEF Aimed

\* So is one that took the tracks.
LEMMA SubmittedMoves ==
  ASSUME IInv, NEW c \in Callers, NEW partial \in BOOLEAN, Submitted(c, partial),
         gen[c].pc \in {"fill", "replace"}
  PROVE  \E g \in Generation :
           gen' = [gen EXCEPT ![c] = g] /\ g.pc \in {"mark", "next"} /\ Aimed(g)
<1> DEFINE g == [gen[c] EXCEPT !.pc = IF partial /\ gen[c].created THEN "mark" ELSE "next",
                               !.failed = gen[c].failed \/ partial]
<1>1. gen[c] \in Generation /\ gen[c].t \in Targets
  BY DEF IInv, TypeOK, Safe, Aimed
<1>2. g \in Generation /\ g.pc \in {"mark", "next"} /\ g.t = gen[c].t
  BY <1>1 DEF Generation
<1>3. gen' = [gen EXCEPT ![c] = g]
  BY DEF Submitted
<1> QED BY <1>1, <1>2, <1>3 DEF Aimed

\* The number of faults keeps its bound.
LEMMA FaultCounted == IInv /\ (Fault \/ UNCHANGED faults) => faults' \in 0..MaxFaults
BY ExportAssumption DEF IInv, TypeOK, Fault

-----------------------------------------------------------------------------
(* The steps of a generation. *)

\* Begin: the lock was free.
LEMMA BeginKeeps == ASSUME IInv, NEW c \in Callers, Begin(c) PROVE IInv'
<1> DEFINE g == [Idle EXCEPT !.pc = "generate", !.n = gens + 1]
<1>1. remotes \in Seq(Remote) /\ Len(remotes) \in Nat
  BY LenProperties DEF IInv, TypeOK
<1>2. gens + 1 \in 0..MaxGens
  BY ExportAssumption DEF IInv, TypeOK, Begin
<1>3. g \in Generation /\ g.pc = "generate"
  <2>1. Idle \in Generation
    BY <1>1, ExportAssumption DEF Idle, Generation
  <2> QED BY <2>1, <1>2 DEF Generation
<1>4. Aimed(g) /\ Working(g)
  BY <1>3 DEF Aimed, Working
<1>5. gen' = [gen EXCEPT ![c] = g]
  BY DEF Begin
<1> HIDE DEF g
<1> QED BY <1>2, <1>3, <1>4, <1>5, PlainMove DEF Begin, IInv, TypeOK

\* Generate: new tracks, or nothing to export.
LEMMA GenerateKeeps == ASSUME IInv, NEW c \in Callers, Generate(c) PROVE IInv'
<1>1. gen[c] \in Generation /\ Idle \in Generation
  <2>1. remotes \in Seq(Remote) /\ Len(remotes) \in Nat
    BY LenProperties DEF IInv, TypeOK
  <2> QED BY <2>1, ExportAssumption DEF IInv, TypeOK, Idle, Generation
<1>2. PICK g \in Generation : gen' = [gen EXCEPT ![c] = g] /\ g.pc \in {"idle", "select"}
  <2>1. CASE gen' = [gen EXCEPT ![c] = Idle]
    BY <1>1, <2>1 DEF Idle
  <2>2. CASE \E empty \in BOOLEAN : gen' = [gen EXCEPT ![c].pc = "select", ![c].empty = empty]
    <3>1. PICK empty \in BOOLEAN : gen' = [gen EXCEPT ![c].pc = "select", ![c].empty = empty]
      BY <2>2
    <3> DEFINE g == [gen[c] EXCEPT !.pc = "select", !.empty = empty]
    <3>2. g \in Generation /\ g.pc = "select"
      BY <1>1 DEF Generation
    <3>3. gen' = [gen EXCEPT ![c] = g]
      BY <3>1
    <3> QED BY <3>2, <3>3
  <2> QED BY <2>1, <2>2 DEF Generate
<1>3. Aimed(g) /\ Working(g)
  BY <1>2 DEF Aimed, Working
<1> QED BY <1>2, <1>3, PlainMove DEF Generate, IInv, TypeOK, bounds

\* Select: the targets are chosen.
LEMMA SelectKeeps == ASSUME IInv, NEW c \in Callers, Select(c) PROVE IInv'
<1>1. PICK ts \in SUBSET Selectable :
        gen' = [gen EXCEPT ![c].pc = "next", ![c].selected = ts, ![c].todo = ts]
  BY DEF Select
<1> DEFINE g == [gen[c] EXCEPT !.pc = "next", !.selected = ts, !.todo = ts]
<1>2. g \in Generation /\ g.pc = "next"
  BY DEF IInv, TypeOK, Generation, Selectable
<1>3. gen' = [gen EXCEPT ![c] = g]
  BY <1>1
<1> HIDE DEF g
<1>4. Aimed(g) /\ Working(g)
  BY <1>2 DEF Aimed, Working
<1> QED BY <1>2, <1>3, <1>4, PlainMove DEF Select, IInv, TypeOK, bounds

\* NextTarget: a target is taken up.
LEMMA NextTargetKeeps ==
  ASSUME IInv, NEW c \in Callers, NEW t \in Targets, NextTarget(c, t) PROVE IInv'
<1> DEFINE pc == IF gen[c].empty THEN "next" ELSE "open"
           failed == gen[c].failed \/ gen[c].empty
           todo == gen[c].todo \ {t}
           g == [gen[c] EXCEPT !.pc = pc, !.failed = failed, !.todo = todo, !.t = t,
                               !.scope = None, !.created = FALSE, !.id = 0]
<1>1. remotes \in Seq(Remote) /\ Len(remotes) \in Nat
  BY LenProperties DEF IInv, TypeOK
<1>2. g \in Generation /\ g.pc \in {"next", "open"} /\ g.t = t
  <2>1. gen[c] \in Generation
    BY DEF IInv, TypeOK
  <2>2. pc \in {"next", "open"} /\ failed \in BOOLEAN
    BY <2>1, Zenon DEF Generation
  <2>3. todo \in SUBSET Targets
    BY <2>1 DEF Generation
  <2>4. 0 \in 0..Len(remotes) /\ None \in Accounts \cup {None}
    BY <1>1
  <2> DEFINE h == [gen[c] EXCEPT !.pc = pc, !.failed = failed, !.todo = todo]
  <2> HIDE DEF pc, failed, todo
  <2>5. h \in Generation /\ h.pc = pc
    BY <2>1, <2>2, <2>3 DEF Generation
  <2>6. g = [h EXCEPT !.t = t, !.scope = None, !.created = FALSE, !.id = 0]
    BY <2>1 DEF Generation
  <2> HIDE DEF h, g
  <2> QED BY <2>2, <2>4, <2>5, <2>6 DEF Generation
<1>3. gen' = [gen EXCEPT ![c] = g]
  BY DEF NextTarget
<1> HIDE DEF g
<1>4. Aimed(g) /\ Working(g)
  BY <1>2 DEF Aimed, Working
<1> QED BY <1>2, <1>3, <1>4, PlainMove DEF NextTarget, IInv, TypeOK, bounds

\* Open: the target is configured for some account.
LEMMA OpenKeeps == ASSUME IInv, NEW c \in Callers, Open(c) PROVE IInv'
<1>1. PICK g \in Generation :
        gen' = [gen EXCEPT ![c] = g] /\ g.pc \in {"mark", "next", "reserve"} /\ Aimed(g)
  <2>1. CASE \E a \in Accounts : gen' = [gen EXCEPT ![c].pc = "reserve", ![c].scope = a]
    <3>1. PICK a \in Accounts : gen' = [gen EXCEPT ![c].pc = "reserve", ![c].scope = a]
      BY <2>1
    <3> DEFINE g == [gen[c] EXCEPT !.pc = "reserve", !.scope = a]
    <3>2. gen[c].t \in Targets /\ gen[c] \in Generation
      BY DEF Open, IInv, TypeOK, Safe, Aimed
    <3>3. g \in Generation /\ g.pc = "reserve" /\ g.scope = a /\ g.t \in Targets
      BY <3>2 DEF Generation
    <3>4. gen' = [gen EXCEPT ![c] = g]
      BY <3>1
    <3> QED BY <3>3, <3>4 DEF Aimed
  <2>2. CASE Fails(c)
    BY <2>2, FailsMoves DEF Open
  <2> QED BY <2>1, <2>2 DEF Open
<1>2. Working(g)
  BY <1>1 DEF Working
<1> QED BY <1>1, <1>2, PlainMove DEF Open, IInv, TypeOK, bounds

\* End: the lock is released.
LEMMA EndKeeps == ASSUME IInv, NEW c \in Callers, End(c) PROVE IInv'
<1>1. Idle \in Generation /\ Idle.pc = "idle"
  <2>1. remotes \in Seq(Remote) /\ Len(remotes) \in Nat
    BY LenProperties DEF IInv, TypeOK
  <2> QED BY <2>1, ExportAssumption DEF Idle, Generation
<1>2. done' \in [n: 0..MaxGens, targets: SUBSET Targets]
  BY DEF End, IInv, TypeOK, Generation
<1>3. faults' \in 0..MaxFaults
  BY FaultCounted DEF End
<1>4. Aimed(Idle) /\ Working(Idle)
  BY <1>1 DEF Aimed, Working
<1> QED BY <1>1, <1>2, <1>3, <1>4, PlainMove DEF End, IInv, TypeOK

\* A step of a generation that writes a binding.
LEMMA BindingMove ==
  ASSUME IInv, NEW c \in Callers, NEW g \in Generation, gen' = [gen EXCEPT ![c] = g],
         UNCHANGED <<owned, resetting, remotes, done, gens, forgotten>>, gen[c].pc # "idle",
         binding' \in [Targets -> Binding], faults' \in 0..MaxFaults,
         Aimed(g), Working(g)', Bound'
  PROVE  IInv'
<1>1. remotes \in Seq(Remote) /\ Len(remotes) \in Nat
  BY LenProperties DEF IInv, TypeOK
<1>2. Generation' = Generation /\ Binding' = Binding
  BY DEF Generation, Binding
<1>3. OneRemote'
  BY DEF IInv, Safe, OneRemote, Ids
<1>4. remotes' \in Seq(Remote) /\ Len(remotes) <= Len(remotes') /\ g \in Generation'
  BY <1>1, <1>2
<1>5. gen' \in [Callers -> Generation'] /\ Safe'
  BY <1>3, <1>4, SafeMove
<1> QED BY <1>2, <1>5 DEF IInv, TypeOK

\* Reserve: a target without a binding has no playlist that is remembered, and one with a
\* linked binding names it.
LEMMA ReserveKeeps == ASSUME IInv, NEW c \in Callers, Reserve(c) PROVE IInv'
<1>1. /\ gen[c].pc = "reserve" /\ gen[c] \in Generation
      /\ gen[c].t \in Targets /\ gen[c].scope \in Accounts /\ my(c) \in Binding
  BY DEF Reserve, IInv, TypeOK, Safe, Aimed, my
<1>2. /\ UNCHANGED <<owned, resetting, remotes, done, gens, forgotten>>
      /\ gens' \in 0..MaxGens /\ forgotten' \in 0..MaxForgotten
      /\ done' \in [n: 0..MaxGens, targets: SUBSET Targets]
  BY DEF Reserve, IInv, TypeOK
<1>3. faults' \in 0..MaxFaults
  BY FaultCounted DEF Reserve
<1>4. CASE Owned(c) /\ my(c).state = "none" /\ binding' = Reserved(c)
  <2>1. PICK g \in Generation :
          /\ gen' = [gen EXCEPT ![c] = g] /\ Aimed(g)
          /\ g.pc \in {"mark", "next"} \/ (g.pc = "create" /\ g.t = gen[c].t)
    <3>1. CASE gen' = [gen EXCEPT ![c].pc = "create", ![c].created = TRUE]
      <4> DEFINE g == [gen[c] EXCEPT !.pc = "create", !.created = TRUE]
      <4>1. g \in Generation /\ g.pc = "create" /\ g.t = gen[c].t /\ g.scope = gen[c].scope
        BY <1>1 DEF Generation
      <4>2. gen' = [gen EXCEPT ![c] = g]
        BY <3>1
      <4> QED BY <1>1, <4>1, <4>2 DEF Aimed
    <3>2. CASE Fails(c)
      BY <1>1, <3>2, FailsMoves
    <3> QED BY <1>1, <1>4, <3>1, <3>2 DEF Reserve, ToReplace
  <2>2. /\ binding' \in [Targets -> Binding]
        /\ binding'[gen[c].t].state = "creating"
        /\ \A t \in Targets \ {gen[c].t} : binding'[t] = binding[t]
    <3>1. remotes \in Seq(Remote) /\ Len(remotes) \in Nat
      BY LenProperties DEF IInv, TypeOK
    <3>2. [state |-> "creating", scope |-> gen[c].scope, id |-> 0] \in Binding
      BY <1>1, <3>1 DEF Binding, States
    <3>3. binding \in [Targets -> Binding]
      BY DEF IInv, TypeOK
    <3> QED BY <1>1, <1>4, <3>2, <3>3 DEF Reserved
  <2>3. Bound'
    BY <1>2, <2>2 DEF IInv, Safe, Bound, Ids
  <2>4. Working(g)'
    <3>1. \A x \in Ids : remotes[x].target = gen[c].t => remotes[x].forgotten
      BY <1>1, <1>4 DEF IInv, Safe, Bound, Owned, my
    <3> QED BY <1>2, <2>1, <2>2, <3>1 DEF Working, Ids
  <2> QED BY <1>1, <1>2, <1>3, <2>1, <2>2, <2>3, <2>4, BindingMove
<1>5. CASE Owned(c) /\ my(c).state = "linked" /\ my(c).scope = gen[c].scope /\ ToReplace(c)
           /\ UNCHANGED binding
  <2> DEFINE g == [gen[c] EXCEPT !.pc = "replace", !.id = my(c).id]
  <2>1. /\ g \in Generation /\ g.pc = "replace" /\ g.id = my(c).id
        /\ g.t = gen[c].t /\ g.scope = gen[c].scope
    BY <1>1 DEF Generation, Binding
  <2>2. gen' = [gen EXCEPT ![c] = g]
    BY <1>5 DEF ToReplace
  <2> HIDE DEF g
  <2>3. /\ my(c).id \in Ids /\ remotes[my(c).id].target = gen[c].t
        /\ remotes[my(c).id].account = my(c).scope
    BY <1>1, <1>5 DEF IInv, Safe, Bound, my
  <2>4. Aimed(g) /\ Working(g)
    BY <1>1, <1>5, <2>1, <2>3 DEF Aimed, Working
  <2> QED BY <1>1, <1>2, <1>3, <1>5, <2>1, <2>2, <2>4, PlainMove
<1>6. CASE Fails(c) /\ UNCHANGED binding
  <2>1. PICK g \in Generation :
          gen' = [gen EXCEPT ![c] = g] /\ g.pc \in {"mark", "next"} /\ Aimed(g)
    BY <1>1, <1>6, FailsMoves
  <2>2. Working(g)
    BY <2>1 DEF Working
  <2> QED BY <1>1, <1>2, <1>3, <1>6, <2>1, <2>2, PlainMove
<1> QED BY <1>4, <1>5, <1>6 DEF Reserve

\* Create: every earlier playlist of the target is forgotten.
LEMMA CreateKeeps == ASSUME IInv, NEW c \in Callers, Create(c) PROVE IInv'
<1>1. /\ gen[c].pc = "create" /\ gen[c] \in Generation
      /\ gen[c].t \in Targets /\ gen[c].scope \in Accounts
  BY DEF Create, IInv, TypeOK, Safe, Aimed
<1>2. /\ UNCHANGED <<binding, owned, resetting, done, gens, forgotten>>
      /\ gens' \in 0..MaxGens /\ forgotten' \in 0..MaxForgotten
      /\ done' \in [n: 0..MaxGens, targets: SUBSET Targets]
  BY DEF Create, IInv, TypeOK
<1>3. faults' \in 0..MaxFaults
  BY FaultCounted DEF Create
<1>4. CASE Fails(c) /\ UNCHANGED remotes
  <2>1. PICK g \in Generation :
          gen' = [gen EXCEPT ![c] = g] /\ g.pc \in {"mark", "next"} /\ Aimed(g)
    BY <1>1, <1>4, FailsMoves
  <2>2. Working(g)
    BY <2>1 DEF Working
  <2> QED BY <1>1, <1>2, <1>3, <1>4, <2>1, <2>2, PlainMove
<1>5. CASE \E content \in {0, gen[c].n} :
             /\ remotes' = Append(remotes, [target |-> gen[c].t, account |-> gen[c].scope,
                                            content |-> content, forgotten |-> FALSE])
             /\ \/ gen' = [gen EXCEPT ![c].pc = "link", ![c].id = Len(remotes) + 1]
                \/ Fails(c)
  <2>1. PICK content \in {0, gen[c].n} :
             /\ remotes' = Append(remotes, [target |-> gen[c].t, account |-> gen[c].scope,
                                            content |-> content, forgotten |-> FALSE])
             /\ \/ gen' = [gen EXCEPT ![c].pc = "link", ![c].id = Len(remotes) + 1]
                \/ Fails(c)
    BY <1>5
  <2> DEFINE r == [target |-> gen[c].t, account |-> gen[c].scope,
                   content |-> content, forgotten |-> FALSE]
             n == Len(remotes) + 1
  <2>2. /\ r \in Remote /\ r.target = gen[c].t /\ r.account = gen[c].scope /\ ~r.forgotten
    <3>1. content \in 0..MaxGens
      BY <1>1, ExportAssumption DEF Generation
    <3> QED BY <1>1, <3>1 DEF Remote
  <2>3. remotes \in Seq(Remote) /\ Len(remotes) \in Nat /\ n \in Nat
    BY LenProperties DEF IInv, TypeOK
  <2>4. remotes' = Append(remotes, r)
    BY <2>1
  <2> HIDE DEF r
  <2>5. /\ remotes' \in Seq(Remote) /\ Len(remotes') = n
        /\ remotes'[n] = r /\ \A x \in Ids : remotes'[x] = remotes[x]
    BY <2>2, <2>3, <2>4, AppendProperties DEF Ids
  <2>6. Ids' = Ids \cup {n} /\ n \notin Ids /\ Len(remotes) <= Len(remotes')
    BY <2>3, <2>5 DEF Ids
  <2>7. /\ \A x \in Ids : remotes[x].target = gen[c].t => remotes[x].forgotten
        /\ gen[c].t \in owned => binding[gen[c].t].state # "none"
    BY <1>1 DEF IInv, Safe, Working
  <2>8. OneRemote'
    BY <2>2, <2>5, <2>6, <2>7 DEF IInv, Safe, OneRemote
  <2>9. Bound'
    <3>1. ASSUME NEW t \in Targets, binding[t].state = "linked"
          PROVE  binding[t].id \in Ids /\ remotes'[binding[t].id] = remotes[binding[t].id]
      BY <2>5, <3>1 DEF IInv, Safe, Bound
    <3>2. ASSUME NEW t \in Targets, t \in owned, binding[t].state = "none",
                 NEW x \in Ids', remotes'[x].target = t
          PROVE  remotes'[x].forgotten
      <4>1. t # gen[c].t
        BY <2>7, <3>2
      <4>2. x \in Ids
        BY <2>2, <2>5, <2>6, <3>2, <4>1
      <4> QED BY <2>5, <3>2, <4>2 DEF IInv, Safe, Bound
    <3> QED BY <1>2, <2>6, <3>1, <3>2 DEF IInv, Safe, Bound
  <2>10. Generation \subseteq Generation' /\ Binding \subseteq Binding'
    BY <2>3, <2>5, <2>6, TypesGrow
  <2>11. PICK g \in Generation' :
          /\ gen' = [gen EXCEPT ![c] = g] /\ Aimed(g)
          /\ \/ g.pc \in {"mark", "next"}
             \/ g.pc = "link" /\ g.t = gen[c].t /\ g.scope = gen[c].scope /\ g.id = n
    <3>1. CASE gen' = [gen EXCEPT ![c].pc = "link", ![c].id = Len(remotes) + 1]
      <4> DEFINE g == [gen[c] EXCEPT !.pc = "link", !.id = n]
      <4>1. n \in 0..Len(remotes') /\ gen[c] \in Generation'
        BY <1>1, <2>3, <2>5, <2>10
      <4>2. /\ g \in Generation' /\ g.pc = "link" /\ g.t = gen[c].t
            /\ g.scope = gen[c].scope /\ g.id = n
        BY <4>1 DEF Generation
      <4>3. gen' = [gen EXCEPT ![c] = g]
        BY <3>1
      <4> QED BY <1>1, <4>2, <4>3 DEF Aimed
    <3>2. CASE Fails(c)
      BY <1>1, <2>10, <3>2, FailsMoves
    <3> QED BY <2>1, <3>1, <3>2
  <2> HIDE DEF n
  <2>12. Working(g)'
    BY <2>2, <2>5, <2>6, <2>11 DEF Working
  <2>13. gen' \in [Callers -> Generation'] /\ Safe'
    BY <1>1, <1>2, <2>5, <2>6, <2>8, <2>9, <2>11, <2>12, SafeMove
  <2>14. binding' \in [Targets -> Binding']
    BY <1>2, <2>10 DEF IInv, TypeOK
  <2>15. owned' \subseteq Targets /\ resetting' \in Targets \cup {None}
    BY <1>2 DEF IInv, TypeOK
  <2> QED BY <1>2, <1>3, <2>5, <2>13, <2>14, <2>15 DEF IInv, TypeOK
<1> QED BY <1>4, <1>5 DEF Create

\* Link: the binding names the new playlist before it is filled.
LEMMA LinkKeeps == ASSUME IInv, NEW c \in Callers, Link(c) PROVE IInv'
<1>1. /\ gen[c].pc = "link" /\ gen[c] \in Generation
      /\ gen[c].t \in Targets /\ gen[c].scope \in Accounts /\ my(c) \in Binding
  BY DEF Link, IInv, TypeOK, Safe, Aimed, my
<1>2. /\ UNCHANGED <<owned, resetting, remotes, done, gens, forgotten>>
      /\ gens' \in 0..MaxGens /\ forgotten' \in 0..MaxForgotten
      /\ done' \in [n: 0..MaxGens, targets: SUBSET Targets]
  BY DEF Link, IInv, TypeOK
<1>3. faults' \in 0..MaxFaults
  BY FaultCounted DEF Link
<1>4. /\ gen[c].id \in Ids /\ remotes[gen[c].id].target = gen[c].t
      /\ remotes[gen[c].id].account = gen[c].scope
      /\ gen[c].t \in owned => ~remotes[gen[c].id].forgotten
  BY <1>1 DEF IInv, Safe, Working
<1>5. PICK g \in Generation :
        /\ gen' = [gen EXCEPT ![c] = g] /\ Aimed(g)
        /\ g.pc \in {"mark", "next"} \/ (g.pc = "fill" /\ g.id = gen[c].id)
  <2>1. CASE Goto(c, "fill")
    <3> DEFINE g == [gen[c] EXCEPT !.pc = "fill"]
    <3>1. g \in Generation /\ g.pc = "fill" /\ g.t = gen[c].t /\ g.id = gen[c].id
      BY <1>1 DEF Generation
    <3>2. gen' = [gen EXCEPT ![c] = g]
      BY <2>1 DEF Goto
    <3> QED BY <1>1, <3>1, <3>2 DEF Aimed
  <2>2. CASE Fails(c)
    BY <1>1, <2>2, FailsMoves
  <2> QED BY <2>1, <2>2 DEF Link
<1>6. Working(g) /\ Working(g)'
  BY <1>2, <1>4, <1>5 DEF Working, Ids
<1>7. CASE UNCHANGED binding
  BY <1>1, <1>2, <1>3, <1>5, <1>6, <1>7, PlainMove
<1>8. CASE /\ Owned(c) /\ my(c).state = "creating" /\ my(c).scope = gen[c].scope
           /\ binding' = [binding EXCEPT ![gen[c].t].state = "linked",
                                         ![gen[c].t].id = gen[c].id]
  <2> DEFINE b == [my(c) EXCEPT !.state = "linked", !.id = gen[c].id]
  <2>1. /\ b \in Binding /\ b.state = "linked" /\ b.id = gen[c].id
        /\ b.scope = gen[c].scope
    BY <1>1, <1>8 DEF Binding, States, Generation
  <2>2. binding' = [binding EXCEPT ![gen[c].t] = b] /\ binding \in [Targets -> Binding]
    BY <1>8 DEF my, IInv, TypeOK
  <2> HIDE DEF b
  <2>3. /\ binding' \in [Targets -> Binding] /\ binding'[gen[c].t] = b
        /\ \A t \in Targets \ {gen[c].t} : binding'[t] = binding[t]
    BY <1>1, <2>1, <2>2
  <2>4. Bound'
    <3>1. Ids' = Ids /\ remotes' = remotes /\ owned' = owned
      BY <1>2 DEF Ids
    <3>2. gen[c].t \in owned
      BY <1>8 DEF Owned
    <3>3. ASSUME NEW t \in Targets, t # gen[c].t
          PROVE  binding'[t] = binding[t]
      BY <2>3, <3>3
    <3>4. b.state = "linked" /\ b.id = gen[c].id /\ b.scope = gen[c].scope
      BY <2>1
    <3>5. /\ binding'[gen[c].t].state = "linked"
          /\ binding'[gen[c].t].id = gen[c].id
          /\ binding'[gen[c].t].scope = gen[c].scope
      BY <2>3, <3>4
    <3> QED BY <1>4, <3>1, <3>2, <3>3, <3>5 DEF IInv, Safe, Bound
  <2> QED BY <1>1, <1>2, <1>3, <1>5, <1>6, <2>3, <2>4, BindingMove
<1> QED BY <1>7, <1>8 DEF Link

\* Fill: other tracks, the same playlists.
LEMMA FillKeeps == ASSUME IInv, NEW c \in Callers, Fill(c) PROVE IInv'
<1>1. /\ gen[c].pc \in {"fill", "replace"} /\ gen[c] \in Generation /\ gen[c].id \in Ids
      /\ remotes \in Seq(Remote) /\ Len(remotes) \in Nat
  BY LenProperties DEF Fill, IInv, TypeOK, Safe, Working
<1>2. UNCHANGED <<binding, owned, resetting, done, gens, forgotten, faults>>
  BY DEF Fill, bounds
<1>3. PICK g \in Generation :
        gen' = [gen EXCEPT ![c] = g] /\ g.pc \in {"mark", "next"} /\ Aimed(g)
  BY <1>1, FailsMoves, SubmittedMoves DEF Fill, WriteTracks
<1>4. PICK content \in 0..MaxGens : remotes' = [remotes EXCEPT ![gen[c].id].content = content]
  <2>1. remotes[gen[c].id].content \in 0..MaxGens /\ gen[c].n \in 0..MaxGens
    <3>1. remotes[gen[c].id] \in Remote
      BY <1>1 DEF Ids
    <3> QED BY <1>1, <3>1 DEF Remote, Generation
  <2>2. 0 \in 0..MaxGens
    BY ExportAssumption
  <2> QED BY <2>1, <2>2 DEF Fill, WriteTracks
<1> DEFINE r == [remotes[gen[c].id] EXCEPT !.content = content]
<1>5. remotes[gen[c].id] \in Remote
  BY <1>1 DEF Ids
<1>6. /\ r \in Remote /\ r.target = remotes[gen[c].id].target
      /\ r.account = remotes[gen[c].id].account /\ r.forgotten = remotes[gen[c].id].forgotten
  BY <1>5 DEF Remote
<1>7. remotes' = [remotes EXCEPT ![gen[c].id] = r]
  BY <1>4
<1> HIDE DEF r
<1>8. remotes' \in Seq(Remote) /\ Len(remotes') = Len(remotes)
  BY <1>1, <1>6, <1>7, ExceptSeq DEF Ids
<1>9. /\ Ids' = Ids
      /\ \A x \in Ids : /\ remotes'[x].target = remotes[x].target
                        /\ remotes'[x].account = remotes[x].account
                        /\ remotes'[x].forgotten = remotes[x].forgotten
  BY <1>1, <1>6, <1>7, <1>8, ExceptSeq DEF Ids
<1>10. Bound' /\ OneRemote'
  BY <1>2, <1>9 DEF IInv, Safe, Bound, OneRemote
<1>11. Working(g)'
  BY <1>3 DEF Working
<1>12. Generation' = Generation /\ Binding' = Binding
  BY <1>8 DEF Generation, Binding
<1>13. gen[c].pc # "idle" /\ Len(remotes) <= Len(remotes') /\ g \in Generation'
  BY <1>1, <1>8, <1>12
<1>14. gen' \in [Callers -> Generation'] /\ Safe'
  BY <1>2, <1>3, <1>8, <1>10, <1>11, <1>13, SafeMove
<1> QED BY <1>2, <1>8, <1>12, <1>14 DEF IInv, TypeOK

\* Mark: an unresolved creation is shown as such.
LEMMA MarkKeeps == ASSUME IInv, NEW c \in Callers, Mark(c) PROVE IInv'
<1>1. gen[c].pc = "mark" /\ gen[c] \in Generation /\ gen[c].t \in Targets
  BY DEF Mark, IInv, TypeOK, Safe, Aimed
<1>2. UNCHANGED <<owned, resetting, remotes, done, gens, forgotten>>
  BY DEF Mark
<1>3. faults' \in 0..MaxFaults
  BY FaultCounted DEF Mark
<1>4. PICK g \in Generation : gen' = [gen EXCEPT ![c] = g] /\ g.pc = "next"
  <2> DEFINE g == [gen[c] EXCEPT !.pc = "next"]
  <2>1. g \in Generation /\ g.pc = "next"
    BY <1>1 DEF Generation
  <2>2. gen' = [gen EXCEPT ![c] = g]
    BY DEF Mark, Goto
  <2> QED BY <2>1, <2>2
<1>5. Aimed(g) /\ Working(g)'
  BY <1>4 DEF Aimed, Working
<1>6. binding \in [Targets -> Binding]
  BY DEF IInv, TypeOK
<1>7. CASE UNCHANGED binding
  <2>1. Bound' /\ binding' \in [Targets -> Binding]
    BY <1>2, <1>6, <1>7 DEF IInv, Safe, Bound, Ids
  <2>2. gen[c].pc # "idle"
    BY <1>1
  <2> QED BY <1>2, <1>3, <1>4, <1>5, <2>1, <2>2, BindingMove
<1>8. CASE binding' = [binding EXCEPT ![gen[c].t].state = "recovery_required"]
  <2> DEFINE b == [my(c) EXCEPT !.state = "recovery_required"]
  <2>1. b \in Binding /\ b.state = "recovery_required"
    BY <1>1, <1>6 DEF my, Binding, States
  <2>2. binding' = [binding EXCEPT ![gen[c].t] = b]
    BY <1>8 DEF my
  <2> HIDE DEF b
  <2>3. /\ binding' \in [Targets -> Binding] /\ binding'[gen[c].t] = b
        /\ \A t \in Targets \ {gen[c].t} : binding'[t] = binding[t]
    BY <1>1, <1>6, <2>1, <2>2
  <2>4. Bound'
    BY <1>2, <2>1, <2>3 DEF IInv, Safe, Bound, Ids
  <2>5. gen[c].pc # "idle"
    BY <1>1
  <2> QED BY <1>2, <1>3, <1>4, <1>5, <2>3, <2>4, <2>5, BindingMove
<1> QED BY <1>7, <1>8 DEF Mark

-----------------------------------------------------------------------------
(* What the user and the process do. *)

\* Forgetting the bindings of some targets: their playlists are forgotten with them.
LEMMA ForgetKeeps ==
  ASSUME IInv, NEW ts \in SUBSET Targets, Forget(ts), UNCHANGED gen,
         owned' \subseteq owned
  PROVE  /\ binding' \in [Targets -> Binding'] /\ gen' \in [Callers -> Generation']
         /\ remotes' \in Seq(Remote) /\ done' \in [n: 0..MaxGens, targets: SUBSET Targets]
         /\ Bound' /\ OneRemote'
         /\ (\A c \in Callers : gen[c].pc = "idle") \/ owned' \cap ts = {}
              => \A c \in Callers : Working(gen[c])'
<1>1. remotes \in Seq(Remote) /\ Len(remotes) \in Nat /\ binding \in [Targets -> Binding]
  BY LenProperties DEF IInv, TypeOK
<1>2. \A x \in Ids : remotes[x] \in Remote
  BY <1>1 DEF Ids
<1>3. \A x \in Ids : [remotes[x] EXCEPT !.forgotten = @ \/ remotes[x].target \in ts] \in Remote
  BY <1>2, Zenon DEF Remote
<1>4. remotes' = [x \in Ids |-> [remotes[x] EXCEPT !.forgotten = @ \/ remotes[x].target \in ts]]
  BY DEF Forget
<1>5. remotes' \in [1..Len(remotes) -> Remote]
  BY <1>3, <1>4 DEF Ids
<1>6. remotes' \in Seq(Remote) /\ Len(remotes') = Len(remotes)
  BY <1>1, <1>5, SeqDef, LenProperties
<1>7. Ids' = Ids /\ Binding' = Binding /\ Generation' = Generation
  BY <1>6 DEF Ids, Binding, Generation
<1>8. \A x \in Ids : /\ remotes'[x].target = remotes[x].target
                     /\ remotes'[x].account = remotes[x].account
                     /\ remotes'[x].forgotten <=>
                          (remotes[x].forgotten \/ remotes[x].target \in ts)
  BY <1>2, <1>4 DEF Remote
<1>9. \A t \in Targets : binding'[t] = IF t \in ts THEN NoBinding ELSE binding[t]
  BY DEF Forget
<1>10. NoBinding \in Binding /\ NoBinding.state = "none"
  BY <1>1 DEF NoBinding, Binding, States
<1>11. binding' \in [Targets -> Binding']
  BY <1>1, <1>7, <1>10 DEF Forget
<1>12. gen' \in [Callers -> Generation'] /\ \A c \in Callers : gen'[c] = gen[c]
  BY <1>7 DEF IInv, TypeOK
<1>13. done' \in [n: 0..MaxGens, targets: SUBSET Targets]
  BY DEF Forget, IInv, TypeOK
<1>14. Bound'
  <2>1. ASSUME NEW t \in Targets, binding'[t].state = "linked"
        PROVE  /\ binding'[t].id \in Ids'
               /\ remotes'[binding'[t].id].target = t
               /\ remotes'[binding'[t].id].account = binding'[t].scope
               /\ ~remotes'[binding'[t].id].forgotten
    <3>1. t \notin ts /\ binding'[t] = binding[t]
      BY <1>9, <1>10, <2>1
    <3> QED BY <1>7, <1>8, <2>1, <3>1 DEF IInv, Safe, Bound
  <2>2. ASSUME NEW t \in Targets, t \in owned', binding'[t].state = "none",
               NEW x \in Ids', remotes'[x].target = t
        PROVE  remotes'[x].forgotten
    <3>1. CASE t \in ts
      BY <1>7, <1>8, <2>2, <3>1
    <3>2. CASE t \notin ts
      BY <1>7, <1>8, <1>9, <2>2, <3>2 DEF IInv, Safe, Bound
    <3> QED BY <3>1, <3>2
  <2> QED BY <2>1, <2>2 DEF Bound
<1>15. OneRemote'
  BY <1>7, <1>8 DEF IInv, Safe, OneRemote
<1>16. ASSUME (\A c \in Callers : gen[c].pc = "idle") \/ owned' \cap ts = {},
              NEW c \in Callers
       PROVE  Working(gen[c])'
  <2>1. gen'[c] = gen[c] /\ Working(gen[c]) /\ Aimed(gen[c])
    BY <1>12 DEF IInv, Safe
  <2>2. CASE gen[c].pc = "idle"
    BY <2>1, <2>2 DEF Working
  <2>3. CASE owned' \cap ts = {} /\ gen[c].pc = "create"
    <3>1. gen[c].t \in owned' => binding'[gen[c].t] = binding[gen[c].t]
      BY <1>9, <2>1, <2>3 DEF Aimed
    <3> QED BY <1>7, <1>8, <2>1, <2>3, <3>1 DEF Working
  <2>4. CASE owned' \cap ts = {} /\ gen[c].pc \notin {"idle", "create"}
    BY <1>7, <1>8, <2>1, <2>4 DEF Working
  <2> QED BY <1>16, <2>2, <2>3, <2>4
<1> QED BY <1>6, <1>11, <1>12, <1>13, <1>14, <1>15, <1>16

\* ResetBegin: the lock was free.
LEMMA ResetBeginKeeps == ASSUME IInv, NEW t \in Targets, ResetBegin(t) PROVE IInv'
<1>1. /\ UNCHANGED <<binding, owned, gen, remotes, done, gens, faults>>
      /\ \A c \in Callers : gen[c].pc = "idle"
      /\ resetting' = t /\ forgotten' \in 0..MaxForgotten
  BY ExportAssumption DEF ResetBegin, Busy, IInv, TypeOK
<1>2. Generation' = Generation /\ Binding' = Binding
  BY <1>1 DEF Generation, Binding
<1>3. Bound' /\ OneRemote' /\ \A c \in Callers : Working(gen[c])' /\ Aimed(gen[c])'
  BY <1>1 DEF IInv, Safe, Bound, OneRemote, Working, Aimed, Ids
<1>4. Exclusive'
  BY <1>1 DEF Exclusive
<1> QED BY <1>1, <1>2, <1>3, <1>4 DEF IInv, TypeOK, Safe

\* Reset: the lock kept generations out, so none relies on what is forgotten.
LEMMA ResetKeeps == ASSUME IInv, Reset PROVE IInv'
<1>1. /\ UNCHANGED <<owned, gen, gens, forgotten, faults>> /\ resetting' = None
      /\ resetting \in Targets /\ \A c \in Callers : gen[c].pc = "idle"
  BY DEF Reset, bounds, IInv, TypeOK, Safe, Exclusive
<1>2. Exclusive' /\ \A c \in Callers : Aimed(gen[c])'
  BY <1>1 DEF Exclusive, IInv, Safe, Aimed
<1>3. /\ binding' \in [Targets -> Binding'] /\ gen' \in [Callers -> Generation']
      /\ remotes' \in Seq(Remote) /\ done' \in [n: 0..MaxGens, targets: SUBSET Targets]
      /\ Bound' /\ OneRemote' /\ \A c \in Callers : Working(gen[c])'
  <2>1. CASE Forget({resetting})
    <3>1. {resetting} \in SUBSET Targets /\ owned' \subseteq owned /\ UNCHANGED gen
      BY <1>1
    <3> QED BY <1>1, <2>1, <3>1, ForgetKeeps
  <2>2. CASE UNCHANGED <<binding, remotes, done>>
    <3>1. Generation' = Generation /\ Binding' = Binding
      BY <2>2 DEF Generation, Binding
    <3>2. Bound' /\ OneRemote' /\ \A c \in Callers : Working(gen[c])'
      BY <1>1, <2>2 DEF IInv, Safe, Bound, OneRemote, Working, Ids
    <3> QED BY <1>1, <2>2, <3>1, <3>2 DEF IInv, TypeOK
  <2> QED BY <2>1, <2>2 DEF Reset
<1>4. resetting' \in Targets \cup {None} /\ owned' \subseteq Targets
  BY <1>1 DEF IInv, TypeOK
<1> QED BY <1>1, <1>2, <1>3, <1>4 DEF IInv, TypeOK, Safe

\* Delete: a generation may be at the target, but it reserves it no more.
LEMMA DeleteKeeps == ASSUME IInv, NEW ts \in SUBSET Targets, Delete(ts) PROVE IInv'
<1>1. /\ UNCHANGED <<gen, resetting, gens, faults>> /\ Forget(ts)
      /\ owned' \subseteq owned /\ owned' \cap ts = {}
      /\ forgotten' \in 0..MaxForgotten
  BY ExportAssumption DEF Delete, IInv, TypeOK
<1>2. /\ binding' \in [Targets -> Binding'] /\ gen' \in [Callers -> Generation']
      /\ remotes' \in Seq(Remote) /\ done' \in [n: 0..MaxGens, targets: SUBSET Targets]
      /\ Bound' /\ OneRemote' /\ \A c \in Callers : Working(gen[c])'
  BY <1>1, ForgetKeeps
<1>3. Exclusive' /\ \A c \in Callers : Aimed(gen[c])'
  BY <1>1 DEF Exclusive, IInv, Safe, Aimed
<1> QED BY <1>1, <1>2, <1>3 DEF IInv, TypeOK, Safe

\* Crash: the locks are gone, and with them what the generations relied on.
LEMMA CrashKeeps == ASSUME IInv, Crash PROVE IInv'
<1>1. /\ UNCHANGED <<binding, owned, remotes, done, gens, forgotten>>
      /\ resetting' = None /\ gen' = [c \in Callers |-> Idle]
  BY DEF Crash
<1>2. faults' \in 0..MaxFaults
  BY FaultCounted DEF Crash
<1>3. Generation' = Generation /\ Binding' = Binding
  BY <1>1 DEF Generation, Binding
<1>4. Idle \in Generation /\ Idle.pc = "idle"
  <2>1. remotes \in Seq(Remote) /\ Len(remotes) \in Nat
    BY LenProperties DEF IInv, TypeOK
  <2> QED BY <2>1, ExportAssumption DEF Idle, Generation
<1>5. \A c \in Callers : gen'[c].pc = "idle"
  BY <1>1, <1>4
<1>6. Exclusive' /\ \A c \in Callers : Aimed(gen[c])' /\ Working(gen[c])'
  BY <1>1, <1>5 DEF Exclusive, Aimed, Working
<1>7. Bound' /\ OneRemote'
  BY <1>1 DEF IInv, Safe, Bound, OneRemote, Ids
<1>8. gen' \in [Callers -> Generation']
  BY <1>1, <1>3, <1>4
<1> QED BY <1>1, <1>2, <1>3, <1>6, <1>7, <1>8 DEF IInv, TypeOK, Safe

-----------------------------------------------------------------------------

\* The invariant is inductive.
LEMMA NextIInv == IInv /\ [Next]_vars => IInv'
<1> SUFFICES ASSUME IInv, [Next]_vars PROVE IInv'
  OBVIOUS
<1>1. CASE UNCHANGED vars
  <2>1. UNCHANGED <<binding, owned, gen, resetting, remotes, done, gens, forgotten, faults>>
    BY <1>1 DEF vars
  <2>2. Generation' = Generation /\ Binding' = Binding
    BY <2>1 DEF Generation, Binding
  <2>3. TypeOK'
    BY <2>1, <2>2 DEF IInv, TypeOK
  <2>4. Exclusive' /\ Bound' /\ OneRemote'
    BY <2>1 DEF IInv, Safe, Exclusive, Bound, OneRemote, Ids
  <2>5. \A c \in Callers : Aimed(gen[c])' /\ Working(gen[c])'
    BY <2>1 DEF IInv, Safe, Aimed, Working, Ids
  <2> QED BY <2>3, <2>4, <2>5 DEF IInv, Safe
<1>2. ASSUME NEW c \in Callers, Begin(c) PROVE IInv'
  BY <1>2, BeginKeeps
<1>3. ASSUME NEW c \in Callers, GenStep(c) PROVE IInv'
  BY <1>3, GenerateKeeps, SelectKeeps, NextTargetKeeps, OpenKeeps, ReserveKeeps,
     CreateKeeps, LinkKeeps, FillKeeps, MarkKeeps, EndKeeps DEF GenStep
<1>4. ASSUME NEW t \in Targets, ResetBegin(t) PROVE IInv'
  BY <1>4, ResetBeginKeeps
<1>5. CASE Reset
  BY <1>5, ResetKeeps
<1>6. ASSUME NEW ts \in SUBSET Targets, Delete(ts) PROVE IInv'
  BY <1>6, DeleteKeeps
<1>7. CASE Crash
  BY <1>7, CrashKeeps
<1> QED BY <1>1, <1>2, <1>3, <1>4, <1>5, <1>6, <1>7 DEF Next

\* The inductive invariant holds whatever the generations, the user and the servers do, and
\* wherever the process dies.
THEOREM Invariance == Spec => []IInv
BY InitIInv, NextIInv, PTL DEF Spec

\* The bindings, the generations and the remote playlists keep their types.
THEOREM TypeCorrect == Spec => []TypeOK
<1>1. IInv => TypeOK
  BY DEF IInv
<1> QED BY <1>1, Invariance, PTL

\* A create request is never repeated for a target whose earlier one may have worked: until
\* its binding is reset or deleted a target has one remote playlist at most.
THEOREM NeverTwoRemotes == Spec => []OneRemote
<1>1. IInv => OneRemote
  BY DEF IInv, Safe
<1> QED BY <1>1, Invariance, PTL

\* No remote playlist is made that the binding of its target does not account for.
THEOREM AlwaysAccounted == Spec => []Accounted
BY IInvAccounted, Invariance, PTL

\* An export replaces its own playlist, in the account it was made in.
THEOREM ReplacesItsOwn == Spec => []RightAccount
BY IInvAccounted, Invariance, PTL

-----------------------------------------------------------------------------
(* What a completed job stands for. *)

Exported(t, n) == binding[t].state = "linked" /\ remotes[binding[t].id].content = n

\* A generation under way is the last one, and, unless it failed, has exported what it has
\* been through.
Fresh(g) ==
  g.pc # "idle" =>
    /\ g.n = gens /\ done.n < gens
    /\ g.pc = "mark" => g.failed
    /\ g.pc \in {"link", "fill", "replace"} => remotes[g.id].target = g.t
    /\ (g.pc \in {"fill", "replace"} /\ g.t \in owned) =>
         binding[g.t].state = "linked" /\ binding[g.t].id = g.id
    /\ (~g.failed /\ g.pc \notin {"generate", "select"}) =>
         \A t \in (g.selected \ g.todo) \cap owned : (g.pc = "next" \/ t # g.t) => Exported(t, g.n)

CInv ==
  /\ done.n <= gens
  /\ done.n = gens => \A t \in done.targets : Exported(t, gens)
  /\ \A c \in Callers : Fresh(gen[c])

\* A generation goes on.
LEMMA FreshMove ==
  ASSUME IInv, CInv, NEW c \in Callers, gen[c].pc # "idle", NEW g \in Generation',
         gen' = [gen EXCEPT ![c] = g], UNCHANGED <<done, gens>>, Fresh(g)'
  PROVE  CInv'
<1>1. gen \in [Callers -> Generation] /\ done.n \in Nat /\ gens \in Nat
  BY ExportAssumption DEF IInv, TypeOK
<1>2. done.n < gens BY DEF CInv, Fresh
<1>3. gen'[c] = g /\ \A d \in Callers \ {c} : gen'[d] = gen[d] /\ gen[d].pc = "idle"
  BY <1>1 DEF IInv, Safe, Exclusive
<1>4. \A d \in Callers : Fresh(gen[d])'
  <2>1. \A d \in Callers \ {c} : Fresh(gen[d])' BY <1>3 DEF Fresh
  <2>2. Fresh(gen[c])' BY <1>3
  <2> QED BY <2>1, <2>2
<1> QED BY <1>1, <1>2, <1>4 DEF CInv

\* A generation goes on with its target, and spoils no other.
LEMMA TargetMove ==
  ASSUME IInv, CInv, NEW c \in Callers, gen[c].pc \notin {"idle", "generate", "select", "next"},
         NEW g \in Generation', gen' = [gen EXCEPT ![c] = g], UNCHANGED <<done, gens, owned>>,
         g.n = gen[c].n, g.selected = gen[c].selected, g.todo = gen[c].todo, g.t = gen[c].t,
         gen[c].failed => g.failed,
         \A t \in Targets \ {g.t} : Exported(t, gens) => Exported(t, gens)',
         g.pc = "mark" => g.failed,
         g.pc \in {"link", "fill", "replace"} => remotes'[g.id].target = g.t,
         (g.pc \in {"fill", "replace"} /\ g.t \in owned) =>
           binding'[g.t].state = "linked" /\ binding'[g.t].id = g.id,
         (g.pc = "next" /\ ~g.failed /\ g.t \in owned) => Exported(g.t, gens)'
  PROVE  CInv'
<1>1. Fresh(gen[c]) BY DEF CInv
<1>2. owned \subseteq Targets BY DEF IInv, TypeOK
<1>3. Fresh(g)'
  <2>1. g.n = gens /\ done.n < gens BY <1>1 DEF Fresh
  <2>2. ASSUME ~g.failed, NEW t \in (g.selected \ g.todo) \cap owned, g.pc = "next" \/ t # g.t
        PROVE  Exported(t, g.n)'
    <3>1. CASE t = g.t BY <2>1, <2>2, <3>1
    <3>2. CASE t # g.t
      <4>1. Exported(t, gens) BY <1>1, <2>1, <2>2, <3>2 DEF Fresh
      <4> QED BY <1>2, <2>1, <2>2, <3>2, <4>1
    <3> QED BY <3>1, <3>2
  <2> QED BY <2>1, <2>2 DEF Fresh
<1> QED BY <1>3, FreshMove

\* A target that fails is failed.
LEMMA FailsGives ==
  ASSUME IInv, NEW c \in Callers, Fails(c)
  PROVE  \E g : /\ gen' = [gen EXCEPT ![c] = g] /\ g.n = gen[c].n /\ g.selected = gen[c].selected
                /\ g.todo = gen[c].todo /\ g.t = gen[c].t /\ g.failed /\ g.pc \in {"mark", "next"}
<1> DEFINE g == [gen[c] EXCEPT !.pc = IF gen[c].created THEN "mark" ELSE "next", !.failed = TRUE]
<1>1. gen \in [Callers -> Generation] BY DEF IInv, TypeOK
<1>2. gen' = [gen EXCEPT ![c] = g] BY <1>1 DEF Fails, Generation
<1>3. /\ g.n = gen[c].n /\ g.selected = gen[c].selected /\ g.todo = gen[c].todo
      /\ g.t = gen[c].t /\ g.failed /\ g.pc \in {"mark", "next"}
  BY <1>1 DEF Generation
<1> QED BY <1>2, <1>3

\* A target failed, whatever became of its binding and its playlist.
LEMMA FailsFresh ==
  ASSUME IInv, IInv', CInv, NEW c \in Callers, Fails(c),
         gen[c].pc \notin {"idle", "generate", "select", "next"},
         UNCHANGED <<done, gens, owned>>,
         \A t \in Targets \ {gen[c].t} : Exported(t, gens) => Exported(t, gens)'
  PROVE  CInv'
<1>1. PICK g : /\ gen' = [gen EXCEPT ![c] = g] /\ g.n = gen[c].n /\ g.selected = gen[c].selected
               /\ g.todo = gen[c].todo /\ g.t = gen[c].t /\ g.failed /\ g.pc \in {"mark", "next"}
  BY FailsGives
<1>2. g \in Generation'
  <2>1. gen \in [Callers -> Generation] /\ gen' \in [Callers -> Generation'] BY DEF IInv, TypeOK
  <2>2. gen'[c] = g BY <1>1, <2>1
  <2> QED BY <2>1, <2>2
<1> QED BY <1>1, <1>2, TargetMove

\* A playlist written to, or a new one, is nobody else's.
LEMMA OthersKept ==
  ASSUME IInv, CInv, NEW t \in Targets, Exported(t, gens), binding'[t] = binding[t],
         NEW i, \A x \in Ids : x # i => remotes'[x] = remotes[x],
         i \in Ids => remotes[i].target # t, gens' = gens
  PROVE  Exported(t, gens)'
<1>1. binding[t].id \in Ids /\ remotes[binding[t].id].target = t
  BY DEF IInv, Safe, Bound, Exported
<1>2. binding[t].id # i BY <1>1
<1> QED BY <1>1, <1>2 DEF Exported

\* A generation begins as the last one.
LEMMA BeginFresh == ASSUME IInv, IInv', CInv, NEW c \in Callers, Begin(c) PROVE CInv'
<1> DEFINE g == [Idle EXCEPT !.pc = "generate", !.n = gens + 1]
<1>1. /\ gens \in Nat /\ done.n \in Nat /\ gen \in [Callers -> Generation]
      /\ gens' = gens + 1 /\ UNCHANGED done /\ gen' = [gen EXCEPT ![c] = g]
      /\ \A d \in Callers : gen[d].pc = "idle"
  BY ExportAssumption DEF IInv, TypeOK, Begin, Busy
<1>2. g.pc = "generate" /\ g.n = gens + 1 BY DEF Idle
<1> HIDE DEF g
<1>3. done.n < gens' BY <1>1 DEF CInv
<1>4. gen'[c] = g /\ \A d \in Callers \ {c} : gen'[d].pc = "idle" BY <1>1
<1>6. \A d \in Callers : Fresh(gen[d])'
  BY <1>1, <1>2, <1>3, <1>4 DEF Fresh
<1> QED BY <1>1, <1>3, <1>6 DEF CInv

\* The tracks are generated, the targets selected.
LEMMA StartFresh ==
  ASSUME IInv, IInv', CInv, NEW c \in Callers, Generate(c) \/ Select(c) PROVE CInv'
<1>1. /\ gen \in [Callers -> Generation] /\ gen' \in [Callers -> Generation'] /\ gens \in Nat
      /\ done.n \in Nat /\ gen[c].pc # "idle" /\ UNCHANGED <<binding, owned, remotes, done, gens>>
      /\ Fresh(gen[c])
  <2>1. gen \in [Callers -> Generation] /\ gen' \in [Callers -> Generation'] /\ gens \in Nat
        /\ done.n \in Nat /\ Fresh(gen[c])
    BY ExportAssumption DEF IInv, TypeOK, CInv
  <2>2. gen[c].pc # "idle" /\ UNCHANGED <<binding, owned, remotes, done, gens>>
    BY DEF Generate, Select, bounds
  <2> QED BY <2>1, <2>2
<1>2. gen[c].n = gens /\ done.n < gens BY <1>1 DEF Fresh
<1> DEFINE Started(g) == /\ gen' = [gen EXCEPT ![c] = g]
                         /\ \/ g.pc = "idle"
                            \/ g.pc = "select" /\ g.n = gen[c].n
                            \/ g.pc = "next" /\ g.n = gen[c].n /\ g.selected = g.todo
<1>3. \E g : Started(g)
  <2>1. CASE gen' = [gen EXCEPT ![c] = Idle]
    <3>1. Idle.pc = "idle" BY DEF Idle
    <3>2. Started(Idle) BY <2>1, <3>1
    <3> QED BY <3>2
  <2>2. ASSUME NEW e \in BOOLEAN, gen' = [gen EXCEPT ![c].pc = "select", ![c].empty = e]
        PROVE  \E g : Started(g)
    <3> DEFINE g == [gen[c] EXCEPT !.pc = "select", !.empty = e]
    <3>1. gen' = [gen EXCEPT ![c] = g] BY <1>1, <2>2 DEF Generation
    <3>2. g.pc = "select" /\ g.n = gen[c].n BY <1>1 DEF Generation
    <3> QED BY <3>1, <3>2
  <2>3. ASSUME NEW ts \in SUBSET Selectable,
               gen' = [gen EXCEPT ![c].pc = "next", ![c].selected = ts, ![c].todo = ts]
        PROVE  \E g : Started(g)
    <3> DEFINE g == [gen[c] EXCEPT !.pc = "next", !.selected = ts, !.todo = ts]
    <3>1. gen' = [gen EXCEPT ![c] = g] BY <1>1, <2>3 DEF Generation
    <3>2. g.pc = "next" /\ g.n = gen[c].n /\ g.selected = g.todo BY <1>1 DEF Generation
    <3> QED BY <3>1, <3>2
  <2> QED BY <2>1, <2>2, <2>3 DEF Generate, Select
<1>4. PICK g : Started(g) BY <1>3
<1>5. g \in Generation'
  <2>1. gen'[c] = g BY <1>1, <1>4
  <2> QED BY <1>1, <2>1
<1>6. Fresh(g)' BY <1>1, <1>2, <1>4 DEF Fresh
<1> QED BY <1>1, <1>4, <1>5, <1>6, FreshMove

\* The next target; with nothing to export it has failed.
LEMMA NextTargetFresh ==
  ASSUME IInv, IInv', CInv, NEW c \in Callers, NEW t \in Targets, NextTarget(c, t) PROVE CInv'
<1> DEFINE new == [gen[c] EXCEPT !.pc = IF gen[c].empty THEN "next" ELSE "open",
                   !.failed = gen[c].failed \/ gen[c].empty, !.todo = gen[c].todo \ {t}, !.t = t,
                   !.scope = None, !.created = FALSE, !.id = 0]
<1>1. /\ gen \in [Callers -> Generation] /\ gen' \in [Callers -> Generation'] /\ gen[c].pc = "next"
      /\ UNCHANGED <<binding, owned, remotes, done, gens>> /\ Fresh(gen[c])
      /\ gen[c].empty \in BOOLEAN /\ gen[c].failed \in BOOLEAN
  BY DEF IInv, TypeOK, NextTarget, bounds, CInv, Generation
<1>2. gen' = [gen EXCEPT ![c] = new] BY <1>1 DEF NextTarget, Generation
<1>3. /\ new.n = gen[c].n /\ new.selected = gen[c].selected /\ new.todo = gen[c].todo \ {t} /\ new.t = t
      /\ \/ new.pc = "next" /\ new.failed
         \/ new.pc = "open" /\ new.failed = gen[c].failed
  BY <1>1 DEF Generation
<1> HIDE DEF new
<1>3a. PICK g : g = new OBVIOUS
<1>4. g \in Generation'
  <2>1. gen'[c] = g BY <1>1, <1>2, <1>3a
  <2> QED BY <1>1, <2>1
<1>5. Fresh(g)'
  <2>1. g.n = gens /\ done.n < gens BY <1>1, <1>3, <1>3a DEF Fresh
  <2>2. ASSUME ~g.failed, NEW u \in (g.selected \ g.todo) \cap owned, u # g.t
        PROVE  Exported(u, g.n)
    <3>1. u \in (gen[c].selected \ gen[c].todo) \cap owned /\ ~gen[c].failed BY <1>3, <1>3a, <2>2
    <3> QED BY <1>1, <1>3, <1>3a, <3>1 DEF Fresh
  <2>3. \A u \in Targets : Exported(u, g.n)' <=> Exported(u, g.n) BY <1>1 DEF Exported
  <2>4. owned \subseteq Targets BY DEF IInv, TypeOK
  <2> QED BY <1>1, <1>3, <1>3a, <2>1, <2>2, <2>3, <2>4 DEF Fresh
<1> QED BY <1>1, <1>2, <1>3a, <1>4, <1>5, FreshMove

\* The account is verified, or is not.
LEMMA OpenFresh == ASSUME IInv, IInv', CInv, NEW c \in Callers, Open(c) PROVE CInv'
<1>1. /\ gen \in [Callers -> Generation] /\ gen' \in [Callers -> Generation'] /\ gen[c].pc = "open"
      /\ UNCHANGED <<binding, owned, remotes, done, gens>>
  BY DEF IInv, TypeOK, Open, bounds
<1>2. \A t \in Targets : Exported(t, gens) => Exported(t, gens)' BY <1>1 DEF Exported
<1>3. CASE Fails(c) BY <1>1, <1>2, <1>3, FailsFresh
<1>4. ASSUME NEW a \in Accounts, gen' = [gen EXCEPT ![c].pc = "reserve", ![c].scope = a]
      PROVE  CInv'
  <2> DEFINE g == [gen[c] EXCEPT !.pc = "reserve", !.scope = a]
  <2>1. gen' = [gen EXCEPT ![c] = g] BY <1>1, <1>4 DEF Generation
  <2>2. /\ g.n = gen[c].n /\ g.selected = gen[c].selected /\ g.todo = gen[c].todo
        /\ g.t = gen[c].t /\ g.failed = gen[c].failed /\ g.pc = "reserve"
    BY <1>1 DEF Generation
  <2> HIDE DEF g
  <2>3. g \in Generation'
    <3>1. gen'[c] = g BY <1>1, <2>1
    <3> QED BY <1>1, <3>1
  <2> QED BY <1>1, <1>2, <2>1, <2>2, <2>3, TargetMove
<1> QED BY <1>3, <1>4 DEF Open

\* A generation that goes from one request to the next of its target.
LEMMA GotoFresh ==
  ASSUME IInv, IInv', CInv, NEW c \in Callers,
         gen[c].pc \notin {"idle", "generate", "select", "next"},
         NEW g, gen' = [gen EXCEPT ![c] = g], UNCHANGED <<done, gens, owned>>,
         g.n = gen[c].n, g.selected = gen[c].selected, g.todo = gen[c].todo, g.t = gen[c].t,
         g.failed = gen[c].failed, g.pc \in {"create", "link", "fill", "replace"},
         \A t \in Targets \ {g.t} : Exported(t, gens) => Exported(t, gens)',
         g.pc \in {"link", "fill", "replace"} => remotes'[g.id].target = g.t,
         (g.pc \in {"fill", "replace"} /\ g.t \in owned) =>
           binding'[g.t].state = "linked" /\ binding'[g.t].id = g.id
  PROVE  CInv'
<1>1. g \in Generation'
  <2>1. gen \in [Callers -> Generation] /\ gen' \in [Callers -> Generation'] BY DEF IInv, TypeOK
  <2>2. gen'[c] = g BY <2>1
  <2> QED BY <2>1, <2>2
<1> QED BY <1>1, TargetMove

\* The row is reserved, or there is one.
LEMMA ReserveFresh == ASSUME IInv, IInv', CInv, NEW c \in Callers, Reserve(c) PROVE CInv'
<1>1. /\ gen \in [Callers -> Generation] /\ gen[c].pc = "reserve" /\ gen[c].t \in Targets
      /\ UNCHANGED <<owned, remotes, done, gens>> /\ binding \in [Targets -> Binding]
  BY DEF IInv, TypeOK, Reserve, Safe, Aimed
<1>2. binding' \in {binding, Reserved(c)} BY DEF Reserve
<1>3. \A t \in Targets \ {gen[c].t} : Exported(t, gens) => Exported(t, gens)'
  BY <1>1, <1>2 DEF Exported, Reserved
<1>4. CASE Fails(c) BY <1>1, <1>3, <1>4, FailsFresh
<1>5. CASE gen' = [gen EXCEPT ![c].pc = "create", ![c].created = TRUE]
  <2>1. PICK g : g = [gen[c] EXCEPT !.pc = "create", !.created = TRUE] OBVIOUS
  <2>2. gen' = [gen EXCEPT ![c] = g] BY <1>1, <1>5, <2>1 DEF Generation
  <2>3. /\ g.n = gen[c].n /\ g.selected = gen[c].selected /\ g.todo = gen[c].todo
        /\ g.t = gen[c].t /\ g.failed = gen[c].failed /\ g.pc = "create"
    BY <1>1, <2>1 DEF Generation
  <2> QED BY <1>1, <1>3, <2>2, <2>3, GotoFresh
<1>6. CASE my(c).state = "linked" /\ ToReplace(c) /\ UNCHANGED binding
  <2>1. PICK g : g = [gen[c] EXCEPT !.pc = "replace", !.id = my(c).id] OBVIOUS
  <2>2. gen' = [gen EXCEPT ![c] = g] BY <1>1, <1>6, <2>1 DEF Generation, ToReplace
  <2>3. /\ g.n = gen[c].n /\ g.selected = gen[c].selected /\ g.todo = gen[c].todo
        /\ g.t = gen[c].t /\ g.failed = gen[c].failed /\ g.pc = "replace"
        /\ g.id = binding[g.t].id
    BY <1>1, <2>1 DEF Generation, my
  <2>4. remotes[g.id].target = g.t BY <1>1, <1>6, <2>3 DEF my, IInv, Safe, Bound
  <2>5. binding'[g.t].state = "linked" /\ binding'[g.t].id = g.id BY <1>6, <2>3 DEF my
  <2>6. remotes'[g.id].target = g.t BY <1>1, <2>4
  <2> QED BY <1>1, <1>3, <2>2, <2>3, <2>5, <2>6, GotoFresh
<1> QED BY <1>4, <1>5, <1>6 DEF Reserve

\* A new playlist spoils no other.
LEMMA CreateFresh == ASSUME IInv, IInv', CInv, NEW c \in Callers, Create(c) PROVE CInv'
<1>1. /\ gen \in [Callers -> Generation] /\ gen[c].pc = "create" /\ gen[c].t \in Targets
      /\ UNCHANGED <<owned, binding, done, gens>> /\ remotes \in Seq(Remote) /\ Len(remotes) \in Nat
  BY LenProperties DEF IInv, TypeOK, Create, Safe, Aimed
<1>2. CASE Fails(c) /\ UNCHANGED remotes
  <2>1. \A t \in Targets : Exported(t, gens) => Exported(t, gens)' BY <1>1, <1>2 DEF Exported
  <2> QED BY <1>1, <1>2, <2>1, FailsFresh
<1>3. ASSUME NEW content \in {0, gen[c].n},
             remotes' = Append(remotes, [target |-> gen[c].t, account |-> gen[c].scope,
                                         content |-> content, forgotten |-> FALSE])
      PROVE  CInv'
  <2>1. PICK row : row = [target |-> gen[c].t, account |-> gen[c].scope,
                          content |-> content, forgotten |-> FALSE]
    OBVIOUS
  <2>2. /\ \A x \in Ids : remotes'[x] = remotes[x]
        /\ remotes'[Len(remotes) + 1] = row
    BY <1>1, <1>3, <2>1 DEF Ids
  <2>3. row.target = gen[c].t BY <2>1
  <2>4. \A t \in Targets : Exported(t, gens) => Exported(t, gens)'
    BY <1>1, <2>2 DEF Exported, IInv, Safe, Bound
  <2>5. CASE Fails(c) BY <1>1, <2>4, <2>5, FailsFresh
  <2>6. CASE gen' = [gen EXCEPT ![c].pc = "link", ![c].id = Len(remotes) + 1]
    <3>1. PICK g : g = [gen[c] EXCEPT !.pc = "link", !.id = Len(remotes) + 1] OBVIOUS
    <3>2. gen' = [gen EXCEPT ![c] = g] BY <1>1, <2>6, <3>1 DEF Generation
    <3>3. /\ g.n = gen[c].n /\ g.selected = gen[c].selected /\ g.todo = gen[c].todo
          /\ g.t = gen[c].t /\ g.failed = gen[c].failed /\ g.pc = "link"
          /\ g.id = Len(remotes) + 1
      BY <1>1, <3>1 DEF Generation
    <3>4. remotes'[g.id].target = g.t BY <2>2, <2>3, <3>3
    <3> QED BY <1>1, <2>4, <3>2, <3>3, <3>4, GotoFresh
  <2> QED BY <1>3, <2>5, <2>6 DEF Create
<1> QED BY <1>2, <1>3 DEF Create

\* The new playlist is the target's.
LEMMA LinkFresh == ASSUME IInv, IInv', CInv, NEW c \in Callers, Link(c) PROVE CInv'
<1>1. /\ gen \in [Callers -> Generation] /\ gen[c].pc = "link" /\ gen[c].t \in Targets
      /\ UNCHANGED <<owned, remotes, done, gens>> /\ binding \in [Targets -> Binding]
      /\ Fresh(gen[c])
  BY DEF IInv, TypeOK, Link, Safe, Aimed, CInv
<1> DEFINE to == [binding EXCEPT ![gen[c].t].state = "linked", ![gen[c].t].id = gen[c].id]
<1>2. binding' \in {binding, to} BY DEF Link
<1>3. \A t \in Targets \ {gen[c].t} : Exported(t, gens) => Exported(t, gens)'
  BY <1>1, <1>2 DEF Exported
<1>4. CASE Fails(c) BY <1>1, <1>3, <1>4, FailsFresh
<1>5. CASE Goto(c, "fill") /\ binding' = to
  <2>1. PICK g : g = [gen[c] EXCEPT !.pc = "fill"] OBVIOUS
  <2>2. gen' = [gen EXCEPT ![c] = g] BY <1>1, <1>5, <2>1 DEF Generation, Goto
  <2>3. /\ g.n = gen[c].n /\ g.selected = gen[c].selected /\ g.todo = gen[c].todo
        /\ g.t = gen[c].t /\ g.failed = gen[c].failed /\ g.pc = "fill" /\ g.id = gen[c].id
    BY <1>1, <2>1 DEF Generation
  <2>4. remotes'[g.id].target = g.t BY <1>1, <2>3 DEF Fresh
  <2>5. binding'[g.t].state = "linked" /\ binding'[g.t].id = g.id
    BY <1>1, <1>5, <2>3 DEF Binding
  <2> QED BY <1>1, <1>3, <2>2, <2>3, <2>4, <2>5, GotoFresh
<1> QED BY <1>4, <1>5 DEF Link

\* The tracks go to the playlist of this target and to no other.
LEMMA FillFresh == ASSUME IInv, IInv', CInv, NEW c \in Callers, Fill(c) PROVE CInv'
<1>1. /\ gen \in [Callers -> Generation] /\ gen[c].pc \in {"fill", "replace"}
      /\ gen[c].t \in Targets /\ gen[c].id \in Ids
      /\ UNCHANGED <<owned, binding, done, gens>> /\ WriteTracks(c) /\ Fresh(gen[c])
      /\ remotes \in Seq(Remote)
  BY DEF IInv, TypeOK, Fill, Safe, Aimed, Working, CInv, bounds
<1>2. gen[c].n = gens /\ remotes[gen[c].id].target = gen[c].t BY <1>1 DEF Fresh
<1>3. PICK content : remotes' = [remotes EXCEPT ![gen[c].id].content = content]
  BY <1>1 DEF WriteTracks
<1>4. /\ \A x \in Ids : x # gen[c].id => remotes'[x] = remotes[x]
      /\ remotes'[gen[c].id].target = remotes[gen[c].id].target
      /\ remotes'[gen[c].id].content = content
  BY <1>1, <1>3 DEF Ids, Remote
<1>5. \A t \in Targets \ {gen[c].t} : Exported(t, gens) => Exported(t, gens)'
  BY <1>1, <1>2, <1>4 DEF Exported, IInv, Safe, Bound
<1>6. CASE Fails(c) BY <1>1, <1>5, <1>6, FailsFresh
<1>7. ASSUME NEW partial \in BOOLEAN, Submitted(c, partial),
             remotes' = [remotes EXCEPT ![gen[c].id].content = gen[c].n]
      PROVE  CInv'
  <2>1. PICK g : g = [gen[c] EXCEPT !.pc = IF partial /\ gen[c].created THEN "mark" ELSE "next",
                                    !.failed = gen[c].failed \/ partial]
    OBVIOUS
  <2>2. gen' = [gen EXCEPT ![c] = g] BY <1>1, <1>7, <2>1 DEF Generation, Submitted
  <2>3. /\ g.n = gen[c].n /\ g.selected = gen[c].selected /\ g.todo = gen[c].todo
        /\ g.t = gen[c].t /\ g.failed = (gen[c].failed \/ partial)
        /\ g.pc \in {"next", "mark"} /\ (g.pc = "mark" => partial)
    BY <1>1, <2>1 DEF Generation
  <2>4. g \in Generation'
    <3>1. gen' \in [Callers -> Generation'] /\ gen'[c] = g BY <1>1, <2>2 DEF IInv, TypeOK
    <3> QED BY <3>1
  <2>5. g.t \in owned => Exported(g.t, gens)'
    <3>1. remotes'[gen[c].id].content = gens BY <1>1, <1>2, <1>7 DEF Ids, Remote
    <3>2. g.t \in owned => binding[g.t].state = "linked" /\ binding[g.t].id = gen[c].id
      BY <1>1, <2>3 DEF Fresh
    <3> QED BY <1>1, <3>1, <3>2 DEF Exported
  <2> QED BY <1>1, <1>5, <2>2, <2>3, <2>4, <2>5, TargetMove
<1> QED BY <1>1, <1>6, <1>7 DEF WriteTracks

\* A failed target is marked.
LEMMA MarkFresh == ASSUME IInv, IInv', CInv, NEW c \in Callers, Mark(c) PROVE CInv'
<1>1. /\ gen \in [Callers -> Generation] /\ gen[c].pc = "mark" /\ gen[c].t \in Targets
      /\ UNCHANGED <<owned, remotes, done, gens>> /\ binding \in [Targets -> Binding]
      /\ Fresh(gen[c]) /\ Goto(c, "next")
  BY DEF IInv, TypeOK, Mark, Safe, Aimed, CInv
<1>2. binding' \in {binding, [binding EXCEPT ![gen[c].t].state = "recovery_required"]} BY DEF Mark
<1>3. \A t \in Targets \ {gen[c].t} : Exported(t, gens) => Exported(t, gens)'
  BY <1>1, <1>2 DEF Exported
<1>4. PICK g : g = [gen[c] EXCEPT !.pc = "next"] OBVIOUS
<1>5. gen' = [gen EXCEPT ![c] = g] BY <1>1, <1>4 DEF Generation, Goto
<1>6. /\ g.n = gen[c].n /\ g.selected = gen[c].selected /\ g.todo = gen[c].todo
      /\ g.t = gen[c].t /\ g.failed = gen[c].failed /\ g.pc = "next" /\ gen[c].failed
  BY <1>1, <1>4 DEF Generation, Fresh
<1>7. g \in Generation'
  <2>1. gen' \in [Callers -> Generation'] /\ gen'[c] = g BY <1>1, <1>5 DEF IInv, TypeOK
  <2> QED BY <2>1
<1> QED BY <1>1, <1>3, <1>5, <1>6, <1>7, TargetMove

\* The job completes: all that was selected and is still there has been exported.
LEMMA EndFresh == ASSUME IInv, IInv', CInv, NEW c \in Callers, End(c) PROVE CInv'
<1>1. /\ gen \in [Callers -> Generation] /\ gen[c].pc = "next" /\ gen[c].todo = {}
      /\ UNCHANGED <<owned, remotes, binding, gens>> /\ Fresh(gen[c]) /\ gens \in Nat
      /\ gen' = [gen EXCEPT ![c] = Idle] /\ done.n \in Nat
  BY ExportAssumption DEF IInv, TypeOK, End, CInv
<1>2. gen[c].n = gens /\ done.n < gens BY <1>1 DEF Fresh
<1>3. \A d \in Callers : gen'[d].pc = "idle"
  <2>1. \A d \in Callers \ {c} : gen'[d] = gen[d] /\ gen[d].pc = "idle"
    BY <1>1 DEF IInv, Safe, Exclusive
  <2>2. gen'[c].pc = "idle" BY <1>1 DEF Idle
  <2> QED BY <2>1, <2>2
<1>4. \A d \in Callers : Fresh(gen[d])' BY <1>3 DEF Fresh
<1>5. CASE UNCHANGED done BY <1>1, <1>2, <1>4, <1>5 DEF CInv
<1>6. CASE ~gen[c].failed /\ done' = [n |-> gen[c].n, targets |-> gen[c].selected \cap owned]
  <2>1. \A t \in gen[c].selected \cap owned : Exported(t, gens)
    BY <1>1, <1>2, <1>6 DEF Fresh
  <2>2. \A t \in done'.targets : Exported(t, gens)' BY <1>1, <1>6, <2>1 DEF Exported
  <2> QED BY <1>1, <1>2, <1>4, <1>6, <2>2 DEF CInv
<1> QED BY <1>5, <1>6 DEF End

\* A reset, and a deletion, forget bindings and what their job stood for.
LEMMA ForgetFresh ==
  ASSUME IInv, IInv', CInv, NEW ts \in SUBSET Targets, Forget(ts), UNCHANGED <<gen, gens>>,
         owned' \subseteq owned, owned' \cap ts = {} \/ \A c \in Callers : gen[c].pc = "idle"
  PROVE  CInv'
<1>1. /\ remotes \in Seq(Remote) /\ binding \in [Targets -> Binding] /\ owned \subseteq Targets
      /\ done \in [n: 0..MaxGens, targets: SUBSET Targets] /\ gen \in [Callers -> Generation]
  BY DEF IInv, TypeOK
<1>2. \A t \in Targets \ ts : binding'[t] = binding[t] BY DEF Forget
<1>3. \A x \in Ids : remotes'[x].content = remotes[x].content /\ remotes'[x].target = remotes[x].target
  <2> SUFFICES ASSUME NEW x \in Ids
               PROVE  remotes'[x].content = remotes[x].content /\ remotes'[x].target = remotes[x].target
    OBVIOUS
  <2>1. remotes'[x] = [remotes[x] EXCEPT !.forgotten = remotes[x].forgotten \/ remotes[x].target \in ts]
    BY DEF Forget
  <2>2. remotes[x] \in Remote BY <1>1 DEF Ids
  <2> QED BY <2>1, <2>2 DEF Remote
<1>4. ASSUME NEW n, NEW t \in Targets \ ts, Exported(t, n) PROVE Exported(t, n)'
  <2>1. binding[t].id \in Ids BY <1>4 DEF Exported, IInv, Safe, Bound
  <2> QED BY <1>2, <1>3, <1>4, <2>1 DEF Exported
<1>5. done'.n = done.n /\ done'.targets = done.targets \ ts BY <1>1 DEF Forget
<1>6. done.n = gens => \A t \in done'.targets : Exported(t, gens)'
  BY <1>1, <1>4, <1>5 DEF CInv
<1>7. ASSUME NEW c \in Callers, gen[c].pc # "idle" PROVE Fresh(gen[c])'
  <2>1. Fresh(gen[c]) /\ owned' \cap ts = {} BY <1>7 DEF CInv
  <2>2. gen[c].pc \in {"link", "fill", "replace"} => gen[c].id \in Ids
    BY DEF IInv, Safe, Working
  <2>3. gen[c].pc \in {"link", "fill", "replace"} => remotes'[gen[c].id].target = gen[c].t
    BY <1>3, <1>7, <2>1, <2>2 DEF Fresh
  <2>4. (gen[c].pc \in {"fill", "replace"} /\ gen[c].t \in owned') =>
          binding'[gen[c].t].state = "linked" /\ binding'[gen[c].t].id = gen[c].id
    BY <1>1, <1>2, <1>7, <2>1 DEF Fresh
  <2>5. ASSUME ~gen[c].failed, gen[c].pc \notin {"generate", "select"},
               NEW t \in (gen[c].selected \ gen[c].todo) \cap owned',
               gen[c].pc = "next" \/ t # gen[c].t
        PROVE  Exported(t, gen[c].n)'
    <3>1. Exported(t, gen[c].n) BY <1>7, <2>1, <2>5 DEF Fresh
    <3>2. \A n : n = gen[c].n => Exported(t, n)'
      BY <1>1, <1>4, <2>1, <2>5, <3>1
    <3>3. Exported(t, gen[c].n)'
      <4>1. PICK n : n = gen[c].n OBVIOUS
      <4>2. Exported(t, n)' BY <3>2, <4>1
      <4> QED BY <4>1, <4>2
    <3> QED BY <3>3
  <2> QED BY <1>5, <1>7, <2>1, <2>3, <2>4, <2>5 DEF Fresh
<1>8. \A c \in Callers : Fresh(gen[c])' BY <1>7 DEF Fresh
<1> QED BY <1>5, <1>6, <1>8 DEF CInv

\* A step that touches no generation but to drop it.
LEMMA AsideFresh ==
  ASSUME CInv, UNCHANGED <<binding, owned, remotes, done, gens>>,
         \A c \in Callers : gen'[c] = gen[c] \/ gen'[c].pc = "idle"
  PROVE  CInv'
<1>1. \A c \in Callers : Fresh(gen[c])' BY DEF CInv, Fresh, Exported
<1> QED BY <1>1 DEF CInv, Exported

\* What a completed job stands for is kept by every step.
LEMMA NextFresh == IInv /\ IInv' /\ CInv /\ [Next]_vars => CInv'
<1> SUFFICES ASSUME IInv, IInv', CInv, [Next]_vars PROVE CInv'
  OBVIOUS
<1>1. ASSUME NEW c \in Callers, Begin(c) PROVE CInv' BY <1>1, BeginFresh
<1>2. ASSUME NEW c \in Callers, GenStep(c) PROVE CInv'
  BY <1>2, StartFresh, NextTargetFresh, OpenFresh, ReserveFresh, CreateFresh, LinkFresh, FillFresh,
     MarkFresh, EndFresh DEF GenStep
<1>3. ASSUME NEW t \in Targets, ResetBegin(t) PROVE CInv' BY <1>3, AsideFresh DEF ResetBegin
<1>4. ASSUME NEW ts \in SUBSET Targets, Delete(ts) PROVE CInv'
  <2>1. owned' \subseteq owned /\ owned' \cap ts = {} BY <1>4 DEF Delete
  <2> QED BY <1>4, <2>1, ForgetFresh DEF Delete
<1>5. CASE Reset
  <2>1. /\ UNCHANGED <<owned, gen, gens>> /\ resetting \in Targets
        /\ \A c \in Callers : gen[c].pc = "idle"
    BY <1>5 DEF Reset, bounds, IInv, TypeOK, Safe, Exclusive
  <2>2. CASE Forget({resetting})
    <3>1. PICK ts \in SUBSET Targets : ts = {resetting} BY <2>1
    <3>2. Forget(ts) BY <2>2, <3>1
    <3> QED BY <2>1, <3>2, ForgetFresh
  <2>3. CASE UNCHANGED <<binding, remotes, done>> BY <2>1, <2>3, AsideFresh
  <2> QED BY <1>5, <2>2, <2>3 DEF Reset
<1>6. CASE Crash
  <2>1. \A c \in Callers : gen'[c].pc = "idle" BY <1>6 DEF Crash, Idle
  <2> QED BY <1>6, <2>1, AsideFresh DEF Crash
<1>7. CASE UNCHANGED vars BY <1>7, AsideFresh DEF vars, bounds
<1> QED BY <1>1, <1>2, <1>3, <1>4, <1>5, <1>6, <1>7 DEF Next

\* When the last generation's job has completed, each of its targets holds its tracks.
THEOREM CompletedMeansExported == Spec => []CompletedIsExported
<1>1. Init => CInv
  <2> SUFFICES ASSUME Init PROVE CInv
    OBVIOUS
  <2>1. \A c \in Callers : gen[c].pc = "idle" BY DEF Init, Idle
  <2>2. done.n = 0 /\ gens = 0 /\ done.targets = {} BY DEF Init
  <2> QED BY <2>1, <2>2 DEF CInv, Fresh
<1>2. CInv => CompletedIsExported BY DEF CInv, Exported, CompletedIsExported
<1> QED BY <1>1, <1>2, InitIInv, NextIInv, NextFresh, PTL DEF Spec

-----------------------------------------------------------------------------
(* A generation runs out of steps, and none of its targets keeps it for good. *)

\* the steps of a target, by how many await their turn
Place(pc) ==
  IF pc = "open" THEN 7
  ELSE IF pc = "reserve" THEN 6
  ELSE IF pc = "create" THEN 5
  ELSE IF pc = "link" THEN 4
  ELSE IF pc \in {"fill", "replace"} THEN 3
  ELSE IF pc = "mark" THEN 2
  ELSE IF pc = "next" THEN 1
  ELSE 0

\* a generation that works on its targets
Pushing(g) == g.pc \notin {"idle", "generate", "select"}

\* A step of a generation starts it, ends it, takes up a target, or brings the target at
\* work nearer to its end.
Advances(g, h) ==
  \/ g.pc = "generate" /\ h.pc \in {"idle", "select"}
  \/ g.pc = "select" /\ h.pc = "next"
  \/ g.pc = "next" /\ h.pc = "idle"
  \/ g.pc = "next" /\ h.pc \in {"next", "open"} /\ \E t \in g.todo : h.todo = g.todo \ {t}
  \/ /\ Pushing(g) /\ g.pc # "next" /\ Pushing(h)
     /\ h.todo = g.todo /\ Place(h.pc) < Place(g.pc)

\* A target that fails is marked or left, and no other target is taken up.
LEMMA Failing ==
  ASSUME TypeOK, NEW c \in Callers, Fails(c)
  PROVE  gen'[c].pc \in {"mark", "next"} /\ gen'[c].todo = gen[c].todo
BY DEF Fails, TypeOK, Generation

\* The next step of the same target.
LEMMA Going ==
  ASSUME TypeOK, NEW c \in Callers, NEW pc, Goto(c, pc)
  PROVE  gen'[c].pc = pc /\ gen'[c].todo = gen[c].todo
BY DEF Goto, TypeOK, Generation

\* What the steps of a generation do to it.
LEMMA GenerationAdvances ==
  ASSUME IInv, NEW c \in Callers, GenStep(c)
  PROVE  Advances(gen[c], gen'[c]) /\ \A d \in Callers \ {c} : gen'[d] = gen[d]
<1>0. TypeOK
  BY DEF IInv
<1>1. \A d \in Callers \ {c} : gen'[d] = gen[d]
  BY <1>0 DEF GenStep, Generate, Select, NextTarget, Open, Reserve, Create, Link, Fill, WriteTracks,
     Submitted, Mark, End, Fails, Goto, ToReplace, TypeOK
<1> SUFFICES Advances(gen[c], gen'[c])
  BY <1>1
<1> DEFINE g == gen[c]  h == gen'[c]
<1>2. CASE Generate(c)
  <2>1. g.pc = "generate" /\ h.pc \in {"idle", "select"}
    BY <1>0, <1>2 DEF Generate, TypeOK, Generation, Idle
  <2> QED BY <2>1 DEF Advances
<1>3. CASE Select(c)
  <2>1. g.pc = "select" /\ h.pc = "next"
    BY <1>0, <1>3 DEF Select, TypeOK, Generation
  <2> QED BY <2>1 DEF Advances
<1>4. ASSUME NEW t \in Targets, NextTarget(c, t) PROVE Advances(g, h)
  <2>1. g.pc = "next" /\ h.pc \in {"next", "open"} /\ t \in g.todo /\ h.todo = g.todo \ {t}
    BY <1>0, <1>4 DEF NextTarget, TypeOK, Generation
  <2> QED BY <2>1 DEF Advances
<1>5. CASE End(c)
  <2>1. g.pc = "next" /\ h.pc = "idle"
    BY <1>0, <1>5 DEF End, TypeOK, Generation, Idle
  <2> QED BY <2>1 DEF Advances
<1>6. ASSUME /\ g.pc \in {"open", "reserve", "create", "link", "fill", "replace", "mark"}
             /\ h.pc \in {"reserve", "create", "link", "fill", "replace", "mark", "next"}
             /\ h.todo = g.todo /\ Place(h.pc) < Place(g.pc)
      PROVE  Advances(g, h)
  BY <1>6 DEF Advances, Pushing
<1>7. CASE Open(c)
  <2>1. g.pc = "open" /\ h.pc \in {"reserve", "mark", "next"} /\ h.todo = g.todo
    BY <1>0, <1>7, Failing DEF Open, TypeOK, Generation
  <2> QED BY <1>6, <2>1 DEF Place
<1>8. CASE Reserve(c)
  <2>1. g.pc = "reserve" /\ h.pc \in {"create", "replace", "mark", "next"} /\ h.todo = g.todo
    BY <1>0, <1>8, Failing DEF Reserve, ToReplace, TypeOK, Generation
  <2> QED BY <1>6, <2>1 DEF Place
<1>9. CASE Create(c)
  <2>1. g.pc = "create" /\ h.pc \in {"link", "mark", "next"} /\ h.todo = g.todo
    BY <1>0, <1>9, Failing DEF Create, TypeOK, Generation
  <2> QED BY <1>6, <2>1 DEF Place
<1>10. CASE Link(c)
  <2>1. g.pc = "link" /\ h.pc \in {"fill", "mark", "next"} /\ h.todo = g.todo
    BY <1>0, <1>10, Failing, Going DEF Link
  <2> QED BY <1>6, <2>1 DEF Place
<1>11. CASE Fill(c)
  <2>1. g.pc \in {"fill", "replace"} /\ h.pc \in {"mark", "next"} /\ h.todo = g.todo
    <3>1. \A partial \in BOOLEAN : Submitted(c, partial) =>
            h.pc \in {"mark", "next"} /\ h.todo = g.todo
      BY <1>0 DEF Submitted, TypeOK, Generation
    <3>2. g.pc \in {"fill", "replace"} /\ (Fails(c) \/ \E partial \in BOOLEAN : Submitted(c, partial))
      BY <1>11 DEF Fill, WriteTracks
    <3> QED BY <1>0, <3>1, <3>2, Failing
  <2> QED BY <1>6, <2>1 DEF Place
<1>12. CASE Mark(c)
  <2>1. g.pc = "mark" /\ h.pc = "next" /\ h.todo = g.todo
    BY <1>0, <1>12, Going DEF Mark
  <2> QED BY <1>6, <2>1 DEF Place
<1> QED BY <1>2, <1>3, <1>4, <1>5, <1>7, <1>8, <1>9, <1>10, <1>11, <1>12 DEF GenStep

\* how many steps a generation of a playlist with so many targets has left at most
Left(g) ==
  IF g.pc = "idle" THEN 0
  ELSE IF g.pc = "generate" THEN 7 * Cardinality(Targets) + 3
  ELSE IF g.pc = "select" THEN 7 * Cardinality(Targets) + 2
  ELSE 7 * Cardinality(g.todo) + Place(g.pc)

\* Every step of a generation uses up some of its steps, and nothing else gives a
\* generation more: no target is pushed to twice and no failure is tried again.
EveryStepCounts ==
  [][\A c \in Callers :
       /\ GenStep(c) => Left(gen[c])' < Left(gen[c])
       /\ Left(gen[c])' > Left(gen[c]) => Begin(c)]_vars

\* The number of steps that are left is one.
LEMMA LeftType ==
  ASSUME IsFiniteSet(Targets), NEW g, g.todo \subseteq Targets
  PROVE  /\ Left(g) \in Nat
         /\ IsFiniteSet(g.todo) /\ Cardinality(g.todo) \in Nat
         /\ Cardinality(Targets) \in Nat /\ Cardinality(g.todo) <= Cardinality(Targets)
         /\ Place(g.pc) \in 0 .. 7
<1>1. IsFiniteSet(g.todo) /\ Cardinality(g.todo) <= Cardinality(Targets)
  BY FS_Subset
<1>2. Cardinality(g.todo) \in Nat /\ Cardinality(Targets) \in Nat
  BY <1>1, FS_CardinalityType
<1>3. Place(g.pc) \in 0 .. 7
  BY DEF Place
<1> QED BY <1>1, <1>2, <1>3 DEF Left

\* A step of a generation uses up at least one.
LEMMA GenStepCounts ==
  ASSUME IInv, TypeOK', IsFiniteSet(Targets), NEW c \in Callers, GenStep(c)
  PROVE  Left(gen'[c]) < Left(gen[c]) /\ \A d \in Callers \ {c} : Left(gen'[d]) = Left(gen[d])
<1> DEFINE g == gen[c]  h == gen'[c]  n == Cardinality(Targets)
<1>1. Advances(g, h) /\ \A d \in Callers \ {c} : gen'[d] = gen[d]
  BY GenerationAdvances
<1> SUFFICES Left(h) < Left(g)
  BY <1>1
<1>2. g.todo \subseteq Targets /\ h.todo \subseteq Targets
  BY DEF IInv, TypeOK, Generation
<1>3. /\ IsFiniteSet(g.todo) /\ Cardinality(g.todo) \in Nat /\ Cardinality(h.todo) \in Nat /\ n \in Nat
      /\ Cardinality(g.todo) <= n /\ Cardinality(h.todo) <= n
      /\ Place(g.pc) \in 0 .. 7 /\ Place(h.pc) \in 0 .. 7
  BY <1>2, LeftType
<1>4. CASE g.pc = "generate" /\ h.pc \in {"idle", "select"}
  BY <1>3, <1>4 DEF Left
<1>5. CASE g.pc = "select" /\ h.pc = "next"
  BY <1>3, <1>5 DEF Left, Place
<1>6. CASE g.pc = "next" /\ h.pc = "idle"
  BY <1>3, <1>6 DEF Left, Place
<1>7. ASSUME g.pc = "next", h.pc \in {"next", "open"}, NEW t \in g.todo, h.todo = g.todo \ {t}
      PROVE  Left(h) < Left(g)
  <2>1. Cardinality(h.todo) = Cardinality(g.todo) - 1
    <3>1. PICK s : s = g.todo OBVIOUS
    <3>2. IsFiniteSet(s) /\ t \in s /\ h.todo = s \ {t}
      BY <1>3, <1>7, <3>1
    <3>3. Cardinality(s \ {t}) = Cardinality(s) - 1
      BY ONLY <3>2, FS_RemoveElement
    <3> QED BY <3>1, <3>2, <3>3
  <2>2. Left(g) = 7 * Cardinality(g.todo) + 1
        /\ Left(h) = 7 * (Cardinality(g.todo) - 1) + Place(h.pc)
    BY <1>7, <2>1 DEF Left, Place
  <2> QED BY <1>3, <2>2
<1>8. CASE /\ Pushing(g) /\ g.pc # "next" /\ Pushing(h)
           /\ h.todo = g.todo /\ Place(h.pc) < Place(g.pc)
  <2>1. Left(g) = 7 * Cardinality(g.todo) + Place(g.pc)
        /\ Left(h) = 7 * Cardinality(g.todo) + Place(h.pc)
    BY <1>8 DEF Left, Pushing
  <2> QED BY <1>3, <1>8, <2>1
<1> QED BY <1>1, <1>4, <1>5, <1>6, <1>7, <1>8 DEF Advances

\* What is no step of a generation leaves it alone, ends it, or begins it.
LEMMA OthersLeave ==
  ASSUME IInv, [Next]_vars, NEW c \in Callers, \A d \in Callers : ~GenStep(d)
  PROVE  gen'[c] = gen[c] \/ gen'[c] = Idle \/ Begin(c)
<1>0. TypeOK
  BY DEF IInv
<1>1. ASSUME NEW d \in Callers, Begin(d) PROVE gen'[c] = gen[c] \/ Begin(c)
  BY <1>0, <1>1 DEF Begin, TypeOK
<1>2. Crash => gen'[c] = Idle
  BY DEF Crash
<1>3. \/ \E t \in Targets : ResetBegin(t) \/ Delete({t})
      \/ Reset \/ Delete(Targets) \/ UNCHANGED vars
      => gen' = gen
  BY DEF ResetBegin, Delete, Reset, vars
<1> QED BY <1>1, <1>2, <1>3 DEF Next

\* A generation of n targets ends after 7 * n + 3 steps at most.
THEOREM StepsRunOut == IsFiniteSet(Targets) => (Spec => EveryStepCounts)
<1> SUFFICES ASSUME IsFiniteSet(Targets) PROVE Spec => EveryStepCounts
  OBVIOUS
<1>1. ASSUME IInv, TypeOK', [Next]_vars, NEW c \in Callers
      PROVE  /\ GenStep(c) => Left(gen'[c]) < Left(gen[c])
             /\ Left(gen'[c]) > Left(gen[c]) => Begin(c)
  <2>1. Left(gen[c]) \in Nat /\ Left(gen'[c]) \in Nat
    <3>1. gen[c].todo \subseteq Targets /\ gen'[c].todo \subseteq Targets
      BY <1>1 DEF IInv, TypeOK, Generation
    <3> QED BY <3>1, LeftType
  <2>2. ASSUME NEW d \in Callers, GenStep(d)
        PROVE  /\ GenStep(c) => Left(gen'[c]) < Left(gen[c])
               /\ ~(Left(gen'[c]) > Left(gen[c]))
    <3>1. CASE d = c
      <4>1. Left(gen'[c]) < Left(gen[c])
        BY <1>1, <2>2, <3>1, GenStepCounts
      <4> QED BY <2>1, <4>1
    <3>2. CASE d # c
      <4>1. Left(gen'[c]) = Left(gen[c])
        BY <1>1, <2>2, <3>2, GenStepCounts
      <4>2. GenStep(c) => Left(gen'[c]) < Left(gen[c])
        BY <1>1, GenStepCounts
      <4> QED BY <2>1, <4>1, <4>2
    <3> QED BY <3>1, <3>2
  <2>3. CASE \A d \in Callers : ~GenStep(d)
    <3>1. Left(Idle) = 0
      BY DEF Left, Idle
    <3> QED BY <1>1, <2>1, <2>3, <3>1, OthersLeave
  <2> QED BY <2>2, <2>3
<1>2. IInv /\ TypeOK' /\ [Next]_vars =>
        [\A c \in Callers : /\ GenStep(c) => Left(gen[c])' < Left(gen[c])
                            /\ Left(gen[c])' > Left(gen[c]) => Begin(c)]_vars
  BY <1>1
<1>3. IInv => TypeOK
  BY DEF IInv
<1> QED BY <1>2, <1>3, Invariance, PTL DEF Spec, EveryStepCounts

\* nothing of a generation is under way
Over(c) == gen[c].pc = "idle"

\* The requests of a generation end: it is over again and again, or its steps are.  Where
\* a generation under way can always take a step, this is the fairness of FairSpec.
Answers(c) == []<>Over(c) \/ []<><<GenStep(c)>>_vars

\* The fairness of FairSpec, with its guard in the place of ENABLED.
LEMMA FairnessInGuards ==
  ASSUME NEW c \in Callers
  PROVE  WF_vars(GenStep(c)) /\ [](~Over(c) => ENABLED <<GenStep(c)>>_vars) => Answers(c)
BY PTL DEF Answers

\* a generation that has the targets S before it, and k steps of one at most
Within(g, S, k) == Pushing(g) /\ g.todo = S /\ Place(g.pc) <= k
At(c, S, k) == Within(gen[c], S, k)
Has(c, S) == Pushing(gen[c]) /\ gen[c].todo = S

\* it is over, or has fewer of these targets before it
Relieved(g, S) == g.pc = "idle" \/ (Pushing(g) /\ g.todo \subseteq S /\ g.todo # S)
AtFewer(c, S) == Relieved(gen[c], S)

\* the steps of a target follow one another, and so do the targets
Descends(c, S, k, j) == At(c, S, k) ~> (At(c, S, j) \/ AtFewer(c, S))
Relieves(c, S) == Has(c, S) ~> AtFewer(c, S)

\* a generation saves its tracks, then selects its targets
Saving(c) == gen[c].pc = "generate"
Selecting(c) == gen[c].pc = "select"
Selected(c) == gen[c].pc = "idle" \/ Pushing(gen[c])
Selects(c) == Saving(c) \/ Selecting(c) ~> Selected(c)

\* What any step does to a generation under way.
LEMMA StepAdvances ==
  ASSUME IInv, [Next]_vars, NEW c \in Callers, gen[c].pc # "idle"
  PROVE  /\ gen'[c] = gen[c] \/ gen'[c] = Idle \/ Advances(gen[c], gen'[c])
         /\ GenStep(c) => Advances(gen[c], gen'[c])
<1>1. ASSUME NEW d \in Callers, GenStep(d), d # c PROVE gen'[c] = gen[c]
  BY <1>1, GenerationAdvances
<1>2. CASE \A d \in Callers : ~GenStep(d)
  BY <1>2, OthersLeave DEF Begin, Busy
<1> QED BY <1>1, <1>2, GenerationAdvances

\* A step of a generation brings the target at work nearer to its end.
LEMMA StepDescends ==
  ASSUME NEW g, NEW h, NEW S, NEW j \in Nat, NEW k \in Nat, k = j + 1,
         Within(g, S, k)
  PROVE  /\ Advances(g, h) => Within(h, S, j) \/ Relieved(h, S)
         /\ h = g \/ h = Idle => Within(h, S, k) \/ Relieved(h, S)
<1>1. Pushing(g) /\ g.todo = S /\ Place(g.pc) <= k
  BY DEF Within
<1>2. Place(g.pc) \in Nat /\ Place(h.pc) \in Nat
  BY DEF Place
<1>3. g.pc \notin {"idle", "generate", "select"}
  BY <1>1 DEF Pushing
<1>4. ASSUME Advances(g, h) PROVE Within(h, S, j) \/ Relieved(h, S)
  <2>1. CASE h.pc = "idle"
    BY <2>1 DEF Relieved
  <2>2. CASE h.pc \in {"next", "open"} /\ \E t \in g.todo : h.todo = g.todo \ {t}
    BY <1>1, <2>2 DEF Relieved, Pushing
  <2>3. CASE Pushing(h) /\ h.todo = g.todo /\ Place(h.pc) < Place(g.pc)
    BY <1>1, <1>2, <2>3 DEF Within
  <2> QED BY <1>3, <1>4, <2>1, <2>2, <2>3 DEF Advances
<1>5. Relieved(Idle, S)
  BY DEF Relieved, Idle
<1> QED BY <1>4, <1>5

\* A generation whose requests end does not stay with a target: whichever targets it has
\* before it, it comes to have fewer of them or is over.  It selects them in the same way.
THEOREM TargetsGiveWay ==
  ASSUME NEW c \in Callers
  PROVE  Spec /\ Answers(c) => Selects(c) /\ \A S \in SUBSET Targets : Relieves(c, S)
<1>1. ASSUME IInv, [Next]_vars, NEW S, NEW j \in Nat, NEW k \in Nat, k = j + 1,
             Within(gen[c], S, k)
      PROVE  /\ Within(gen'[c], S, k) \/ Relieved(gen'[c], S)
             /\ GenStep(c) => Within(gen'[c], S, j) \/ Relieved(gen'[c], S)
  <2>2. gen[c].pc # "idle"
    BY <1>1 DEF Within, Pushing
  <2>3. Within(gen'[c], S, j) => Within(gen'[c], S, k)
    <3>1. Place(gen'[c].pc) \in Nat
      BY DEF Place
    <3> QED BY <1>1, <3>1 DEF Within
  <2> QED BY <1>1, <2>2, <2>3, StepAdvances, StepDescends
<1>2. ASSUME NEW S, NEW j \in Nat, NEW k \in Nat, k = j + 1
      PROVE  Spec /\ Answers(c) => Descends(c, S, k, j)
  <2>1. IInv /\ [Next]_vars /\ At(c, S, k)
          => At(c, S, k)' \/ AtFewer(c, S)'
    BY <1>1, <1>2 DEF At, AtFewer
  <2>2. IInv /\ [Next]_vars /\ <<GenStep(c)>>_vars /\ At(c, S, k)
          => At(c, S, j)' \/ AtFewer(c, S)'
    BY <1>1, <1>2 DEF At, AtFewer
  <2>3. At(c, S, k) => ~Over(c)
    BY DEF At, Over, Within, Pushing
  <2> QED BY <2>1, <2>2, <2>3, Invariance, PTL DEF Spec, Answers, Descends
<1>3. ASSUME NEW S \in SUBSET Targets PROVE Spec /\ Answers(c) => Relieves(c, S)
  <2>1. Spec /\ Answers(c) => Descends(c, S, 7, 6)
    <3>1. 7 \in Nat /\ 6 \in Nat /\ 7 = 6 + 1 OBVIOUS
    <3> QED BY <1>2, <3>1
  <2>2. Spec /\ Answers(c) => Descends(c, S, 6, 5)
    <3>1. 6 \in Nat /\ 5 \in Nat /\ 6 = 5 + 1 OBVIOUS
    <3> QED BY <1>2, <3>1
  <2>3. Spec /\ Answers(c) => Descends(c, S, 5, 4)
    <3>1. 5 \in Nat /\ 4 \in Nat /\ 5 = 4 + 1 OBVIOUS
    <3> QED BY <1>2, <3>1
  <2>4. Spec /\ Answers(c) => Descends(c, S, 4, 3)
    <3>1. 4 \in Nat /\ 3 \in Nat /\ 4 = 3 + 1 OBVIOUS
    <3> QED BY <1>2, <3>1
  <2>5. Spec /\ Answers(c) => Descends(c, S, 3, 2)
    <3>1. 3 \in Nat /\ 2 \in Nat /\ 3 = 2 + 1 OBVIOUS
    <3> QED BY <1>2, <3>1
  <2>6. Spec /\ Answers(c) => Descends(c, S, 2, 1)
    <3>1. 2 \in Nat /\ 1 \in Nat /\ 2 = 1 + 1 OBVIOUS
    <3> QED BY <1>2, <3>1
  <2>7. Spec /\ Answers(c) => Descends(c, S, 1, 0)
    <3>1. 1 \in Nat /\ 0 \in Nat /\ 1 = 0 + 1 OBVIOUS
    <3> QED BY <1>2, <3>1
  <2>8. Has(c, S) => At(c, S, 7)
    <3>1. Place(gen[c].pc) \in 0 .. 7
      BY DEF Place
    <3> QED BY <3>1 DEF Within, Has, At
  <2>9. IInv => ~At(c, S, 0)
    BY DEF At, Within, Pushing, Place, IInv, TypeOK, Generation
  <2> QED BY <2>1, <2>2, <2>3, <2>4, <2>5, <2>6, <2>7, <2>8, <2>9, Invariance, PTL
          DEF Descends, Relieves
<1>4. Spec /\ Answers(c) => Selects(c)
  <2>1. /\ IInv /\ [Next]_vars /\ Saving(c) => (Saving(c) \/ Selecting(c) \/ Selected(c))'
        /\ IInv /\ <<GenStep(c)>>_vars /\ [Next]_vars /\ Saving(c) => (Selecting(c) \/ Selected(c))'
    BY StepAdvances DEF Advances, Pushing, Idle, Saving, Selecting, Selected
  <2>2. /\ IInv /\ [Next]_vars /\ Selecting(c) => (Selecting(c) \/ Selected(c))'
        /\ IInv /\ <<GenStep(c)>>_vars /\ [Next]_vars /\ Selecting(c) => Selected(c)'
    BY StepAdvances DEF Advances, Pushing, Idle, Saving, Selecting, Selected
  <2>3. Saving(c) \/ Selecting(c) => ~Over(c)
    BY DEF Saving, Selecting, Over
  <2> QED BY <2>1, <2>2, <2>3, Invariance, PTL DEF Spec, Answers, Selects
<1> QED BY <1>3, <1>4
=============================================================================
