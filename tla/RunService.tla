---------------------------- MODULE RunService ----------------------------
(***************************************************************************)
(* What the orchestrator promises its callers: one run at a time, first    *)
(* come first served, one place per user, and a stop that excludes a later *)
(* completion (core/pipeline/orchestrator.ts, lines 819 to 869).           *)
(***************************************************************************)
EXTENDS Naturals

CONSTANTS
  Users, Admins, NoUser,
  Places    \* the places in the queue: numbers

VARIABLES
  holder,   \* the user whose run is active
  phase,    \* how far that run is: idle, working, stopping, committed
  waiting   \* who waits: each user with the number of the place

service == <<holder, phase, waiting>>

Init == holder = NoUser /\ phase = "idle" /\ waiting = {}

\* a submission starts, or takes a place behind all others unless the user has one
Submit(u) ==
  \/ /\ phase = "idle"
     /\ holder' = u /\ phase' = "working"
     /\ UNCHANGED waiting
  \/ /\ phase # "idle" /\ holder # u /\ \A w \in waiting : w.user # u
     /\ \E p \in Places :
          /\ \A w \in waiting : w.place < p
          /\ waiting' = waiting \cup {[place |-> p, user |-> u]}
     /\ UNCHANGED <<holder, phase>>

\* a user gives up the place in the queue; the holder or an admin may also stop
\* the active run while it works
Cancel(u) ==
  /\ waiting' = {w \in waiting : w.user # u}
  /\ phase' = IF phase = "working" /\ (holder = u \/ u \in Admins)
              THEN "stopping" ELSE phase
  /\ UNCHANGED holder

\* from here on the run may complete and cannot be stopped
Commit == phase = "working" /\ phase' = "committed" /\ UNCHANGED <<holder, waiting>>

\* the active run ends and the one that waits longest starts
Leave ==
  /\ phase # "idle"
  /\ \/ /\ waiting = {}
        /\ holder' = NoUser /\ phase' = "idle" /\ UNCHANGED waiting
     \/ \E w \in waiting :
          /\ \A v \in waiting : w.place <= v.place
          /\ holder' = w.user /\ phase' = "working" /\ waiting' = waiting \ {w}

\* nothing survives the process
Restart == holder' = NoUser /\ phase' = "idle" /\ waiting' = {}

Next == (\E u \in Users : Submit(u) \/ Cancel(u)) \/ Commit \/ Leave \/ Restart

Spec == Init /\ [][Next]_service

\* the active run always ends, so the queue moves
FairSpec == Spec /\ WF_service(Leave)
=============================================================================
