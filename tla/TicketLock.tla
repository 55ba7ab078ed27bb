---------------------------- MODULE TicketLock ----------------------------
(***************************************************************************)
(* What withApprovalLock and withApprovalLocks promise their callers: a    *)
(* lock per recommendation that is given in the order of asking.  A call   *)
(* draws a ticket at each of its recommendations, does its work once every *)
(* earlier ticket there was handed back, and hands its own back after it   *)
(* (core/targets/lidarr-retry-worker.ts, lines 34 to 54).                  *)
(***************************************************************************)
EXTENDS Naturals

CONSTANTS Recs, Tasks

VARIABLES
  ticket,    \* the number a call drew at each recommendation, 0 for none
  drawn,     \* how many tickets each recommendation gave out
  returned,  \* the recommendations where a call handed its ticket back
  phase      \* whether the work of a call is to come: "before", "inside", "after"

lock == <<ticket, drawn, returned, phase>>

Init ==
  /\ ticket = [t \in Tasks |-> [r \in Recs |-> 0]]
  /\ drawn = [r \in Recs |-> 0]
  /\ returned = [t \in Tasks |-> {}]
  /\ phase = [t \in Tasks |-> "before"]

HasTicket(t, r) == ticket[t][r] > 0

\* every earlier ticket was handed back
Served(t, r) ==
  \A u \in Tasks : (HasTicket(u, r) /\ ticket[u][r] < ticket[t][r]) => r \in returned[u]

Draw(t, r) ==
  /\ phase[t] = "before" /\ ~HasTicket(t, r)
  /\ drawn' = [drawn EXCEPT ![r] = @ + 1]
  /\ ticket' = [ticket EXCEPT ![t][r] = drawn[r] + 1]
  /\ UNCHANGED <<returned, phase>>

Enter(t) ==
  /\ phase[t] = "before"
  /\ \A r \in Recs : HasTicket(t, r) => Served(t, r)
  /\ phase' = [phase EXCEPT ![t] = "inside"]
  /\ UNCHANGED <<ticket, drawn, returned>>

Leave(t) ==
  /\ phase[t] = "inside"
  /\ phase' = [phase EXCEPT ![t] = "after"]
  /\ UNCHANGED <<ticket, drawn, returned>>

Return(t, r) ==
  /\ phase[t] = "after" /\ HasTicket(t, r)
  /\ returned' = [returned EXCEPT ![t] = @ \cup {r}]
  /\ UNCHANGED <<ticket, drawn, phase>>

Next == \E t \in Tasks : Enter(t) \/ Leave(t) \/ \E r \in Recs : Draw(t, r) \/ Return(t, r)

Spec == Init /\ [][Next]_lock
=============================================================================
