---------------------------- MODULE RequestBook ----------------------------
(***************************************************************************)
(* What requesters and administrators may rely on: requests are few, one   *)
(* to a recommendation; whoever decides, an approval is carried out before *)
(* it is recorded, and not again unless its record was lost; a request is  *)
(* declined only if nothing was carried out; a decision stands             *)
(* (db/queries/approval-requests.ts, lines 95 to 246).                    *)
(***************************************************************************)
EXTENDS Naturals, FiniteSets

CONSTANTS Reqs, Recs, NoRec, Limit

VARIABLES
  status,    \* of each request: "none", "pending", "approved", "declined"
  about,     \* the recommendation of a request
  carried    \* requests carried out and not recorded yet

book == <<status, about, carried>>

Init ==
  /\ status = [q \in Reqs |-> "none"]
  /\ about = [q \in Reqs |-> NoRec]
  /\ carried = {}

Pending == {q \in Reqs : status[q] = "pending"}

Request(q, r) ==
  /\ status[q] = "none"
  /\ Cardinality(Pending) < Limit
  /\ \A p \in Pending : about[p] # r
  /\ status' = [status EXCEPT ![q] = "pending"]
  /\ about' = [about EXCEPT ![q] = r]
  /\ UNCHANGED carried

CarryOut(q) ==
  /\ q \in Pending \ carried
  /\ carried' = carried \cup {q}
  /\ UNCHANGED <<status, about>>

Approve(q) ==
  /\ q \in carried
  /\ status' = [status EXCEPT ![q] = "approved"]
  /\ carried' = carried \ {q}
  /\ UNCHANGED about

Decline(q) ==
  /\ q \in Pending \ carried
  /\ status' = [status EXCEPT ![q] = "declined"]
  /\ UNCHANGED <<about, carried>>

\* the record of what was carried out is lost: the write fails, or the process stops
Lose(qs) == carried' = carried \ qs /\ UNCHANGED <<status, about>>

Next ==
  \/ \E q \in Reqs : \/ \E r \in Recs : Request(q, r)
                     \/ CarryOut(q) \/ Approve(q) \/ Decline(q)
  \/ \E qs \in SUBSET Reqs : Lose(qs)

Spec == Init /\ [][Next]_book
=============================================================================
