---------------------------- MODULE MCSlskdJobs ----------------------------
(* Instances of SlskdJobs for TLC: what each recommendation covers. *)
EXTENDS SlskdJobs

CONSTANTS r1, k1, k2

CoversOne == [r \in Recs |-> {k1}]
CoversAll == [r \in Recs |-> Releases]
=============================================================================
