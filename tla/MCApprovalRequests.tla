------------------------ MODULE MCApprovalRequests ------------------------
(* One album: a recommendation of a run and a temporary row for it. *)
EXTENDS ApprovalRequests, TLC
CONSTANTS r1, t1
AlbumOfAll == [r \in {r1, t1} |-> "album"]
Symmetric == Permutations(Clients) \cup Permutations(Deciders)
=============================================================================
