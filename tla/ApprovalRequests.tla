------------------------- MODULE ApprovalRequests -------------------------
(***************************************************************************)
(* Requests of an account that may not approve on its own, and their       *)
(* decision by an administrator (db/queries/approval-requests.ts and the   *)
(* routes approval-requests.ts and recommendations.ts).                    *)
(*                                                                         *)
(* A client is one call of the requester, a decider one call of an         *)
(* administrator.  A transaction is one step, but for the one that creates *)
(* a request: it reads under the lock of the user row in one step and      *)
(* inserts in another.  The approval itself runs between the read and the  *)
(* write of a decision, in no transaction; what it does to the targets is  *)
(* the module Approvals, here it is its outcome.                           *)
(***************************************************************************)
EXTENDS Naturals, FiniteSets, Sequences

CONSTANTS
  Found,        \* recommendations a pipeline run or a search left
  Temps,        \* ids of the rows a missing-album request makes
  AlbumOf,      \* the album of a recommendation
  NoAlbum,      \* AlbumOf of an artist recommendation
  Clients, Deciders,
  Nobody,       \* neither a client nor a recommendation
  Limit,        \* maxOpenRequests
  MaxReqs,      \* bound: requests
  MaxEdits,     \* bound: status edits by the owner
  MaxFaults     \* bound: crashes, failed writes, lost replies

ASSUME RequestAssumption ==
  /\ Found \cap Temps = {}
  /\ Nobody \notin Clients \cup Found \cup Temps
  /\ DOMAIN AlbumOf = Found \cup Temps
  /\ Limit \in Nat /\ MaxReqs \in Nat /\ MaxEdits \in Nat /\ MaxFaults \in Nat

Recs == Found \cup Temps
Reqs == 1 .. MaxReqs

VARIABLES
  rec,          \* status of each recommendation ("acted": what an approval writes,
                \* add_failed included), "absent" or "deleted"
  status,       \* status of each request, "none" before it exists
  about,        \* the recommendation of a request (null once that is deleted)
  cooled,       \* declined requests whose 24 hours are over
  client, item, forAlbum,     \* what a call of the requester awaits, on which row,
                              \* and the calls of the missing-albums route
  userLock,     \* the client that holds the lock of the user row
  decider, target, verdict,   \* what a decision awaits, on which request
  chain,        \* decisionLocks: the calls chained for each request
  executed,     \* how often the approval of a request succeeded
  faulty,       \* requests whose approval succeeded and was not recorded
  stranded,     \* temporary rows whose call could not clean up
  edited,       \* recommendations whose status the owner set
  late,         \* requests declined while a create is past its check
  faults

rows    == <<rec, status, about, cooled>>
calls   == <<client, item, forAlbum, userLock>>
admin   == <<decider, target, verdict, chain>>
history == <<executed, faulty, stranded, edited, late, faults>>
vars    == <<rows, calls, admin, history>>

Exists(r) == rec[r] \notin {"absent", "deleted"}

\* the pending requests, and those for one recommendation
Pending == {q \in Reqs : status[q] = "pending"}
Open(r) == {q \in Pending : about[q] = r}

\* a temporary row saves the album with its request, which outlives the row
Same(q, r) ==
  \/ about[q] = r
  \/ about[q] \in Temps /\ AlbumOf[r] # NoAlbum /\ AlbumOf[about[q]] = AlbumOf[r]

\* mutant: the album saved with a declined request is not compared
CoolingRow(r) == {q \in Reqs \ cooled : status[q] = "declined" /\ about[q] = r}

Cooling(r) == {q \in Reqs \ cooled : status[q] = "declined" /\ Same(q, r)}

TypeOK ==
  /\ rec \in [Recs -> {"absent", "pending", "acted", "rejected", "deleted"}]
  /\ status \in [Reqs -> {"none", "pending", "approved", "declined"}]
  /\ about \in [Reqs -> Recs \cup {Nobody}]
  /\ cooled \subseteq Reqs
  /\ client \in [Clients -> {"idle", "create", "insert", "cleanup"}]
  /\ item \in [Clients -> Recs \cup {Nobody}]
  /\ forAlbum \subseteq Clients
  /\ userLock \in Clients \cup {Nobody}
  /\ decider \in [Deciders -> {"idle", "waiting", "executing", "saving"}]
  /\ target \in [Deciders -> Reqs \cup {0}]
  /\ verdict \in [Deciders -> {"approved", "declined"}]
  /\ chain \in [Reqs -> Seq(Deciders)]
  /\ executed \in [Reqs -> Nat]
  /\ faulty \subseteq Reqs /\ late \subseteq Reqs
  /\ stranded \subseteq Recs /\ edited \subseteq Recs
  /\ faults \in 0 .. MaxFaults

Init ==
  /\ \E s \in {"pending", "acted", "rejected"} :
       rec = [r \in Recs |-> IF r \in Found THEN s ELSE "absent"]
  /\ status = [q \in Reqs |-> "none"]
  /\ about = [q \in Reqs |-> Nobody]
  /\ cooled = {}
  /\ client = [c \in Clients |-> "idle"]
  /\ item = [c \in Clients |-> Nobody]
  /\ forAlbum = {}
  /\ userLock = Nobody
  /\ decider = [d \in Deciders |-> "idle"]
  /\ target = [d \in Deciders |-> 0]
  /\ verdict = [d \in Deciders |-> "approved"]
  /\ chain = [q \in Reqs |-> <<>>]
  /\ executed = [q \in Reqs |-> 0]
  /\ faulty = {} /\ stranded = {} /\ edited = {} /\ late = {}
  /\ faults = 0

Fault == faults < MaxFaults /\ faults' = faults + 1

-----------------------------------------------------------------------------
(* The requester. *)

\* PATCH or bulk approval of a recommendation the policy does not permit
Ask(c, r) ==
  /\ client[c] = "idle" /\ Exists(r)
  /\ client' = [client EXCEPT ![c] = "create"]
  /\ item' = [item EXCEPT ![c] = r]
  /\ forAlbum' = forAlbum \ {c}
  /\ UNCHANGED <<rows, userLock, admin, history>>

\* the missing-albums route: ensureAlbumRecommendation takes the pending row of
\* the album or makes a temporary one
EnsureAlbum(c, r) ==
  /\ client[c] = "idle" /\ userLock = Nobody
  /\ AlbumOf[r] # NoAlbum
  /\ \/ rec[r] = "pending" /\ UNCHANGED rec
     \/ /\ r \in Temps /\ rec[r] = "absent"
        /\ \A s \in Recs : AlbumOf[s] = AlbumOf[r] => rec[s] # "pending"
        /\ rec' = [rec EXCEPT ![r] = "pending"]
  /\ client' = [client EXCEPT ![c] = "create"]
  /\ item' = [item EXCEPT ![c] = r]
  /\ forAlbum' = forAlbum \cup {c}
  /\ UNCHANGED <<status, about, cooled, userLock, admin, history>>

Answer(c) ==
  /\ client' = [client EXCEPT ![c] = "idle"]
  /\ item' = [item EXCEPT ![c] = Nobody]
  /\ forAlbum' = forAlbum \ {c}

\* mutant: the error is answered and nothing cleaned up
RefuseOnly(c) == Answer(c)

\* an error of create: the missing-albums route cleans up before it answers
Refuse(c) ==
  IF c \in forAlbum
  THEN client' = [client EXCEPT ![c] = "cleanup"] /\ UNCHANGED <<item, forAlbum>>
  ELSE Answer(c)

\* mutant: the limit is not reached by as many requests as it allows
Above(n) == n > Limit

AtLimit(n) == n >= Limit

\* create takes the row of the user and reads.  The reads are one step: under that lock nobody
\* inserts, and a request declined between two of them is one declined after the look (late).
CheckRequest(c) ==
  LET r == item[c] IN
  /\ client[c] = "create" /\ userLock = Nobody
  /\ \/ /\ ~Exists(r)                                       \* not found
        /\ Refuse(c) /\ UNCHANGED <<userLock, late>>
     \/ /\ Exists(r) /\ Open(r) # {}                        \* the existing request
        /\ Answer(c) /\ UNCHANGED <<userLock, late>>
     \/ /\ Exists(r) /\ Open(r) = {} /\ Cooling(r) # {}     \* cooldown
        /\ Refuse(c) /\ UNCHANGED <<userLock, late>>
     \/ /\ Exists(r) /\ Open(r) = {} /\ Cooling(r) = {} /\ AtLimit(Cardinality(Pending))
        /\ Refuse(c) /\ UNCHANGED <<userLock, late>>
     \/ /\ Exists(r) /\ Open(r) = {} /\ Cooling(r) = {} /\ ~AtLimit(Cardinality(Pending))
        /\ \E q \in Reqs : status[q] = "none"
        /\ client' = [client EXCEPT ![c] = "insert"]
        /\ userLock' = c /\ UNCHANGED <<item, forAlbum, late>>
  /\ UNCHANGED <<rows, admin, executed, faulty, stranded, edited, faults>>

\* the row is inserted and the transaction ends; a lost reply looks like an error
InsertRequest(c) ==
  /\ client[c] = "insert"
  /\ \E q \in Reqs :
       /\ status[q] = "none" /\ \A p \in Reqs : p < q => status[p] # "none"
       /\ status' = [status EXCEPT ![q] = "pending"]
       /\ about' = [about EXCEPT ![q] = item[c]]
  /\ userLock' = Nobody /\ late' = {}
  /\ \/ Answer(c) /\ UNCHANGED faults
     \/ Refuse(c) /\ Fault
  /\ UNCHANGED <<rec, cooled, admin, executed, faulty, stranded, edited>>

\* any statement of create can fail, which rolls it back
CreateFails(c) ==
  /\ client[c] \in {"create", "insert"}
  /\ Refuse(c) /\ Fault
  /\ \/ userLock = c /\ userLock' = Nobody /\ late' = {}
     \/ userLock # c /\ UNCHANGED <<userLock, late>>
  /\ UNCHANGED <<rows, admin, executed, faulty, stranded, edited>>

\* mutant: a row is deleted though a request is open for it
DropAlways(r, open) == [rec EXCEPT ![r] = IF r \in Temps THEN "deleted" ELSE @]

\* cleanupSynthetic: only a temporary row goes, and only when nothing is open for it
Drop(r, open) ==
  [rec EXCEPT ![r] = IF r \in Temps /\ Exists(r) /\ open = {} THEN "deleted" ELSE @]

CleanupAlbum(c) ==
  /\ client[c] = "cleanup"
  /\ \/ userLock = Nobody /\ rec' = Drop(item[c], Open(item[c])) /\ UNCHANGED <<stranded, faults>>
     \/ Fault /\ stranded' = stranded \cup {item[c]} /\ UNCHANGED rec
  /\ Answer(c)
  /\ UNCHANGED <<status, about, cooled, userLock, admin, executed, faulty, edited, late>>

\* PATCH with "rejected" or "pending"
SetStatus(r, s) ==
  /\ Exists(r) /\ rec[r] # s
  /\ Cardinality(edited) < MaxEdits /\ edited' = edited \cup {r}
  /\ rec' = [rec EXCEPT ![r] = s]
  /\ UNCHANGED <<status, about, cooled, calls, admin, executed, faulty, stranded, late, faults>>

CoolOff(q) ==
  /\ status[q] = "declined" /\ q \notin cooled
  /\ cooled' = cooled \cup {q}
  /\ UNCHANGED <<rec, status, about, calls, admin, history>>

-----------------------------------------------------------------------------
(* The administrator. *)

\* a call chains itself to the last promise for the request
Decide(d, q, v) ==
  /\ decider[d] = "idle" /\ status[q] # "none"
  /\ decider' = [decider EXCEPT ![d] = "waiting"]
  /\ target' = [target EXCEPT ![d] = q]
  /\ verdict' = [verdict EXCEPT ![d] = v]
  /\ chain' = [chain EXCEPT ![q] = Append(@, d)]
  /\ UNCHANGED <<rows, calls, history>>

\* the finally block of withDecisionLock
Leave(d) ==
  /\ decider' = [decider EXCEPT ![d] = "idle"]
  /\ target' = [target EXCEPT ![d] = 0]
  /\ verdict' = [verdict EXCEPT ![d] = "approved"]
  /\ chain' = [chain EXCEPT ![target[d]] = Tail(@)]

\* mutant: work does not wait for the call before it
Unordered(d) == \E i \in DOMAIN chain[target[d]] : chain[target[d]][i] = d

First(d) == chain[target[d]] # <<>> /\ Head(chain[target[d]]) = d

ReadRequest(d) ==
  /\ decider[d] = "waiting" /\ First(d)
  /\ \/ status[target[d]] # "pending" /\ Leave(d)
     \/ /\ status[target[d]] = "pending"
        /\ decider' = [decider EXCEPT ![d] = IF verdict[d] = "approved" THEN "executing" ELSE "saving"]
        /\ UNCHANGED <<target, verdict, chain>>
  /\ UNCHANGED <<rows, calls, history>>

\* executeRequestedApproval: added, approved or waiting; add_failed, which leaves the
\* request open with its error; or a refusal (the row is deleted, rejected or blocked by
\* now) or an exception, which leave everything
Execute(d) ==
  LET r == about[target[d]] IN
  /\ decider[d] = "executing"
  /\ \/ /\ rec[r] \notin {"deleted", "rejected"}
        /\ rec' = [rec EXCEPT ![r] = "acted"]
        /\ \/ /\ executed' = [executed EXCEPT ![target[d]] = @ + 1]
              /\ decider' = [decider EXCEPT ![d] = "saving"]
              /\ UNCHANGED <<target, verdict, chain>>
           \/ Leave(d) /\ UNCHANGED executed
     \/ Leave(d) /\ UNCHANGED <<rec, executed>>
  /\ UNCHANGED <<status, about, cooled, calls, faulty, stranded, edited, late, faults>>

\* the last transaction: the decision, and the temporary row of a declined request
SaveDecision(d) ==
  LET q == target[d]  r == about[q] IN
  /\ decider[d] = "saving" /\ status[q] = "pending"
  /\ status' = [status EXCEPT ![q] = verdict[d]]
  /\ rec' = IF verdict[d] = "declined" THEN Drop(r, Open(r) \ {q}) ELSE rec
  /\ late' = IF verdict[d] = "declined" /\ userLock # Nobody THEN late \cup {q} ELSE late
  /\ Leave(d)
  /\ UNCHANGED <<about, cooled, calls, executed, faulty, stranded, edited, faults>>

SaveFails(d) ==
  /\ decider[d] = "saving" /\ Fault
  /\ faulty' = IF verdict[d] = "approved" THEN faulty \cup {target[d]} ELSE faulty
  /\ Leave(d)
  /\ UNCHANGED <<rows, calls, executed, stranded, edited, late>>

\* the process stops: transactions under way are rolled back, the locks are gone
Crash ==
  /\ Fault
  /\ client' = [c \in Clients |-> "idle"] /\ item' = [c \in Clients |-> Nobody]
  /\ forAlbum' = {} /\ userLock' = Nobody /\ late' = {}
  /\ decider' = [d \in Deciders |-> "idle"] /\ target' = [d \in Deciders |-> 0]
  /\ verdict' = [d \in Deciders |-> "approved"] /\ chain' = [q \in Reqs |-> <<>>]
  /\ faulty' = faulty \cup {target[d] : d \in {e \in Deciders :
                              decider[e] = "saving" /\ verdict[e] = "approved"}}
  /\ stranded' = stranded \cup {item[c] : c \in forAlbum}
  /\ UNCHANGED <<rows, executed, edited>>

Next ==
  \/ \E c \in Clients, r \in Recs : Ask(c, r) \/ EnsureAlbum(c, r)
  \/ \E c \in Clients : \/ CheckRequest(c) \/ InsertRequest(c)
                        \/ CreateFails(c) \/ CleanupAlbum(c)
  \/ \E r \in Recs, s \in {"rejected", "pending"} : SetStatus(r, s)
  \/ \E q \in Reqs : CoolOff(q)
  \/ \E d \in Deciders, q \in Reqs, v \in {"approved", "declined"} : Decide(d, q, v)
  \/ \E d \in Deciders : ReadRequest(d) \/ Execute(d) \/ SaveDecision(d) \/ SaveFails(d)
  \/ Crash

Spec == Init /\ [][Next]_vars

-----------------------------------------------------------------------------
(* Properties *)

\* A request that waits for a decision still has its recommendation: neither the
\* clean-up of a failed call nor that of a declined request takes it away
\* (cleanupSynthetic), or nobody could approve it any more.
PendingHasRow == \A q \in Pending : Exists(about[q])

\* However the calls of the requester interleave, the open requests stay within
\* maxOpenRequests and a recommendation has at most one (create).
RequestLimit ==
  /\ Cardinality(Pending) <= Limit
  /\ \A p, q \in Pending : about[p] = about[q] => p = q

\* No temporary row is left behind: a pending one has an open request or a call that
\* is still working on it, unless that call was cut off or the owner set its status
\* (ensureAlbumRecommendation, cleanupAlbumRecommendation, decide).
NoOrphan ==
  \A r \in Temps : rec[r] = "pending" =>
    \/ Open(r) # {}
    \/ \E c \in forAlbum : item[c] = r
    \/ r \in stranded \cup edited

\* The recorded decision is what happened: as long as no successful approval got lost
\* before it was recorded, a request was executed once if it is approved or about to
\* be, and never if it is declined or open, whatever two administrators do at once.
DecisionMatches ==
  \A q \in Reqs \ faulty :
    executed[q] = IF \/ status[q] = "approved"
                     \/ \E d \in Deciders : /\ target[d] = q /\ decider[d] = "saving"
                                            /\ verdict[d] = "approved"
                  THEN 1 ELSE 0

\* A decline keeps the recommendation and the missing album from being requested again
\* for 24 hours, though the temporary row and its id are gone; only a request that was
\* past its check when the decline came is still made.
CooldownHonoured ==
  [][\A q \in Reqs : status[q] = "none" /\ status'[q] = "pending" =>
        \A p \in Reqs : status[p] = "declined" /\ Same(p, about'[q]) =>
            p \in cooled \cup late]_vars

-----------------------------------------------------------------------------
(* What requesters and administrators may rely on. *)

\* the requests carried out by a decision that is about to be recorded
Carried ==
  {q \in Reqs : \E d \in Deciders : /\ target[d] = q /\ decider[d] = "saving"
                                    /\ verdict[d] = "approved"}

Book == INSTANCE RequestBook WITH carried <- Carried, NoRec <- Nobody

\* create and decide implement the book of requests: however the calls of requesters and
\* administrators interleave and whatever fails, there are never too many requests or two
\* for one recommendation, nobody carries out what was carried out unless the record got
\* lost, nobody declines it, and no decision is taken back.
ImplementsRequestBook == Book!Spec
=============================================================================
