---------------------- MODULE ApprovalRequestsProofs ----------------------
(***************************************************************************)
(* What holds of the requests for any recommendations, callers and number  *)
(* of failures: types, that a request keeps its recommendation, the limit, *)
(* that no temporary row is left behind, that the recorded decision is     *)
(* what happened, and the cooldown.                                        *)
(***************************************************************************)
EXTENDS ApprovalRequests, FiniteSetTheorems, TLAPS

-----------------------------------------------------------------------------
(* The inductive invariant. *)

\* Who inserts is who holds the lock of the user row.
Locked == \A c \in Clients : ((client[c] = "insert") <=> (userLock = c))

\* A call that awaits something is about a recommendation.
Awaited ==
  /\ \A c \in Clients : client[c] # "idle" => item[c] \in Recs
  /\ \A c \in forAlbum : client[c] # "idle"
  /\ \A c \in Clients : client[c] = "cleanup" => c \in forAlbum

\* What create found under the lock still holds when it inserts.
Ready ==
  \A c \in Clients : client[c] = "insert" =>
    /\ Exists(item[c]) /\ Open(item[c]) = {} /\ Cardinality(Pending) < Limit
    /\ \A p \in Reqs : status[p] = "declined" /\ Same(p, item[c]) => p \in cooled \cup late

Active(d) == decider[d] \in {"executing", "saving"}

\* Who executes or saves a decision is first for its request, which is open.
Deciding ==
  \A d \in Deciders :
    /\ decider[d] # "idle" => target[d] \in Reqs
    /\ Active(d) => First(d) /\ status[target[d]] = "pending"
    /\ decider[d] = "executing" => verdict[d] = "approved"

\* A request that was made is about a recommendation.
Made == \A q \in Reqs : status[q] # "none" => about[q] \in Recs

\* An approval about to be recorded has changed the row, or the owner did since.
Acted ==
  \A d \in Deciders : decider[d] = "saving" /\ verdict[d] = "approved" =>
    rec[about[target[d]]] # "pending" \/ about[target[d]] \in edited

IInv ==
  /\ TypeOK /\ Locked /\ Awaited /\ Ready /\ Deciding /\ Made /\ Acted
  /\ PendingHasRow /\ RequestLimit /\ NoOrphan /\ DecisionMatches

-----------------------------------------------------------------------------
(* Facts about the operators. *)

\* Two deciders that are first for the same request are one.
LEMMA FirstIsOne ==
  ASSUME NEW d \in Deciders, NEW e \in Deciders, First(d), First(e), target[d] = target[e]
  PROVE  d = e
BY DEF First

\* The pending requests are finitely many.
LEMMA PendingFinite ==
  ASSUME TypeOK
  PROVE  IsFiniteSet(Pending) /\ Cardinality(Pending) \in Nat
<1>1. IsFiniteSet(Reqs)
  BY FS_Interval, RequestAssumption DEF Reqs
<1>2. Pending \in SUBSET Reqs
  BY DEF Pending
<1> QED BY <1>1, <1>2, FS_Subset, FS_CardinalityType

\* What Drop does to a row: it deletes it, or nothing.
LEMMA DropType ==
  ASSUME TypeOK, NEW r \in Recs, NEW open
  PROVE  /\ Drop(r, open) \in [Recs -> {"absent", "pending", "acted", "rejected", "deleted"}]
         /\ \A s \in Recs : s # r \/ open # {} \/ ~Exists(r) \/ r \notin Temps =>
              Drop(r, open)[s] = rec[s]
         /\ r \in Temps /\ Exists(r) /\ open = {} => Drop(r, open)[r] = "deleted"
BY DEF Drop, TypeOK

\* The fault bound is kept.
LEMMA FaultType ==
  ASSUME TypeOK, Fault
  PROVE  faults' \in 0 .. MaxFaults
BY RequestAssumption DEF TypeOK, Fault

-----------------------------------------------------------------------------
(* Every step preserves the invariant. *)

\* The initial state satisfies the invariant.
LEMMA InitInv == Init => IInv
<1> SUFFICES ASSUME Init PROVE IInv
  OBVIOUS
<1>0. \A r \in Found : r \in Recs
  BY DEF Recs
<1>1. TypeOK
  BY RequestAssumption DEF Init, TypeOK, Recs, Reqs
<1>2. Locked /\ Awaited /\ Ready
  BY RequestAssumption DEF Init, Locked, Awaited, Ready, Recs
<1>3. Deciding /\ Made /\ Acted
  BY DEF Init, Deciding, Made, Acted, Active
<1>4. Pending = {}
  BY DEF Init, Pending
<1>5. PendingHasRow /\ RequestLimit
  BY <1>4, FS_EmptySet, RequestAssumption DEF PendingHasRow, RequestLimit
<1>6. NoOrphan
  BY RequestAssumption DEF Init, NoOrphan, Recs
<1>7. DecisionMatches
  BY DEF Init, DecisionMatches
<1> QED BY <1>1, <1>2, <1>3, <1>5, <1>6, <1>7 DEF IInv

\* An answer and a refusal keep the types of the calls.
LEMMA AnswerType ==
  ASSUME TypeOK, NEW c \in Clients, Answer(c) \/ Refuse(c)
  PROVE  /\ client' \in [Clients -> {"idle", "create", "insert", "cleanup"}]
         /\ item' \in [Clients -> Recs \cup {Nobody}] /\ forAlbum' \subseteq Clients
<1>1. CASE Answer(c)
  BY <1>1 DEF Answer, TypeOK
<1>2. CASE Refuse(c)
  BY <1>2 DEF Refuse, Answer, TypeOK
<1> QED BY <1>1, <1>2

\* Types: the steps of the requester.
LEMMA ClientTypes ==
  ASSUME IInv, NEW c \in Clients, NEW r \in Recs,
         \/ Ask(c, r) \/ EnsureAlbum(c, r) \/ CheckRequest(c) \/ InsertRequest(c)
         \/ CreateFails(c) \/ CleanupAlbum(c)
  PROVE  TypeOK'
<1> USE DEF IInv
<1>1. CASE Ask(c, r)
  BY <1>1 DEF Ask, TypeOK, rows, admin, history
<1>2. CASE EnsureAlbum(c, r)
  BY <1>2 DEF EnsureAlbum, TypeOK, admin, history
<1>3. CASE CheckRequest(c)
  BY <1>3 DEF CheckRequest, Refuse, Answer, TypeOK, rows, admin
<1>4. CASE InsertRequest(c)
  <2>1. item[c] \in Recs
    BY <1>4 DEF InsertRequest, Awaited
  <2>2. faults' \in 0 .. MaxFaults
    BY <1>4, FaultType DEF InsertRequest, TypeOK
  <2>3. /\ status' \in [Reqs -> {"none", "pending", "approved", "declined"}]
        /\ about' \in [Reqs -> Recs \cup {Nobody}]
    BY <1>4, <2>1 DEF InsertRequest, TypeOK
  <2>4. /\ client' \in [Clients -> {"idle", "create", "insert", "cleanup"}]
        /\ item' \in [Clients -> Recs \cup {Nobody}] /\ forAlbum' \subseteq Clients
    BY <1>4, AnswerType DEF InsertRequest, TypeOK
  <2> QED BY <1>4, <2>2, <2>3, <2>4 DEF InsertRequest, TypeOK, admin
<1>5. CASE CreateFails(c)
  <2>1. faults' \in 0 .. MaxFaults
    BY <1>5, FaultType DEF CreateFails
  <2> QED BY <1>5, <2>1 DEF CreateFails, Refuse, Answer, TypeOK, rows, admin
<1>6. CASE CleanupAlbum(c)
  <2>1. item[c] \in Recs
    BY <1>6 DEF CleanupAlbum, Awaited
  <2>2. faults' \in 0 .. MaxFaults
    BY <1>6, FaultType DEF CleanupAlbum, TypeOK
  <2>3. rec' \in [Recs -> {"absent", "pending", "acted", "rejected", "deleted"}]
    BY <1>6, <2>1, DropType DEF CleanupAlbum, TypeOK
  <2> QED BY <1>6, <2>1, <2>2, <2>3 DEF CleanupAlbum, Answer, TypeOK, admin
<1> QED BY <1>1, <1>2, <1>3, <1>4, <1>5, <1>6

\* What leaving the chain does to the state of the deciders.
LEMMA LeaveType ==
  ASSUME TypeOK, NEW d \in Deciders, First(d), target[d] \in Reqs, Leave(d)
  PROVE  /\ decider' \in [Deciders -> {"idle", "waiting", "executing", "saving"}]
         /\ target' \in [Deciders -> Reqs \cup {0}]
         /\ verdict' \in [Deciders -> {"approved", "declined"}]
         /\ chain' \in [Reqs -> Seq(Deciders)]
<1>1. Tail(chain[target[d]]) \in Seq(Deciders)
  BY DEF First, TypeOK
<1> QED BY <1>1 DEF Leave, TypeOK

\* Types: the steps of the administrator.
LEMMA DeciderTypes ==
  ASSUME IInv, NEW d \in Deciders, NEW q \in Reqs, NEW v \in {"approved", "declined"},
         \/ Decide(d, q, v) \/ ReadRequest(d) \/ Execute(d) \/ SaveDecision(d) \/ SaveFails(d)
  PROVE  TypeOK'
<1> USE DEF IInv
<1>0. Active(d) => First(d) /\ target[d] \in Reqs /\ about[target[d]] \in Recs
  BY DEF Deciding, Made, Active, TypeOK
<1>1. CASE Decide(d, q, v)
  <2>1. Append(chain[q], d) \in Seq(Deciders)
    BY DEF TypeOK
  <2> QED BY <1>1, <2>1 DEF Decide, TypeOK, rows, calls, history
<1>2. CASE ReadRequest(d)
  <2>1. target[d] \in Reqs /\ First(d)
    BY <1>2 DEF ReadRequest, Deciding
  <2>2. /\ decider' \in [Deciders -> {"idle", "waiting", "executing", "saving"}]
        /\ target' \in [Deciders -> Reqs \cup {0}]
        /\ verdict' \in [Deciders -> {"approved", "declined"}]
        /\ chain' \in [Reqs -> Seq(Deciders)]
    BY <1>2, <2>1, LeaveType DEF ReadRequest, TypeOK
  <2> QED BY <1>2, <2>2 DEF ReadRequest, TypeOK, rows, calls, history
<1>3. CASE Execute(d)
  <2>1. First(d) /\ target[d] \in Reqs /\ about[target[d]] \in Recs
    BY <1>0, <1>3 DEF Execute, Active
  <2>2. /\ decider' \in [Deciders -> {"idle", "waiting", "executing", "saving"}]
        /\ target' \in [Deciders -> Reqs \cup {0}]
        /\ verdict' \in [Deciders -> {"approved", "declined"}]
        /\ chain' \in [Reqs -> Seq(Deciders)]
    BY <1>3, <2>1, LeaveType DEF Execute, TypeOK
  <2>3. /\ rec' \in [Recs -> {"absent", "pending", "acted", "rejected", "deleted"}]
        /\ executed' \in [Reqs -> Nat]
    <3>1. rec' = rec \/ rec' = [rec EXCEPT ![about[target[d]]] = "acted"]
      BY <1>3 DEF Execute
    <3>2. executed' = executed \/ executed' = [executed EXCEPT ![target[d]] = @ + 1]
      BY <1>3 DEF Execute
    <3>3. rec' \in [Recs -> {"absent", "pending", "acted", "rejected", "deleted"}]
      BY <2>1, <3>1 DEF TypeOK
    <3>4. executed[target[d]] + 1 \in Nat
      BY <2>1 DEF TypeOK
    <3>5. executed' \in [Reqs -> Nat]
      BY <2>1, <3>2, <3>4 DEF TypeOK
    <3> QED BY <3>3, <3>5
  <2> QED BY <1>3, <2>2, <2>3 DEF Execute, TypeOK, calls
<1>4. CASE SaveDecision(d)
  <2>1. First(d) /\ target[d] \in Reqs /\ about[target[d]] \in Recs
    BY <1>0, <1>4 DEF SaveDecision, Active
  <2>2. /\ decider' \in [Deciders -> {"idle", "waiting", "executing", "saving"}]
        /\ target' \in [Deciders -> Reqs \cup {0}]
        /\ verdict' \in [Deciders -> {"approved", "declined"}]
        /\ chain' \in [Reqs -> Seq(Deciders)]
    BY <1>4, <2>1, LeaveType DEF SaveDecision
  <2>3. rec' \in [Recs -> {"absent", "pending", "acted", "rejected", "deleted"}]
    BY <1>4, <2>1, DropType DEF SaveDecision, TypeOK
  <2>4. status' \in [Reqs -> {"none", "pending", "approved", "declined"}] /\ late' \subseteq Reqs
    BY <1>4, <2>1 DEF SaveDecision, TypeOK
  <2> QED BY <1>4, <2>2, <2>3, <2>4 DEF SaveDecision, TypeOK, calls
<1>5. CASE SaveFails(d)
  <2>1. First(d) /\ target[d] \in Reqs
    BY <1>0, <1>5 DEF SaveFails, Active
  <2>2. /\ decider' \in [Deciders -> {"idle", "waiting", "executing", "saving"}]
        /\ target' \in [Deciders -> Reqs \cup {0}]
        /\ verdict' \in [Deciders -> {"approved", "declined"}]
        /\ chain' \in [Reqs -> Seq(Deciders)]
    BY <1>5, <2>1, LeaveType DEF SaveFails
  <2>3. faults' \in 0 .. MaxFaults /\ faulty' \subseteq Reqs
    BY <1>5, <2>1, FaultType DEF SaveFails, TypeOK
  <2> QED BY <1>5, <2>2, <2>3 DEF SaveFails, TypeOK, rows, calls
<1> QED BY <1>1, <1>2, <1>3, <1>4, <1>5

\* Every step keeps the types.
LEMMA TypeStep == IInv /\ [Next]_vars => TypeOK'
<1> SUFFICES ASSUME IInv, [Next]_vars PROVE TypeOK'
  OBVIOUS
<1>1. ASSUME NEW c \in Clients, NEW r \in Recs, Ask(c, r) \/ EnsureAlbum(c, r)
      PROVE  TypeOK'
  BY <1>1, ClientTypes
<1>2. ASSUME NEW c \in Clients,
             CheckRequest(c) \/ InsertRequest(c) \/ CreateFails(c) \/ CleanupAlbum(c)
      PROVE  TypeOK'
  <2>1. client[c] # "idle"
    BY <1>2 DEF CheckRequest, InsertRequest, CreateFails, CleanupAlbum
  <2>2. item[c] \in Recs
    BY <2>1 DEF IInv, Awaited
  <2> QED BY <1>2, <2>2, ClientTypes
<1>3. ASSUME NEW r \in Recs, NEW s \in {"rejected", "pending"}, SetStatus(r, s)
      PROVE  TypeOK'
  BY <1>3 DEF IInv, SetStatus, TypeOK, calls, admin
<1>4. ASSUME NEW q \in Reqs, CoolOff(q) PROVE TypeOK'
  BY <1>4 DEF IInv, CoolOff, TypeOK, calls, admin, history
<1>5. ASSUME NEW d \in Deciders, NEW q \in Reqs, NEW v \in {"approved", "declined"},
             Decide(d, q, v)
      PROVE  TypeOK'
  BY <1>5, DeciderTypes
<1>6. ASSUME NEW d \in Deciders,
             ReadRequest(d) \/ Execute(d) \/ SaveDecision(d) \/ SaveFails(d)
      PROVE  TypeOK'
  <2>1. decider[d] # "idle"
    BY <1>6 DEF ReadRequest, Execute, SaveDecision, SaveFails
  <2>2. target[d] \in Reqs
    BY <2>1 DEF IInv, Deciding
  <2> QED BY <1>6, <2>2, DeciderTypes
<1>7. ASSUME Crash PROVE TypeOK'
  <2>1. faults' \in 0 .. MaxFaults
    BY <1>7, FaultType DEF IInv, Crash
  <2>2. faulty' \subseteq Reqs
    BY <1>7 DEF IInv, Crash, Deciding, TypeOK
  <2>3. stranded' \subseteq Recs
    BY <1>7 DEF IInv, Crash, Awaited, TypeOK
  <2> QED BY <1>7, <2>1, <2>2, <2>3 DEF IInv, Crash, TypeOK, rows
<1>8. CASE UNCHANGED vars
  BY <1>8 DEF IInv, TypeOK, vars, rows, calls, admin, history
<1> QED BY <1>1, <1>2, <1>3, <1>4, <1>5, <1>6, <1>7, <1>8 DEF Next

\* A call that awaits something is about a recommendation, and a decision about a request.
LEMMA Subjects ==
  ASSUME IInv
  PROVE  /\ \A c \in Clients : client[c] # "idle" => item[c] \in Recs
         /\ \A d \in Deciders : Active(d) =>
              /\ target[d] \in Reqs /\ about[target[d]] \in Recs /\ First(d)
              /\ status[target[d]] = "pending" /\ Exists(about[target[d]])
  <1>1. \A d \in Deciders : Active(d) => status[target[d]] = "pending" /\ target[d] \in Reqs
    BY DEF IInv, Deciding, Active
  <1>2. \A q \in Reqs : status[q] = "pending" => about[q] \in Recs /\ Exists(about[q])
    BY DEF IInv, Made, PendingHasRow, Pending
  <1> QED BY <1>1, <1>2 DEF IInv, Awaited, Deciding

\* Every step keeps who holds the lock and what the calls are about.
LEMMA CallStep == IInv /\ [Next]_vars => Locked' /\ Awaited'
<1> SUFFICES ASSUME IInv, [Next]_vars PROVE Locked' /\ Awaited'
  OBVIOUS
<1>0. TypeOK /\ Locked /\ Awaited /\ Nobody \notin Clients
  BY RequestAssumption DEF IInv
<1>1. ASSUME NEW c \in Clients, NEW r \in Recs, Ask(c, r) PROVE Locked' /\ Awaited'
  BY <1>0, <1>1 DEF Ask, TypeOK, Locked, Awaited
<1>2. ASSUME NEW c \in Clients, NEW r \in Recs, EnsureAlbum(c, r) PROVE Locked' /\ Awaited'
  BY <1>0, <1>2 DEF EnsureAlbum, TypeOK, Locked, Awaited
<1>3. ASSUME NEW c \in Clients, Answer(c) \/ Refuse(c), client[c] # "idle",
             \/ userLock' = userLock /\ userLock # c
             \/ userLock' = Nobody /\ userLock = c
      PROVE  Locked' /\ Awaited'
  <2>1. CASE Answer(c)
    BY <1>0, <1>3, <2>1 DEF Answer, TypeOK, Locked, Awaited
  <2>2. CASE Refuse(c) /\ c \in forAlbum
    <3>1. /\ client' = [client EXCEPT ![c] = "cleanup"] /\ item' = item /\ forAlbum' = forAlbum
      BY <2>2 DEF Refuse
    <3> QED BY <1>0, <1>3, <2>2, <3>1 DEF TypeOK, Locked, Awaited
  <2> QED BY <1>3, <2>1, <2>2 DEF Refuse
<1>4. ASSUME NEW c \in Clients, CheckRequest(c) PROVE Locked' /\ Awaited'
  <2>0. client[c] = "create" /\ userLock = Nobody
    BY <1>4 DEF CheckRequest
  <2>1. CASE (Refuse(c) \/ Answer(c)) /\ userLock' = userLock
    BY <1>0, <1>3, <2>0, <2>1
  <2>2. CASE /\ client' = [client EXCEPT ![c] = "insert"]
             /\ userLock' = c /\ UNCHANGED <<item, forAlbum>>
    BY <1>0, <2>0, <2>2 DEF TypeOK, Locked, Awaited
  <2> QED BY <1>4, <2>1, <2>2 DEF CheckRequest
<1>5. ASSUME NEW c \in Clients, InsertRequest(c) PROVE Locked' /\ Awaited'
  <2>1. userLock = c /\ client[c] # "idle"
    BY <1>0, <1>5 DEF InsertRequest, Locked
  <2> QED BY <1>3, <1>5, <2>1 DEF InsertRequest
<1>6. ASSUME NEW c \in Clients, CreateFails(c) PROVE Locked' /\ Awaited'
  BY <1>3, <1>6 DEF CreateFails
<1>7. ASSUME NEW c \in Clients, CleanupAlbum(c) PROVE Locked' /\ Awaited'
  <2>1. userLock # c /\ client[c] # "idle" /\ Answer(c) /\ userLock' = userLock
    BY <1>0, <1>7 DEF CleanupAlbum, Locked
  <2> QED BY <1>3, <2>1
<1>8. ASSUME Crash PROVE Locked' /\ Awaited'
  BY <1>0, <1>8 DEF Crash, Locked, Awaited
<1>9. ASSUME UNCHANGED calls PROVE Locked' /\ Awaited'
  BY <1>0, <1>9 DEF calls, Locked, Awaited
<1> QED BY <1>1, <1>2, <1>4, <1>5, <1>6, <1>7, <1>8, <1>9
       DEF Next, SetStatus, CoolOff, Decide, ReadRequest, Execute, SaveDecision, SaveFails, vars

\* Leaving the chain: the others of the request are not active, and stay in it.
LEMMA LeaveStep ==
  ASSUME IInv, NEW d \in Deciders, First(d), target[d] \in Reqs, Leave(d), TypeOK',
         \A q \in Reqs : q # target[d] => status'[q] = status[q]
  PROVE  Deciding'
<1> SUFFICES ASSUME NEW e \in Deciders
             PROVE  /\ (decider[e] # "idle" => target[e] \in Reqs)'
                    /\ (Active(e) => First(e) /\ status[target[e]] = "pending")'
                    /\ (decider[e] = "executing" => verdict[e] = "approved")'
  BY DEF Deciding
<1>0. /\ decider[e] # "idle" => target[e] \in Reqs
      /\ Active(e) => First(e) /\ status[target[e]] = "pending"
      /\ decider[e] = "executing" => verdict[e] = "approved"
  BY DEF IInv, Deciding
<1>1. CASE e = d
  BY <1>1 DEF Leave, Active, IInv, TypeOK
<1>2. CASE e # d
  <2>1. decider'[e] = decider[e] /\ target'[e] = target[e] /\ verdict'[e] = verdict[e]
    BY <1>2 DEF Leave, IInv, TypeOK
  <2>2. Active(e) => target[e] # target[d] /\ target[e] \in Reqs
    BY <1>0, <1>2, FirstIsOne DEF Active
  <2>3. Active(e) => chain'[target[e]] = chain[target[e]]
    BY <2>2 DEF Leave, IInv, TypeOK
  <2>4. Active(e) => First(e)'
    BY <1>0, <2>1, <2>3 DEF First
  <2> QED BY <1>0, <2>1, <2>2, <2>4 DEF Active
<1> QED BY <1>1, <1>2

\* Every step keeps the order of the decisions.
LEMMA DecidingStep == IInv /\ [Next]_vars => Deciding'
<1> SUFFICES ASSUME IInv, [Next]_vars PROVE Deciding'
  OBVIOUS
<1>0. TypeOK /\ Deciding /\ TypeOK'
  BY TypeStep DEF IInv
<1>1. ASSUME UNCHANGED admin, UNCHANGED status PROVE Deciding'
  BY <1>0, <1>1 DEF Deciding, Active, First, admin
<1>2. ASSUME NEW c \in Clients, InsertRequest(c) PROVE Deciding'
  <2>1. \A q \in Reqs : status[q] = "pending" => status'[q] = "pending"
    BY <1>0, <1>2 DEF InsertRequest, TypeOK
  <2> QED BY <1>0, <1>2, <2>1 DEF InsertRequest, Deciding, Active, First, admin
<1>3. ASSUME NEW d \in Deciders, NEW q \in Reqs, NEW v \in {"approved", "declined"},
             Decide(d, q, v)
      PROVE  Deciding'
  <2> SUFFICES ASSUME NEW e \in Deciders
               PROVE  /\ (decider[e] # "idle" => target[e] \in Reqs)'
                      /\ (Active(e) => First(e) /\ status[target[e]] = "pending")'
                      /\ (decider[e] = "executing" => verdict[e] = "approved")'
    BY DEF Deciding
  <2>0. /\ decider[e] # "idle" => target[e] \in Reqs
        /\ Active(e) => First(e) /\ status[target[e]] = "pending"
        /\ decider[e] = "executing" => verdict[e] = "approved"
        /\ status' = status
    BY <1>0, <1>3 DEF Deciding, Decide, rows
  <2>1. CASE e = d
    BY <1>0, <1>3, <2>1 DEF Decide, Active, TypeOK
  <2>2. CASE e # d
    <3>1. decider'[e] = decider[e] /\ target'[e] = target[e] /\ verdict'[e] = verdict[e]
      BY <1>0, <1>3, <2>2 DEF Decide, TypeOK
    <3>2. Active(e) => target[e] \in Reqs /\ chain[target[e]] # <<>>
                       /\ Head(chain[target[e]]) = e
      BY <2>0 DEF Active, First
    <3>3. \A p \in Reqs : /\ chain[p] \in Seq(Deciders)
                          /\ chain'[p] = IF p = q THEN Append(chain[p], d) ELSE chain[p]
      BY <1>0, <1>3 DEF Decide, TypeOK
    <3>4. \A x \in Seq(Deciders) : x # <<>> =>
            Append(x, d) # <<>> /\ Head(Append(x, d)) = Head(x)
      OBVIOUS
    <3>5. Active(e) => chain'[target[e]] # <<>> /\ Head(chain'[target[e]]) = e
      BY <3>2, <3>3, <3>4
    <3> QED BY <2>0, <3>1, <3>5 DEF Active, First
  <2> QED BY <2>1, <2>2
<1>4. ASSUME NEW d \in Deciders, ReadRequest(d) PROVE Deciding'
  <2>0. First(d) /\ target[d] \in Reqs /\ status' = status
    BY <1>0, <1>4 DEF ReadRequest, Deciding, rows
  <2>1. CASE Leave(d)
    BY <1>0, <2>0, <2>1, LeaveStep
  <2>2. CASE ~Leave(d)
    <3>1. /\ status[target[d]] = "pending" /\ UNCHANGED <<target, verdict, chain>>
          /\ decider' = [decider EXCEPT ![d] =
                           IF verdict[d] = "approved" THEN "executing" ELSE "saving"]
      BY <1>4, <2>2 DEF ReadRequest
    <3>2. /\ \A e \in Deciders : e # d => decider'[e] = decider[e]
          /\ decider'[d] = "executing" => verdict[d] = "approved"
      BY <1>0, <3>1 DEF TypeOK
    <3> QED BY <1>0, <2>0, <3>1, <3>2 DEF Deciding, Active, First
  <2> QED BY <2>1, <2>2
<1>5. ASSUME NEW d \in Deciders, Execute(d) PROVE Deciding'
  <2>0. First(d) /\ target[d] \in Reqs /\ status' = status /\ status[target[d]] = "pending"
    BY <1>0, <1>5 DEF Execute, Deciding, Active
  <2>1. CASE Leave(d)
    BY <1>0, <2>0, <2>1, LeaveStep
  <2>2. CASE ~Leave(d)
    <3>1. UNCHANGED <<target, verdict, chain>> /\ decider' = [decider EXCEPT ![d] = "saving"]
      BY <1>5, <2>2 DEF Execute
    <3> QED BY <1>0, <2>0, <3>1 DEF Deciding, Active, First, TypeOK
  <2> QED BY <2>1, <2>2
<1>6. ASSUME NEW d \in Deciders, SaveDecision(d) \/ SaveFails(d) PROVE Deciding'
  <2>1. First(d) /\ target[d] \in Reqs /\ Leave(d)
    BY <1>0, <1>6 DEF SaveDecision, SaveFails, Deciding, Active
  <2>2. \A q \in Reqs : q # target[d] => status'[q] = status[q]
    BY <1>0, <1>6 DEF SaveDecision, SaveFails, TypeOK, rows
  <2> QED BY <1>0, <2>1, <2>2, LeaveStep
<1>7. ASSUME Crash PROVE Deciding'
  BY <1>7 DEF Crash, Deciding, Active
<1> QED BY <1>1, <1>2, <1>3, <1>4, <1>5, <1>6, <1>7
       DEF Next, Ask, EnsureAlbum, CheckRequest, CreateFails, CleanupAlbum, SetStatus, CoolOff,
           rows, vars

RowInv == Made /\ PendingHasRow /\ RequestLimit /\ Ready

\* A step that leaves the requests alone, deletes no row that a request or the call that
\* inserts is about, and lets nobody start to insert, keeps what holds of the requests.
LEMMA RowsKept ==
  ASSUME IInv, UNCHANGED <<status, about>>,
         cooled \subseteq cooled', late \subseteq late' \/ \A c \in Clients : client'[c] # "insert",
         \A r \in Recs : /\ Exists(r)
                         /\ \/ Open(r) # {}
                            \/ \E c \in Clients : client[c] = "insert" /\ item[c] = r
                         => Exists(r)',
         \A c \in Clients : client'[c] = "insert" => client[c] = "insert" /\ item'[c] = item[c]
  PROVE  RowInv'
<1>0. TypeOK /\ Made /\ PendingHasRow /\ RequestLimit /\ Ready /\ Awaited
  BY DEF IInv
<1>1. Pending' = Pending /\ \A r : Open(r)' = Open(r)
  BY DEF Pending, Open
<1>2. Made'
  BY <1>0 DEF Made
<1>3. PendingHasRow'
  <2> SUFFICES ASSUME NEW q \in Pending PROVE Exists(about[q])'
    BY <1>1 DEF PendingHasRow
  <2>1. q \in Reqs /\ about[q] \in Recs /\ Exists(about[q]) /\ q \in Open(about[q])
    BY <1>0 DEF Pending, Open, Made, PendingHasRow
  <2>2. Open(about[q]) # {}
    BY <2>1
  <2>3. (about[q])' = about[q]
    OBVIOUS
  <2> QED BY <2>1, <2>2, <2>3 DEF Exists
<1>4. RequestLimit'
  BY <1>0, <1>1 DEF RequestLimit
<1>5. Ready'
  <2> SUFFICES ASSUME NEW c \in Clients, client'[c] = "insert"
               PROVE  /\ Exists(item[c])' /\ Open(item[c])' = {} /\ Cardinality(Pending') < Limit
                      /\ \A p \in Reqs : status'[p] = "declined" /\ Same(p, item[c])' =>
                           p \in cooled' \cup late'
    BY DEF Ready
  <2>1. client[c] = "insert" /\ item'[c] = item[c] /\ item[c] \in Recs /\ late \subseteq late'
    BY <1>0 DEF Awaited
  <2>2. /\ Exists(item[c]) /\ Open(item[c]) = {} /\ Cardinality(Pending) < Limit
        /\ \A p \in Reqs : status[p] = "declined" /\ Same(p, item[c]) => p \in cooled \cup late
    BY <1>0, <2>1 DEF Ready
  <2>3. Exists(item[c])'
    BY <2>1, <2>2 DEF Exists
  <2>4. \A p \in Reqs : Same(p, item[c])' => Same(p, item[c])
    BY <2>1 DEF Same
  <2> QED BY <1>1, <2>1, <2>2, <2>3, <2>4
<1> QED BY <1>2, <1>3, <1>4, <1>5 DEF RowInv

\* The calls of the requester keep what holds of the requests.
LEMMA RowStepClients ==
  ASSUME IInv, NEW c \in Clients, NEW r \in Recs,
         \/ Ask(c, r) \/ EnsureAlbum(c, r) \/ CheckRequest(c) \/ InsertRequest(c)
         \/ CreateFails(c) \/ CleanupAlbum(c)
  PROVE  RowInv'
<1>0. /\ TypeOK /\ Locked /\ Awaited /\ Made /\ PendingHasRow /\ RequestLimit /\ Ready
      /\ Nobody \notin Clients
  BY RequestAssumption DEF IInv
<1>1. CASE Ask(c, r)
  <2>1. \A d \in Clients : client'[d] = "insert" => client[d] = "insert" /\ item'[d] = item[d]
    BY <1>0, <1>1 DEF Ask, TypeOK
  <2> QED BY <1>1, <2>1, RowsKept DEF Ask, rows, history, Exists
<1>2. CASE EnsureAlbum(c, r)
  <2>1. \A d \in Clients : client'[d] = "insert" => client[d] = "insert" /\ item'[d] = item[d]
    BY <1>0, <1>2 DEF EnsureAlbum, TypeOK
  <2>2. \A s \in Recs : Exists(s) => Exists(s)'
    BY <1>0, <1>2 DEF EnsureAlbum, TypeOK, Exists
  <2> QED BY <1>2, <2>1, <2>2, RowsKept DEF EnsureAlbum, history
<1>3. CASE CheckRequest(c)
  <2>0. client[c] = "create" /\ userLock = Nobody /\ UNCHANGED rows /\ late' = late
    BY <1>3 DEF CheckRequest
  <2>1. CASE Refuse(c) \/ Answer(c)
    <3>1. \A d \in Clients : client'[d] = "insert" => client[d] = "insert" /\ item'[d] = item[d]
      BY <1>0, <2>1 DEF Refuse, Answer, TypeOK
    <3> QED BY <2>0, <3>1, RowsKept DEF rows, Exists
  <2>2. CASE ~(Refuse(c) \/ Answer(c))
    <3>1. /\ Exists(item[c]) /\ Open(item[c]) = {} /\ Cooling(item[c]) = {}
          /\ ~AtLimit(Cardinality(Pending))
          /\ client' = [client EXCEPT ![c] = "insert"] /\ item' = item
      BY <1>3, <2>2 DEF CheckRequest
    <3>2. Pending' = Pending /\ \A s : Open(s)' = Open(s)
      BY <2>0 DEF Pending, Open, rows
    <3>3. Made' /\ PendingHasRow' /\ RequestLimit'
      BY <1>0, <2>0, <3>2 DEF Made, PendingHasRow, RequestLimit, Exists, rows
    <3>4. \A d \in Clients : client'[d] = "insert" => d = c
      BY <1>0, <2>0, <3>1 DEF Locked, TypeOK
    <3>5. Cardinality(Pending) < Limit
      BY <1>0, <3>1, PendingFinite, RequestAssumption DEF AtLimit
    <3>6. \A p \in Reqs : status[p] = "declined" /\ Same(p, item[c]) => p \in cooled
      BY <3>1 DEF Cooling
    <3>7. Exists(item[c])' /\ Open(item[c])' = {}
      BY <2>0, <3>1, <3>2 DEF Exists, rows
    <3>8. \A p \in Reqs : status'[p] = "declined" /\ Same(p, item[c])' => p \in cooled'
      BY <2>0, <3>1, <3>6 DEF Same, rows
    <3>9. Ready'
      BY <3>2, <3>4, <3>5, <3>7, <3>8 DEF Ready
    <3> QED BY <3>3, <3>9 DEF RowInv
  <2> QED BY <2>1, <2>2
<1>4. CASE InsertRequest(c)
  <2>1. PICK q \in Reqs : /\ status[q] = "none"
                          /\ status' = [status EXCEPT ![q] = "pending"]
                          /\ about' = [about EXCEPT ![q] = item[c]]
    BY <1>4 DEF InsertRequest
  <2>2. /\ item[c] \in Recs /\ Exists(item[c]) /\ Open(item[c]) = {}
        /\ Cardinality(Pending) < Limit /\ userLock = c /\ rec' = rec
    BY <1>0, <1>4 DEF InsertRequest, Awaited, Ready, Locked
  <2>3. \A p \in Reqs : /\ about'[p] = IF p = q THEN item[c] ELSE about[p]
                        /\ status'[p] = IF p = q THEN "pending" ELSE status[p]
    BY <1>0, <2>1 DEF TypeOK
  <2>4. Pending' = Pending \cup {q} /\ q \notin Pending
    BY <2>1, <2>3 DEF Pending
  <2>5. Cardinality(Pending') = Cardinality(Pending) + 1
    BY <1>0, <2>4, PendingFinite, FS_AddElement
  <2>6. Made'
    BY <1>0, <2>2, <2>3 DEF Made
  <2>7. PendingHasRow'
    BY <1>0, <2>2, <2>3, <2>4 DEF PendingHasRow, Exists, Pending
  <2>8. RequestLimit'
    <3>1. Cardinality(Pending') <= Limit
      BY <1>0, <2>2, <2>5, PendingFinite, RequestAssumption
    <3>2. \A p \in Pending : about[p] # item[c]
      BY <2>2 DEF Open
    <3>3. \A p, s \in Pending' : about'[p] = about'[s] => p = s
      BY <1>0, <2>3, <2>4, <3>2 DEF RequestLimit, Pending
    <3> QED BY <3>1, <3>3 DEF RequestLimit
  <2>9. Ready'
    <3>1. \A d \in Clients : client'[d] = "insert" => client[d] = "insert" /\ d # c
      BY <1>0, <1>4 DEF InsertRequest, Refuse, Answer, TypeOK
    <3>2. \A d \in Clients : client'[d] # "insert"
      BY <1>0, <2>2, <3>1 DEF Locked
    <3> QED BY <3>2 DEF Ready
  <2> QED BY <2>6, <2>7, <2>8, <2>9 DEF RowInv
<1>5. CASE CreateFails(c)
  <2>1. \A d \in Clients : client'[d] = "insert" => client[d] = "insert" /\ item'[d] = item[d]
                                                    /\ d # c
    BY <1>0, <1>5 DEF CreateFails, Refuse, Answer, TypeOK
  <2>2. late \subseteq late' \/ \A d \in Clients : client'[d] # "insert"
    BY <1>0, <1>5, <2>1 DEF CreateFails, Locked
  <2> QED BY <1>5, <2>1, <2>2, RowsKept DEF CreateFails, rows, Exists
<1>6. CASE CleanupAlbum(c)
  <2>1. \A d \in Clients : client'[d] = "insert" => client[d] = "insert" /\ item'[d] = item[d]
    BY <1>0, <1>6 DEF CleanupAlbum, Answer, TypeOK
  <2>2. ASSUME NEW s \in Recs, Exists(s),
               \/ Open(s) # {}
               \/ \E d \in Clients : client[d] = "insert" /\ item[d] = s
        PROVE  Exists(s)'
    <3>1. CASE rec' = rec
      BY <2>2, <3>1 DEF Exists
    <3>2. CASE userLock = Nobody /\ rec' = Drop(item[c], Open(item[c]))
      <4>1. Open(s) # {} /\ item[c] \in Recs
        BY <1>0, <1>6, <2>2, <3>2 DEF Locked, CleanupAlbum, Awaited
      <4>2. rec'[s] = rec[s]
        BY <1>0, <3>2, <4>1, DropType
      <4> QED BY <2>2, <4>2 DEF Exists
    <3> QED BY <1>6, <3>1, <3>2 DEF CleanupAlbum
  <2> QED BY <1>6, <2>1, <2>2, RowsKept DEF CleanupAlbum
<1> QED BY <1>1, <1>2, <1>3, <1>4, <1>5, <1>6

\* The decisions keep what holds of the requests.
LEMMA RowStepDeciders ==
  ASSUME IInv, NEW d \in Deciders, Execute(d) \/ SaveDecision(d)
  PROVE  RowInv'
<1>0. TypeOK /\ Made /\ PendingHasRow /\ RequestLimit /\ Ready /\ Locked
  BY DEF IInv
<1> DEFINE q == target[d]
           r == about[q]
<1>1. q \in Reqs /\ r \in Recs /\ status[q] = "pending" /\ Exists(r)
  BY Subjects DEF Execute, SaveDecision, Active
<1>2. CASE Execute(d)
  <2>1. rec' = rec \/ rec' = [rec EXCEPT ![r] = "acted"]
    BY <1>2 DEF Execute
  <2>2. \A s \in Recs : Exists(s) => Exists(s)'
    BY <1>0, <1>1, <2>1 DEF TypeOK, Exists
  <2> QED BY <1>2, <2>2, RowsKept DEF Execute, calls
<1>3. CASE SaveDecision(d)
  <2>1. /\ status' = [status EXCEPT ![q] = verdict[d]] /\ about' = about
        /\ client' = client /\ item' = item /\ cooled' = cooled
        /\ rec' = IF verdict[d] = "declined" THEN Drop(r, Open(r) \ {q}) ELSE rec
        /\ late' = IF verdict[d] = "declined" /\ userLock # Nobody THEN late \cup {q} ELSE late
    BY <1>3 DEF SaveDecision, calls
  <2>2. \A p \in Reqs : status'[p] = IF p = q THEN verdict[d] ELSE status[p]
    BY <1>0, <1>1, <2>1 DEF TypeOK
  <2>3. verdict[d] # "pending" /\ verdict[d] # "none"
    BY <1>0 DEF TypeOK
  <2>4. Pending' = Pending \ {q}
    BY <2>2, <2>3 DEF Pending
  <2>5. Cardinality(Pending') <= Cardinality(Pending) /\ Cardinality(Pending') \in Nat
    BY <1>0, <2>4, PendingFinite, FS_Subset, FS_CardinalityType
  <2>6. \A s \in Recs : Exists(s) /\ (s # r \/ Open(r) \ {q} # {}) => Exists(s)'
    <3>1. rec' = rec \/ rec' = Drop(r, Open(r) \ {q})
      BY <2>1
    <3> QED BY <1>0, <1>1, <3>1, DropType DEF Exists
  <2>7. Made'
    BY <1>0, <1>1, <2>1, <2>2 DEF Made
  <2>8. PendingHasRow'
    <3> SUFFICES ASSUME NEW p \in Pending \ {q} PROVE Exists(about[p])'
      BY <2>4 DEF PendingHasRow
    <3>1. p \in Reqs /\ about[p] \in Recs /\ Exists(about[p]) /\ about'[p] = about[p]
      BY <1>0, <2>1 DEF Pending, Made, PendingHasRow
    <3>2. about[p] # r \/ Open(r) \ {q} # {}
      BY DEF Open
    <3> QED BY <2>6, <3>1, <3>2 DEF Exists
  <2>9. RequestLimit'
    BY <1>0, <2>1, <2>4, <2>5, PendingFinite, RequestAssumption DEF RequestLimit
  <2>10. Ready'
    <3> SUFFICES ASSUME NEW c \in Clients, client'[c] = "insert"
                 PROVE  /\ Exists(item[c])' /\ Open(item[c])' = {}
                        /\ Cardinality(Pending') < Limit
                        /\ \A p \in Reqs : status'[p] = "declined" /\ Same(p, item[c])' =>
                             p \in cooled' \cup late'
      BY DEF Ready
    <3>1. /\ client[c] = "insert" /\ item'[c] = item[c] /\ item[c] \in Recs
          /\ userLock = c /\ userLock # Nobody
      BY <1>0, <2>1, RequestAssumption DEF IInv, Awaited, Locked
    <3>2. /\ Exists(item[c]) /\ Open(item[c]) = {} /\ Cardinality(Pending) < Limit
          /\ \A p \in Reqs : status[p] = "declined" /\ Same(p, item[c]) => p \in cooled \cup late
      BY <1>0, <3>1 DEF Ready
    <3>3. item[c] # r
      BY <1>1, <3>2 DEF Open, Pending
    <3>4. Exists(item[c])'
      BY <2>6, <3>1, <3>2, <3>3 DEF Exists
    <3>5. Open(item[c])' = {}
      BY <2>1, <2>4, <3>1, <3>2 DEF Open
    <3>6. Cardinality(Pending') < Limit
      BY <1>0, <2>5, <3>2, PendingFinite, RequestAssumption
    <3>7. \A p \in Reqs : status'[p] = "declined" /\ Same(p, item[c])' => p \in cooled' \cup late'
      <4> SUFFICES ASSUME NEW p \in Reqs, status'[p] = "declined", Same(p, item[c])'
                   PROVE  p \in cooled' \cup late'
        OBVIOUS
      <4>1. Same(p, item[c])
        BY <2>1, <3>1 DEF Same
      <4>2. CASE p = q
        BY <2>1, <2>2, <3>1, <4>2
      <4>3. CASE p # q
        BY <2>1, <2>2, <3>2, <4>1, <4>3
      <4> QED BY <4>2, <4>3
    <3> QED BY <3>4, <3>5, <3>6, <3>7
  <2> QED BY <2>7, <2>8, <2>9, <2>10 DEF RowInv
<1> QED BY <1>2, <1>3

\* Every step keeps what holds of the requests.
LEMMA RowStep == IInv /\ [Next]_vars => RowInv'
<1> SUFFICES ASSUME IInv, [Next]_vars PROVE RowInv'
  OBVIOUS
<1>1. ASSUME NEW c \in Clients, NEW r \in Recs, Ask(c, r) \/ EnsureAlbum(c, r)
      PROVE  RowInv'
  BY <1>1, RowStepClients
<1>2. ASSUME NEW c \in Clients,
             CheckRequest(c) \/ InsertRequest(c) \/ CreateFails(c) \/ CleanupAlbum(c)
      PROVE  RowInv'
  <2>1. item[c] \in Recs
    BY <1>2, Subjects DEF CheckRequest, InsertRequest, CreateFails, CleanupAlbum
  <2> QED BY <1>2, <2>1, RowStepClients
<1>3. ASSUME NEW r \in Recs, NEW s \in {"rejected", "pending"}, SetStatus(r, s)
      PROVE  RowInv'
  <2>1. \A x \in Recs : Exists(x) => Exists(x)'
    BY <1>3 DEF IInv, SetStatus, TypeOK, Exists
  <2> QED BY <1>3, <2>1, RowsKept DEF SetStatus, calls
<1>4. ASSUME NEW q \in Reqs, CoolOff(q) PROVE RowInv'
  BY <1>4, RowsKept DEF CoolOff, calls, history, Exists
<1>5. ASSUME UNCHANGED rows, UNCHANGED calls, UNCHANGED late PROVE RowInv'
  BY <1>5, RowsKept DEF rows, calls, Exists
<1>6. ASSUME NEW d \in Deciders, Execute(d) \/ SaveDecision(d) PROVE RowInv'
  BY <1>6, RowStepDeciders
<1>7. ASSUME Crash PROVE RowInv'
  <2>1. \A c \in Clients : client'[c] # "insert"
    BY <1>7 DEF Crash
  <2> QED BY <1>7, <2>1, RowsKept DEF Crash, rows, Exists
<1> QED BY <1>1, <1>2, <1>3, <1>4, <1>5, <1>6, <1>7
       DEF Next, Decide, ReadRequest, SaveFails, vars, history

\* Every step keeps that an approval about to be recorded has changed the row.
LEMMA ActedStep == IInv /\ [Next]_vars => Acted'
<1> SUFFICES ASSUME IInv, [Next]_vars PROVE Acted'
  OBVIOUS
<1>0. TypeOK /\ Acted /\ PendingHasRow /\ Made
  BY DEF IInv
<1>1. ASSUME \A s \in Recs : Exists(s) /\ rec'[s] = "pending" => rec[s] = "pending" \/ s \in edited',
             edited \subseteq edited',
             \A d \in Deciders : decider'[d] = "saving" /\ verdict'[d] = "approved" =>
               decider[d] = "saving" /\ verdict[d] = "approved" /\ target'[d] = target[d],
             \A q \in Reqs : status[q] = "pending" => about'[q] = about[q]
      PROVE  Acted'
  <2> SUFFICES ASSUME NEW d \in Deciders, decider'[d] = "saving", verdict'[d] = "approved"
               PROVE  \/ rec'[about'[target'[d]]] # "pending"
                      \/ about'[target'[d]] \in edited'
    BY DEF Acted
  <2>1. decider[d] = "saving" /\ verdict[d] = "approved" /\ target'[d] = target[d]
    BY <1>1
  <2>2. /\ target[d] \in Reqs /\ about[target[d]] \in Recs /\ Exists(about[target[d]])
        /\ about'[target[d]] = about[target[d]]
    BY <1>1, <2>1, Subjects DEF Active
  <2>3. rec[about[target[d]]] # "pending" \/ about[target[d]] \in edited
    BY <1>0, <2>1 DEF Acted
  <2> QED BY <1>1, <2>1, <2>2, <2>3
<1>2. ASSUME UNCHANGED <<rec, about, admin, edited>> PROVE Acted'
  BY <1>1, <1>2 DEF admin
<1>3. ASSUME NEW c \in Clients, NEW r \in Recs, EnsureAlbum(c, r) PROVE Acted'
  <2>1. \A s \in Recs : Exists(s) /\ rec'[s] = "pending" => rec[s] = "pending"
    BY <1>0, <1>3 DEF EnsureAlbum, TypeOK, Exists
  <2> QED BY <1>1, <1>3, <2>1 DEF EnsureAlbum, admin, history
<1>4. ASSUME NEW c \in Clients, InsertRequest(c) PROVE Acted'
  <2>1. \A q \in Reqs : status[q] = "pending" => about'[q] = about[q]
    BY <1>0, <1>4 DEF InsertRequest, TypeOK
  <2> QED BY <1>1, <1>4, <2>1 DEF InsertRequest, admin
<1>5. ASSUME NEW c \in Clients, CleanupAlbum(c) PROVE Acted'
  <2>1. \A s \in Recs : rec'[s] = "pending" => rec[s] = "pending"
    BY <1>0, <1>5 DEF CleanupAlbum, Drop, TypeOK
  <2> QED BY <1>1, <1>5, <2>1 DEF CleanupAlbum, admin
<1>6. ASSUME NEW r \in Recs, NEW s \in {"rejected", "pending"}, SetStatus(r, s) PROVE Acted'
  <2>1. \A x \in Recs : rec'[x] = "pending" => rec[x] = "pending" \/ x \in edited'
    BY <1>0, <1>6 DEF SetStatus, TypeOK
  <2> QED BY <1>1, <1>6, <2>1 DEF SetStatus, admin
<1>7. ASSUME NEW d \in Deciders, NEW q \in Reqs, NEW v \in {"approved", "declined"},
             Decide(d, q, v)
      PROVE  Acted'
  <2>1. \A e \in Deciders : decider'[e] = "saving" =>
          decider[e] = "saving" /\ verdict'[e] = verdict[e] /\ target'[e] = target[e]
    BY <1>0, <1>7 DEF Decide, TypeOK
  <2> QED BY <1>1, <1>7, <2>1 DEF Decide, rows, history
<1>8. ASSUME NEW d \in Deciders, Leave(d)
      PROVE  \A e \in Deciders : decider'[e] = "saving" =>
               decider[e] = "saving" /\ verdict'[e] = verdict[e] /\ target'[e] = target[e]
  BY <1>0, <1>8 DEF Leave, TypeOK
<1>9. ASSUME NEW d \in Deciders, ReadRequest(d) PROVE Acted'
  <2>1. \A e \in Deciders : decider'[e] = "saving" /\ verdict'[e] = "approved" =>
          decider[e] = "saving" /\ verdict[e] = "approved" /\ target'[e] = target[e]
    BY <1>0, <1>8, <1>9 DEF ReadRequest, TypeOK
  <2> QED BY <1>1, <1>9, <2>1 DEF ReadRequest, rows, history
<1>10. ASSUME NEW d \in Deciders, Execute(d) PROVE Acted'
  <2>0. target[d] \in Reqs /\ about[target[d]] \in Recs
    BY <1>10, Subjects DEF Execute, Active
  <2>1. rec' = rec \/ rec' = [rec EXCEPT ![about[target[d]]] = "acted"]
    BY <1>10 DEF Execute
  <2>2. \A s \in Recs : rec'[s] = "pending" => rec[s] = "pending"
    BY <1>0, <2>1 DEF TypeOK
  <2>3. CASE Leave(d)
    BY <1>1, <1>8, <1>10, <2>2, <2>3 DEF Execute
  <2>4. CASE ~Leave(d)
    <3>1. /\ rec' = [rec EXCEPT ![about[target[d]]] = "acted"] /\ about' = about
          /\ decider' = [decider EXCEPT ![d] = "saving"] /\ edited' = edited
          /\ target' = target /\ verdict' = verdict
      BY <1>10, <2>4 DEF Execute
    <3> SUFFICES ASSUME NEW e \in Deciders, decider'[e] = "saving", verdict'[e] = "approved"
                 PROVE  \/ rec'[about'[target'[e]]] # "pending"
                        \/ about'[target'[e]] \in edited'
      BY DEF Acted
    <3>2. CASE e = d
      BY <1>0, <2>0, <3>1, <3>2 DEF TypeOK
    <3>3. CASE e # d
      <4>1. decider[e] = "saving" /\ verdict[e] = "approved"
        BY <1>0, <3>1, <3>3 DEF TypeOK
      <4>2. about[target[e]] \in Recs
        BY <4>1, Subjects DEF Active
      <4>3. rec[about[target[e]]] # "pending" \/ about[target[e]] \in edited
        BY <1>0, <4>1 DEF Acted
      <4> QED BY <2>2, <3>1, <4>2, <4>3
    <3> QED BY <3>2, <3>3
  <2> QED BY <2>3, <2>4
<1>11. ASSUME NEW d \in Deciders, SaveDecision(d) PROVE Acted'
  <2>1. \A s \in Recs : rec'[s] = "pending" => rec[s] = "pending"
    BY <1>0, <1>11 DEF SaveDecision, Drop, TypeOK
  <2> QED BY <1>1, <1>8, <1>11, <2>1 DEF SaveDecision
<1>12. ASSUME NEW d \in Deciders, SaveFails(d) PROVE Acted'
  BY <1>1, <1>8, <1>12 DEF SaveFails, rows
<1>13. ASSUME Crash PROVE Acted'
  BY <1>13 DEF Crash, Acted
<1> QED BY <1>2, <1>3, <1>4, <1>5, <1>6, <1>7, <1>9, <1>10, <1>11, <1>12, <1>13
       DEF Next, Ask, CheckRequest, CreateFails, CoolOff, rows, calls, history, vars

\* Every step keeps temporary rows from being left behind.
LEMMA OrphanStep == IInv /\ [Next]_vars => NoOrphan'
<1> SUFFICES ASSUME IInv, [Next]_vars PROVE NoOrphan'
  OBVIOUS
<1>0. TypeOK /\ Locked /\ Awaited /\ NoOrphan
  BY DEF IInv
<1>1. ASSUME \A t \in Temps : rec'[t] = "pending" =>
               rec[t] = "pending" \/ t \in edited' \/ \E c \in forAlbum' : item'[c] = t,
             \A t \in Temps : rec'[t] = "pending" /\ Open(t) # {} => Open(t)' # {} \/ t \in edited',
             \A c \in forAlbum, t \in Temps : item[c] = t /\ rec'[t] = "pending" =>
               \/ c \in forAlbum' /\ item'[c] = t
               \/ Open(t)' # {}
               \/ t \in stranded' \cup edited',
             stranded \subseteq stranded', edited \subseteq edited'
      PROVE  NoOrphan'
  <2> SUFFICES ASSUME NEW t \in Temps, rec'[t] = "pending"
               PROVE  \/ Open(t)' # {}
                      \/ \E c \in forAlbum' : item'[c] = t
                      \/ t \in stranded' \cup edited'
    BY DEF NoOrphan
  <2>1. CASE rec[t] = "pending"
    BY <1>0, <1>1, <2>1 DEF NoOrphan
  <2> QED BY <1>1, <2>1
<1>2. ASSUME UNCHANGED <<rec, status, about, stranded, edited>>,
             \A c \in forAlbum : c \in forAlbum' /\ item'[c] = item[c]
      PROVE  NoOrphan'
  <2>1. \A t \in Temps : Open(t)' = Open(t)
    BY <1>2 DEF Open, Pending
  <2> QED BY <1>1, <1>2, <2>1
<1>3. ASSUME NEW c \in Clients, NEW r \in Recs, Ask(c, r) PROVE NoOrphan'
  BY <1>0, <1>2, <1>3 DEF Ask, TypeOK, rows, history, Awaited
<1>4. ASSUME NEW c \in Clients, NEW r \in Recs, EnsureAlbum(c, r) PROVE NoOrphan'
  <2>1. \A e \in forAlbum : e \in forAlbum' /\ item'[e] = item[e]
    BY <1>0, <1>4 DEF EnsureAlbum, TypeOK, Awaited
  <2>2. c \in forAlbum' /\ item'[c] = r
    BY <1>0, <1>4 DEF EnsureAlbum, TypeOK
  <2>3. \A t \in Recs : rec'[t] = "pending" => rec[t] = "pending" \/ t = r
    BY <1>0, <1>4 DEF EnsureAlbum, TypeOK
  <2>4. \A t \in Temps : Open(t)' = Open(t)
    BY <1>4 DEF EnsureAlbum, Open, Pending
  <2> QED BY <1>1, <1>4, <2>1, <2>2, <2>3, <2>4 DEF EnsureAlbum, history, Recs
<1>5. ASSUME NEW c \in Clients, Refuse(c), UNCHANGED <<rec, status, about, stranded, edited>>
      PROVE  NoOrphan'
  <2>1. \A e \in forAlbum : e \in forAlbum' /\ item'[e] = item[e]
    BY <1>0, <1>5 DEF Refuse, Answer, TypeOK
  <2> QED BY <1>2, <1>5, <2>1
<1>6. ASSUME NEW c \in Clients, Answer(c), UNCHANGED <<rec, stranded, edited>>,
             \A t \in Temps : Open(t) \subseteq Open(t)',
             \A t \in Temps : t = item[c] => Open(t)' # {}
      PROVE  NoOrphan'
  <2>1. \A e \in forAlbum \ {c} : e \in forAlbum' /\ item'[e] = item[e]
    BY <1>0, <1>6 DEF Answer, TypeOK
  <2> QED BY <1>1, <1>6, <2>1
<1>7. ASSUME NEW c \in Clients, CheckRequest(c) PROVE NoOrphan'
  <2>0. UNCHANGED <<rec, status, about, stranded, edited>>
    BY <1>7 DEF CheckRequest, rows
  <2>1. CASE Refuse(c)
    BY <1>5, <2>0, <2>1
  <2>2. CASE Answer(c) /\ Open(item[c]) # {}
    <3>1. \A t \in Temps : Open(t)' = Open(t)
      BY <2>0 DEF Open, Pending
    <3> QED BY <1>6, <2>0, <2>2, <3>1
  <2>3. CASE UNCHANGED <<item, forAlbum>>
    BY <1>2, <2>0, <2>3
  <2> QED BY <1>7, <2>1, <2>2, <2>3 DEF CheckRequest
<1>8. ASSUME NEW c \in Clients, InsertRequest(c) PROVE NoOrphan'
  <2>1. PICK q \in Reqs : /\ status[q] = "none"
                          /\ status' = [status EXCEPT ![q] = "pending"]
                          /\ about' = [about EXCEPT ![q] = item[c]]
    BY <1>8 DEF InsertRequest
  <2>2. \A p \in Reqs : /\ about'[p] = IF p = q THEN item[c] ELSE about[p]
                        /\ status'[p] = IF p = q THEN "pending" ELSE status[p]
    BY <1>0, <2>1 DEF TypeOK
  <2>3. \A t \in Temps : Open(t) \subseteq Open(t)' /\ (t = item[c] => q \in Open(t)')
    BY <2>1, <2>2 DEF Open, Pending
  <2>4. UNCHANGED <<rec, stranded, edited>>
    BY <1>8 DEF InsertRequest
  <2>5. CASE Answer(c)
    BY <1>6, <2>3, <2>4, <2>5
  <2>6. CASE Refuse(c)
    <3>1. \A e \in forAlbum : e \in forAlbum' /\ item'[e] = item[e]
      BY <1>0, <2>6 DEF Refuse, Answer, TypeOK
    <3> QED BY <1>1, <2>3, <2>4, <3>1
  <2> QED BY <1>8, <2>5, <2>6 DEF InsertRequest
<1>9. ASSUME NEW c \in Clients, CreateFails(c) PROVE NoOrphan'
  BY <1>5, <1>9 DEF CreateFails, rows
<1>10. ASSUME NEW c \in Clients, CleanupAlbum(c) PROVE NoOrphan'
  <2>0. /\ item[c] \in Recs /\ UNCHANGED <<status, about, edited>>
        /\ \A e \in forAlbum \ {c} : e \in forAlbum' /\ item'[e] = item[e]
    BY <1>0, <1>10 DEF CleanupAlbum, Answer, TypeOK, Awaited
  <2>1. \A t \in Temps : Open(t)' = Open(t)
    BY <2>0 DEF Open, Pending
  <2>2. CASE rec' = Drop(item[c], Open(item[c])) /\ stranded' = stranded
    <3>1. \A t \in Recs : rec'[t] = "pending" => rec[t] = "pending"
      BY <1>0, <2>2 DEF Drop, TypeOK
    <3>2. \A t \in Temps : t = item[c] /\ rec'[t] = "pending" => Open(t) # {}
      BY <1>0, <2>0, <2>2, <3>1, DropType DEF Recs, Exists
    <3> QED BY <1>1, <2>0, <2>1, <2>2, <3>1, <3>2 DEF Recs
  <2>3. CASE rec' = rec /\ stranded' = stranded \cup {item[c]}
    BY <1>1, <2>0, <2>1, <2>3
  <2> QED BY <1>10, <2>2, <2>3 DEF CleanupAlbum
<1>11. ASSUME NEW r \in Recs, NEW s \in {"rejected", "pending"}, SetStatus(r, s)
       PROVE  NoOrphan'
  <2>1. \A x \in Recs : rec'[x] = "pending" => rec[x] = "pending" \/ x \in edited'
    BY <1>0, <1>11 DEF SetStatus, TypeOK
  <2>2. \A t \in Temps : Open(t)' = Open(t)
    BY <1>11 DEF SetStatus, Open, Pending
  <2> QED BY <1>1, <1>11, <2>1, <2>2 DEF SetStatus, calls, Recs
<1>12. ASSUME NEW d \in Deciders, Execute(d) PROVE NoOrphan'
  <2>0. target[d] \in Reqs /\ about[target[d]] \in Recs
    BY <1>12, Subjects DEF Execute, Active
  <2>1. rec' = rec \/ rec' = [rec EXCEPT ![about[target[d]]] = "acted"]
    BY <1>12 DEF Execute
  <2>2. \A s \in Recs : rec'[s] = "pending" => rec[s] = "pending"
    BY <1>0, <2>1 DEF TypeOK
  <2>3. \A t \in Temps : Open(t)' = Open(t)
    BY <1>12 DEF Execute, Open, Pending
  <2> QED BY <1>1, <1>12, <2>2, <2>3 DEF Execute, calls, Recs
<1>13. ASSUME NEW d \in Deciders, SaveDecision(d) PROVE NoOrphan'
  <2> DEFINE q == target[d]
             r == about[q]
  <2>0. q \in Reqs /\ r \in Recs /\ Exists(r) /\ status[q] = "pending"
    BY <1>13, Subjects DEF SaveDecision, Active
  <2>1. /\ status' = [status EXCEPT ![q] = verdict[d]]
        /\ rec' = IF verdict[d] = "declined" THEN Drop(r, Open(r) \ {q}) ELSE rec
        /\ UNCHANGED <<about, item, forAlbum, stranded, edited>>
    BY <1>13 DEF SaveDecision, calls
  <2>2. \A t \in Temps : Open(t) \ {q} \subseteq Open(t)'
    BY <1>0, <2>0, <2>1 DEF Open, Pending, TypeOK
  <2>3. \A s \in Recs : rec'[s] = "pending" => rec[s] = "pending"
    BY <1>0, <2>1 DEF Drop, TypeOK
  <2>4. \A t \in Temps : q \in Open(t) => t = r
    BY DEF Open
  <2>5. CASE verdict[d] = "approved"
    <3>1. rec[r] # "pending" \/ r \in edited
      BY <1>13, <2>5 DEF IInv, Acted, SaveDecision
    <3>2. rec' = rec
      BY <2>1, <2>5
    <3> QED BY <1>1, <2>1, <2>2, <2>3, <2>4, <3>1, <3>2 DEF Recs
  <2>6. CASE verdict[d] = "declined"
    <3>1. r \in Temps /\ Open(r) \ {q} = {} => rec'[r] = "deleted"
      BY <1>0, <2>0, <2>1, <2>6, DropType
    <3> QED BY <1>1, <2>1, <2>2, <2>3, <2>4, <3>1 DEF Recs
  <2> QED BY <1>0, <2>5, <2>6 DEF TypeOK
<1>14. ASSUME Crash PROVE NoOrphan'
  <2>1. \A t \in Temps : Open(t)' = Open(t)
    BY <1>14 DEF Crash, rows, Open, Pending
  <2>2. \A c \in forAlbum : item[c] \in stranded'
    BY <1>14 DEF Crash
  <2> QED BY <1>1, <1>14, <2>1, <2>2 DEF Crash, rows
<1> QED BY <1>2, <1>3, <1>4, <1>7, <1>8, <1>9, <1>10, <1>11, <1>12, <1>13, <1>14
       DEF Next, CoolOff, Decide, ReadRequest, SaveFails, rows, calls, history, vars

\* An approval of q that succeeded and is about to be recorded.
Recording(q) == \E d \in Deciders : target[d] = q /\ decider[d] = "saving" /\ verdict[d] = "approved"

\* Every step keeps the recorded decisions what happened.
LEMMA DecisionStep == IInv /\ [Next]_vars => DecisionMatches'
<1> SUFFICES ASSUME IInv, [Next]_vars PROVE DecisionMatches'
  OBVIOUS
<1>0. /\ TypeOK /\ Deciding
      /\ \A q \in Reqs \ faulty :
           executed[q] = IF status[q] = "approved" \/ Recording(q) THEN 1 ELSE 0
  BY DEF IInv, DecisionMatches, Recording
<1>1. ASSUME \A q \in Reqs \ faulty' :
               executed'[q] = IF status'[q] = "approved" \/ Recording(q)' THEN 1 ELSE 0
      PROVE  DecisionMatches'
  BY <1>1 DEF DecisionMatches, Recording
<1>2. ASSUME UNCHANGED executed, faulty \subseteq faulty',
             \A q \in Reqs \ faulty' : status'[q] = "approved" \/ Recording(q)'
                                       <=> status[q] = "approved" \/ Recording(q)
      PROVE  DecisionMatches'
  BY <1>0, <1>1, <1>2
<1>3. ASSUME UNCHANGED <<admin, status, executed, faulty>> PROVE DecisionMatches'
  BY <1>2, <1>3 DEF admin, Recording
<1>4. ASSUME NEW c \in Clients, InsertRequest(c) PROVE DecisionMatches'
  <2>1. \A q \in Reqs : status'[q] = "approved" <=> status[q] = "approved"
    BY <1>0, <1>4 DEF InsertRequest, TypeOK
  <2> QED BY <1>2, <1>4, <2>1 DEF InsertRequest, admin, Recording
<1>5. ASSUME NEW d \in Deciders, NEW q \in Reqs, NEW v \in {"approved", "declined"},
             Decide(d, q, v)
      PROVE  DecisionMatches'
  <2>1. \A e \in Deciders : /\ decider'[e] = "saving" <=> decider[e] = "saving"
                            /\ decider[e] = "saving" => /\ target'[e] = target[e]
                                                        /\ verdict'[e] = verdict[e]
    BY <1>0, <1>5 DEF Decide, TypeOK
  <2> QED BY <1>2, <1>5, <2>1 DEF Decide, rows, history, Recording
\* who leaves without recording an approval
<1>6. ASSUME NEW d \in Deciders, Leave(d), decider[d] # "saving" \/ verdict[d] # "approved"
      PROVE  \A q \in Reqs : Recording(q)' <=> Recording(q)
  <2>1. \A e \in Deciders : /\ e # d => /\ decider'[e] = decider[e] /\ target'[e] = target[e]
                                        /\ verdict'[e] = verdict[e]
                            /\ decider'[d] = "idle"
    BY <1>0, <1>6 DEF Leave, TypeOK
  <2> QED BY <1>6, <2>1 DEF Recording
\* who is first and does not record an approval is why nobody does
<1>7. ASSUME NEW d \in Deciders, Active(d), decider[d] # "saving" \/ verdict[d] # "approved"
      PROVE  ~Recording(target[d])
  <2> SUFFICES ASSUME NEW e \in Deciders, target[e] = target[d], decider[e] = "saving",
                      verdict[e] = "approved"
               PROVE  FALSE
    BY DEF Recording
  <2> QED BY <1>7, Subjects, FirstIsOne DEF Active
<1>8. ASSUME NEW d \in Deciders, ReadRequest(d) PROVE DecisionMatches'
  <2>1. CASE Leave(d)
    BY <1>2, <1>6, <1>8, <2>1 DEF ReadRequest, rows, history
  <2>2. CASE ~Leave(d)
    <3>1. /\ UNCHANGED <<target, verdict, chain>>
          /\ decider' = [decider EXCEPT ![d] =
                           IF verdict[d] = "approved" THEN "executing" ELSE "saving"]
          /\ decider[d] = "waiting"
      BY <1>8, <2>2 DEF ReadRequest
    <3>2. \A e \in Deciders : decider'[e] = "saving" /\ verdict[e] = "approved"
                              <=> decider[e] = "saving" /\ verdict[e] = "approved"
      BY <1>0, <3>1 DEF TypeOK
    <3>3. \A q \in Reqs : Recording(q)' <=> Recording(q)
      BY <3>1, <3>2 DEF Recording
    <3> QED BY <1>2, <1>8, <3>3 DEF ReadRequest, rows, history
  <2> QED BY <2>1, <2>2
<1>9. ASSUME NEW d \in Deciders, Execute(d) PROVE DecisionMatches'
  <2>0. Active(d) /\ target[d] \in Reqs /\ status[target[d]] = "pending" /\ ~Recording(target[d])
    BY <1>7, <1>9, Subjects DEF Execute, Active
  <2>1. CASE Leave(d) /\ executed' = executed
    BY <1>2, <1>6, <1>9, <2>1 DEF Execute
  <2>2. CASE ~(Leave(d) /\ executed' = executed)
    <3>1. /\ executed' = [executed EXCEPT ![target[d]] = @ + 1]
          /\ decider' = [decider EXCEPT ![d] = "saving"]
          /\ UNCHANGED <<target, verdict, status, faulty>>
          /\ verdict[d] = "approved"
      BY <1>0, <1>9, <2>2 DEF Execute, Deciding
    <3> SUFFICES ASSUME NEW q \in Reqs \ faulty
                 PROVE  executed'[q] = IF status'[q] = "approved" \/ Recording(q)' THEN 1 ELSE 0
      BY <1>1, <3>1
    <3>2. CASE q = target[d]
      <4>1. executed[q] = 0
        BY <1>0, <2>0, <3>2
      <4>2. executed'[q] = 1
        BY <1>0, <3>1, <3>2, <4>1 DEF TypeOK
      <4>3. Recording(q)'
        BY <1>0, <3>1, <3>2 DEF Recording, TypeOK
      <4> QED BY <4>2, <4>3
    <3>3. CASE q # target[d]
      <4>1. executed'[q] = executed[q]
        BY <1>0, <3>1, <3>3 DEF TypeOK
      <4>2. Recording(q)' <=> Recording(q)
        BY <1>0, <3>1, <3>3 DEF Recording, TypeOK
      <4> QED BY <1>0, <3>1, <4>1, <4>2
    <3> QED BY <3>2, <3>3
  <2> QED BY <2>1, <2>2
<1>10. ASSUME NEW d \in Deciders, SaveDecision(d) \/ SaveFails(d),
              verdict[d] # "approved"
       PROVE  DecisionMatches'
  <2>0. Leave(d) /\ target[d] \in Reqs /\ executed' = executed /\ faulty' = faulty
    BY <1>10, Subjects DEF SaveDecision, SaveFails, Active
  <2>1. \A q \in Reqs : Recording(q)' <=> Recording(q)
    BY <1>6, <1>10, <2>0
  <2>2. \A q \in Reqs : status'[q] = "approved" <=> status[q] = "approved"
    BY <1>0, <1>10, <2>0 DEF SaveDecision, SaveFails, TypeOK, rows
  <2> QED BY <1>2, <2>0, <2>1, <2>2
<1>11. ASSUME NEW d \in Deciders, SaveDecision(d) \/ SaveFails(d), verdict[d] = "approved"
       PROVE  DecisionMatches'
  <2>0. Leave(d) /\ target[d] \in Reqs /\ executed' = executed /\ faulty \subseteq faulty'
    BY <1>11, Subjects DEF SaveDecision, SaveFails, Active
  <2>1. \A e \in Deciders : /\ e # d => /\ decider'[e] = decider[e] /\ target'[e] = target[e]
                                        /\ verdict'[e] = verdict[e]
                            /\ decider'[d] = "idle"
    BY <1>0, <2>0 DEF Leave, TypeOK
  <2>2. \A q \in Reqs : q # target[d] => (Recording(q)' <=> Recording(q)) /\ status'[q] = status[q]
    BY <1>0, <1>11, <2>0, <2>1 DEF Recording, SaveDecision, SaveFails, TypeOK, rows
  <2>3. target[d] \notin faulty' => status'[target[d]] = "approved"
    BY <1>0, <1>11, <2>0 DEF SaveDecision, SaveFails, TypeOK
  <2>4. Recording(target[d])
    BY <1>11 DEF Recording, SaveDecision, SaveFails
  <2> QED BY <1>2, <2>0, <2>2, <2>3, <2>4
<1>12. ASSUME Crash PROVE DecisionMatches'
  <2>1. \A q \in Reqs \ faulty' : ~Recording(q)
    BY <1>12 DEF Crash, Recording
  <2>2. \A q \in Reqs : ~Recording(q)'
    BY <1>12 DEF Crash, Recording
  <2> QED BY <1>2, <1>12, <2>1, <2>2 DEF Crash, rows
<1> QED BY <1>3, <1>4, <1>5, <1>8, <1>9, <1>10, <1>11, <1>12
       DEF Next, Ask, EnsureAlbum, CheckRequest, CreateFails, CleanupAlbum, SetStatus, CoolOff,
           rows, history, vars

\* Every step preserves the invariant.
LEMMA InvStep == IInv /\ [Next]_vars => IInv'
BY TypeStep, CallStep, DecidingStep, RowStep, ActedStep, OrphanStep, DecisionStep DEF IInv, RowInv

\* The invariant holds.
THEOREM Invariant == Spec => []IInv
BY InitInv, InvStep, PTL DEF Spec

-----------------------------------------------------------------------------
(* The theorems. *)

\* The types of the requests and of their calls, for any callers and any number of requests.
THEOREM TypeCorrect == Spec => []TypeOK
<1>1. IInv => TypeOK
  BY DEF IInv
<1> QED BY <1>1, Invariant, PTL

\* A request that waits for a decision has its recommendation (cleanupSynthetic).
THEOREM RowsStay == Spec => []PendingHasRow
<1>1. IInv => PendingHasRow
  BY DEF IInv
<1> QED BY <1>1, Invariant, PTL

\* The limit and the one open request per recommendation (create).
THEOREM LimitHolds == Spec => []RequestLimit
<1>1. IInv => RequestLimit
  BY DEF IInv
<1> QED BY <1>1, Invariant, PTL

\* No temporary row is left behind.
THEOREM NothingLeftBehind == Spec => []NoOrphan
<1>1. IInv => NoOrphan
  BY DEF IInv
<1> QED BY <1>1, Invariant, PTL

\* The recorded decision is what happened (withDecisionLock, decide).
THEOREM DecisionsTrue == Spec => []DecisionMatches
<1>1. IInv => DecisionMatches
  BY DEF IInv
<1> QED BY <1>1, Invariant, PTL

\* A decline keeps what it declined from being requested again during the cooldown.
THEOREM CooldownKept == Spec => CooldownHonoured
<1> DEFINE Step == \A q \in Reqs : status[q] = "none" /\ status'[q] = "pending" =>
                     \A p \in Reqs : status[p] = "declined" /\ Same(p, about'[q]) =>
                       p \in cooled \cup late
<1>1. IInv /\ Next => Step
  <2> SUFFICES ASSUME IInv, Next, NEW q \in Reqs, status[q] = "none", status'[q] = "pending",
                      NEW p \in Reqs, status[p] = "declined", Same(p, about'[q])
               PROVE  p \in cooled \cup late
    OBVIOUS
  <2>0. TypeOK
    BY DEF IInv
  <2>1. PICK c \in Clients : InsertRequest(c)
    <3>1. status' # status
      BY <2>0 DEF TypeOK
    <3>2. ASSUME NEW d \in Deciders, SaveDecision(d) PROVE FALSE
      <4>1. target[d] # q
        BY <3>2 DEF SaveDecision
      <4> QED BY <2>0, <3>2, <4>1 DEF SaveDecision, TypeOK
    <3> QED BY <3>1, <3>2 DEF Next, Ask, EnsureAlbum, CheckRequest, CreateFails, CleanupAlbum,
                 SetStatus, CoolOff, Decide, ReadRequest, Execute, SaveFails, Crash, rows
  <2>2. about'[q] = item[c]
    BY <2>0, <2>1 DEF InsertRequest, TypeOK
  <2>3. client[c] = "insert"
    BY <2>1 DEF InsertRequest
  <2> QED BY <2>2, <2>3 DEF IInv, Ready
<1>2. IInv /\ [Next]_vars => [Step]_vars
  BY <1>1
<1> QED BY <1>2, Invariant, PTL DEF Spec, CooldownHonoured

-----------------------------------------------------------------------------
(* The rows and the deciders implement RequestBook. *)

\* The book starts empty.
LEMMA InitBook == Init => Book!Init
BY DEF Init, Book!Init, Carried

\* A decider that does not save an approval, before or after, changes nothing in hand.
LEMMA CarriedKept ==
  ASSUME NEW d \in Deciders,
         \A e \in Deciders \ {d} : /\ decider'[e] = decider[e] /\ target'[e] = target[e]
                                   /\ verdict'[e] = verdict[e],
         ~(decider[d] = "saving" /\ verdict[d] = "approved"),
         ~(decider'[d] = "saving" /\ verdict'[d] = "approved")
  PROVE  Carried' = Carried
BY DEF Carried

\* A decider that leaves takes what it had in hand along.
LEMMA LeaveDrops ==
  ASSUME IInv, NEW d \in Deciders, Leave(d)
  PROVE  /\ decider[d] = "saving" => Carried' = Carried \ {target[d]}
         /\ decider[d] # "saving" => Carried' = Carried
         /\ decider[d] = "saving" => (target[d] \in Carried <=> verdict[d] = "approved")
<1>0. TypeOK /\ Deciding
  BY DEF IInv
<1>1. /\ decider'[d] = "idle"
      /\ \A e \in Deciders \ {d} : /\ decider'[e] = decider[e] /\ target'[e] = target[e]
                                   /\ verdict'[e] = verdict[e]
  BY <1>0 DEF Leave, TypeOK
<1>2. ASSUME decider[d] = "saving", NEW e \in Deciders, decider[e] = "saving", target[e] = target[d]
      PROVE  e = d
  BY <1>0, <1>2, FirstIsOne DEF Deciding, Active
<1>3. decider[d] = "saving" => target[d] \in Reqs
  BY <1>0 DEF Deciding
<1>4. decider[d] = "saving" => Carried' = Carried \ {target[d]}
  BY <1>1, <1>2, <1>3 DEF Carried
<1>5. decider[d] # "saving" => Carried' = Carried
  BY <1>1, CarriedKept
<1>6. decider[d] = "saving" => (target[d] \in Carried <=> verdict[d] = "approved")
  BY <1>2, <1>3 DEF Carried
<1> QED BY <1>4, <1>5, <1>6

\* What create inserts is a request the book admits.
LEMMA InsertBook ==
  ASSUME IInv, NEW c \in Clients, InsertRequest(c)
  PROVE  \E q \in Reqs : Book!Request(q, item[c])
<1>0. Ready /\ TypeOK
  BY DEF IInv
<1>1. PICK q \in Reqs : /\ status[q] = "none"
                        /\ status' = [status EXCEPT ![q] = "pending"]
                        /\ about' = [about EXCEPT ![q] = item[c]]
  BY DEF InsertRequest
<1>2. Open(item[c]) = {} /\ Cardinality(Pending) < Limit
  BY <1>0 DEF InsertRequest, Ready
<1>3. Book!Pending = Pending
  BY DEF Book!Pending, Pending
<1>4. \A p \in Pending : about[p] # item[c]
  BY <1>2 DEF Open
<1>5. Carried' = Carried
  BY DEF InsertRequest, admin, Carried
<1>6. \A S : Book!Cardinality(S) = Cardinality(S)
  BY DEF Book!Cardinality, Cardinality
<1>7. Book!Cardinality(Book!Pending) < Limit /\ \A p \in Book!Pending : about[p] # item[c]
  BY <1>2, <1>3, <1>4, <1>6
<1> QED BY <1>1, <1>5, <1>7 DEF Book!Request

\* The approval itself is carried out by one decider only.
LEMMA ExecuteBook ==
  ASSUME IInv, NEW d \in Deciders, Execute(d)
  PROVE  \/ \E q \in Reqs : Book!CarryOut(q)
         \/ UNCHANGED <<status, about, Carried>>
<1> DEFINE q == target[d]
<1>0. TypeOK /\ Deciding
  BY DEF IInv
<1>1. q \in Reqs /\ status[q] = "pending" /\ verdict[d] = "approved" /\ decider[d] = "executing"
  BY <1>0 DEF Execute, Deciding, Active
<1>2. UNCHANGED <<status, about>>
  BY DEF Execute
<1>3. CASE Leave(d)
  BY <1>1, <1>2, <1>3, LeaveDrops
<1>4. CASE decider' = [decider EXCEPT ![d] = "saving"] /\ UNCHANGED <<target, verdict>>
  <2>1. ASSUME NEW e \in Deciders, decider[e] = "saving" PROVE target[e] # q
    <3>1. e # d
      BY <1>1, <2>1
    <3> QED BY <1>0, <1>1, <2>1, <3>1, FirstIsOne DEF Deciding, Active
  <2>2. q \notin Carried
    BY <2>1 DEF Carried
  <2>3. Carried' = Carried \cup {q}
    BY <1>0, <1>1, <1>4 DEF Carried, TypeOK
  <2> QED BY <1>1, <1>2, <2>2, <2>3 DEF Book!CarryOut, Book!Pending
<1> QED BY <1>3, <1>4 DEF Execute

\* A decision is recorded as it was carried out.
LEMMA SaveBook ==
  ASSUME IInv, NEW d \in Deciders, SaveDecision(d)
  PROVE  \E q \in Reqs : Book!Approve(q) \/ Book!Decline(q)
<1> DEFINE q == target[d]
<1>1. /\ decider[d] = "saving" /\ status[q] = "pending" /\ Leave(d)
      /\ status' = [status EXCEPT ![q] = verdict[d]] /\ UNCHANGED about
  BY DEF SaveDecision
<1>2. q \in Reqs /\ verdict[d] \in {"approved", "declined"}
  BY <1>1 DEF IInv, TypeOK, Deciding
<1>3. Carried' = Carried \ {q} /\ (q \in Carried <=> verdict[d] = "approved")
  BY <1>1, LeaveDrops
<1>4. CASE verdict[d] = "approved"
  BY <1>1, <1>2, <1>3, <1>4 DEF Book!Approve
<1>5. CASE verdict[d] = "declined"
  <2>1. q \in Book!Pending \ Carried /\ Carried' = Carried
    BY <1>1, <1>2, <1>3, <1>5 DEF Book!Pending
  <2> QED BY <1>1, <1>2, <1>5, <2>1 DEF Book!Decline
<1> QED BY <1>2, <1>4, <1>5

\* Every step is a step of the book or is not seen in it.
LEMMA BookStep ==
  ASSUME IInv, [Next]_vars
  PROVE  Book!Next \/ UNCHANGED <<status, about, Carried>>
<1>0. TypeOK
  BY DEF IInv
<1>1. ASSUME UNCHANGED <<status, about, admin>> PROVE UNCHANGED <<status, about, Carried>>
  BY <1>1 DEF admin, Carried
<1>2. ASSUME NEW c \in Clients,
             \/ \E r \in Recs : Ask(c, r) \/ EnsureAlbum(c, r)
             \/ CheckRequest(c) \/ CreateFails(c) \/ CleanupAlbum(c)
      PROVE  UNCHANGED <<status, about, Carried>>
  BY <1>1, <1>2 DEF Ask, EnsureAlbum, CheckRequest, CreateFails, CleanupAlbum, rows
<1>3. ASSUME NEW c \in Clients, InsertRequest(c) PROVE Book!Next
  <2>1. item[c] \in Recs
    BY <1>3 DEF IInv, Awaited, InsertRequest
  <2> QED BY <1>3, <2>1, InsertBook DEF Book!Next
<1>4. ASSUME NEW r \in Recs, NEW s, SetStatus(r, s) PROVE UNCHANGED <<status, about, Carried>>
  BY <1>1, <1>4 DEF SetStatus
<1>5. ASSUME NEW q \in Reqs, CoolOff(q) PROVE UNCHANGED <<status, about, Carried>>
  BY <1>1, <1>5 DEF CoolOff
<1>6. ASSUME NEW d \in Deciders, NEW q \in Reqs, NEW v, Decide(d, q, v)
      PROVE  UNCHANGED <<status, about, Carried>>
  <2>1. /\ decider[d] = "idle" /\ decider'[d] = "waiting"
        /\ \A e \in Deciders \ {d} : /\ decider'[e] = decider[e] /\ target'[e] = target[e]
                                     /\ verdict'[e] = verdict[e]
    BY <1>0, <1>6 DEF Decide, TypeOK
  <2> QED BY <1>6, <2>1, CarriedKept DEF Decide, rows
<1>7. ASSUME NEW d \in Deciders, ReadRequest(d) PROVE UNCHANGED <<status, about, Carried>>
  <2>1. CASE Leave(d)
    BY <1>7, <2>1, LeaveDrops DEF ReadRequest, rows
  <2>2. CASE ~Leave(d)
    <3>1. /\ decider[d] = "waiting" /\ verdict'[d] = verdict[d]
          /\ decider'[d] = "saving" => verdict[d] # "approved"
          /\ \A e \in Deciders \ {d} : /\ decider'[e] = decider[e] /\ target'[e] = target[e]
                                       /\ verdict'[e] = verdict[e]
      BY <1>0, <1>7, <2>2 DEF ReadRequest, TypeOK
    <3> QED BY <1>7, <3>1, CarriedKept DEF ReadRequest, rows
  <2> QED BY <2>1, <2>2
<1>8. ASSUME NEW d \in Deciders, Execute(d) PROVE Book!Next \/ UNCHANGED <<status, about, Carried>>
  BY <1>8, ExecuteBook DEF Book!Next
<1>9. ASSUME NEW d \in Deciders, SaveDecision(d) PROVE Book!Next
  BY <1>9, SaveBook DEF Book!Next
<1>10. ASSUME NEW d \in Deciders, SaveFails(d) PROVE Book!Next
  <2>1. target[d] \in Reqs /\ Carried' = Carried \ {target[d]} /\ UNCHANGED <<status, about>>
    BY <1>10, LeaveDrops DEF SaveFails, rows, IInv, Deciding
  <2> QED BY <2>1 DEF Book!Next, Book!Lose
<1>11. CASE Crash
  <2>1. Carried' = Carried \ Reqs /\ UNCHANGED <<status, about>>
    BY <1>11 DEF Crash, Carried, rows
  <2> QED BY <2>1 DEF Book!Next, Book!Lose
<1>12. CASE UNCHANGED vars
  BY <1>1, <1>12 DEF vars, rows
<1> QED BY <1>2, <1>3, <1>4, <1>5, <1>6, <1>7, <1>8, <1>9, <1>10, <1>11, <1>12 DEF Next

\* The requests of create and decide are a book of requests, for any recommendations,
\* callers and limit: nothing that was carried out is carried out again or declined unless
\* its record was lost, and no decision is taken back.
THEOREM ImplementsBook == Spec => ImplementsRequestBook
<1>1. IInv /\ [Next]_vars => [Book!Next]_<<status, about, Carried>>
  BY BookStep
<1> QED BY InitBook, Invariant, <1>1, PTL DEF Spec, ImplementsRequestBook, Book!Spec, Book!book
=============================================================================
