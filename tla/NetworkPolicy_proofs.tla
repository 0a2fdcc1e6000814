------------------------ MODULE NetworkPolicy_proofs ------------------------
(***************************************************************************)
(* Proofs about NetworkPolicy: types, ports that are always accounted for, *)
(* and the policy as a book of which every step writes one page.           *)
(***************************************************************************)
EXTENDS NetworkPolicy, TLAPS

---------------------------------------------------------------------------
(* The values a policy goes through.                                       *)

LEMMA PortsTyped == \A E \in SUBSET Entry : Ports(E) \subseteq Port
BY DEF Ports, Port

LEMMA NoPolicyTyped == \A n \in Nat : NoPolicy(n) \in PolicyState
BY DEF NoPolicy, PolicyState

LEMMA UpdatedTyped ==
    ASSUME NEW p \in PolicyState, NEW k \in Key, NEW E \in SUBSET Entry, NEW c \in Cidr
    PROVE  Updated(p, k, E, c) \in PolicyState
<1>1. (p.ports \ Ports(p.map[k] \ E)) \cup Ports(E) \in SUBSET Port
  BY PortsTyped DEF PolicyState
<1>2. [p.map EXCEPT ![k] = E] \in [Key -> SUBSET Entry]
  BY DEF PolicyState
<1>3. QED
  BY <1>1, <1>2 DEF PolicyState, Updated

LEMMA RemovedTyped ==
    ASSUME NEW p \in PolicyState, NEW k \in Key
    PROVE  Removed(p, k) \in PolicyState
<1>1. [p.map EXCEPT ![k] = {}] \in [Key -> SUBSET Entry]
  BY DEF PolicyState
<1>2. QED
  BY <1>1 DEF PolicyState, Removed

(* A record says which ports are open, and Stored changes the version only. *)
LEMMA RemovedMap ==
    ASSUME NEW p \in PolicyState, NEW k \in Key
    PROVE  /\ Removed(p, k).map = [p.map EXCEPT ![k] = {}]
           /\ Removed(p, k).ports = p.ports \ Ports(p.map[k])
           /\ Removed(p, k).exists = p.exists
           /\ Removed(p, k).rv = p.rv
BY DEF PolicyState, Removed

LEMMA StoredTyped ==
    ASSUME NEW p \in PolicyState, policy \in PolicyState
    PROVE  /\ Stored(p) \in PolicyState
           /\ Stored(p).ports = p.ports /\ Stored(p).map = p.map
           /\ Stored(p).exists = p.exists
           /\ Stored(p) = policy \/ Stored(p).rv = policy.rv + 1
BY DEF PolicyState, Stored

LEMMA RevisedTyped ==
    ASSUME TypeOK, NEW m \in Manager, wk[m].pc = "put"
    PROVE  Revised(m) \in PolicyState
<1>1. /\ wk[m].snap \in PolicyState /\ wk[m].want.ports \in SUBSET Entry
      /\ wk[m].s \in Service
  BY DEF TypeOK, WorkerState, Declaration
<1>2. KeyOf[wk[m].s] \in Key
  BY <1>1, PolicyAssumption
<1>3. CidrOf[m] \in Cidr
  BY DEF Cidr
<1>4. QED
  BY <1>1, <1>2, <1>3, UpdatedTyped, RemovedTyped DEF Revised

LEMMA FirstTyped ==
    ASSUME TypeOK, NEW m \in Manager, wk[m].pc = "create"
    PROVE  /\ FirstPolicy(m) \in PolicyState
           /\ FirstPolicy(m).exists
           /\ FirstPolicy(m).rv = policy.rv + 1
           /\ FirstPolicy(m).ports = Ports(wk[m].want.ports)
           /\ FirstPolicy(m).map =
                [l \in Key |-> IF l = KeyOf[wk[m].s] THEN wk[m].want.ports ELSE {}]
<1>1. /\ wk[m].want.ports \in SUBSET Entry /\ wk[m].s \in Service /\ policy.rv \in Nat
  BY DEF TypeOK, WorkerState, Declaration, PolicyState
<1>2. KeyOf[wk[m].s] \in Key /\ CidrOf[m] \in Cidr
  BY <1>1, PolicyAssumption DEF Cidr
<1>3. Ports(wk[m].want.ports) \in SUBSET Port
  BY <1>1, PortsTyped
<1>4. QED
  BY <1>1, <1>2, <1>3 DEF FirstPolicy, PolicyState

---------------------------------------------------------------------------
(* Types.                                                                  *)

LEMMA IdleTyped == Idle \in WorkerState /\ Idle.pc = "idle"
BY NoPolicyTyped, PolicyAssumption DEF Idle, WorkerState, Declaration, NoPorts

(* The worker's part of TypeOK.                                            *)
Workers == /\ wk \in [Manager -> WorkerState]
           /\ \A m \in Manager : wk[m].pc # "idle" => wk[m].s \in Service

LEMMA DoneTyped ==
    ASSUME TypeOK, NEW m \in Manager, Done(m)
    PROVE  Workers' /\ queue' = queue
BY IdleTyped DEF Done, Workers, TypeOK

LEMMA FailTyped ==
    ASSUME TypeOK, NEW m \in Manager, Fail(m), wk[m].s \in Service
    PROVE  Workers' /\ queue' \in [Manager -> SUBSET Service]
BY IdleTyped DEF Fail, Workers, TypeOK

LEMMA GotoTyped ==
    ASSUME TypeOK, NEW m \in Manager, NEW r \in WorkerState, r.s \in Service, Goto(m, r)
    PROVE  Workers' /\ queue' = queue
BY DEF Goto, Workers, TypeOK

LEMMA SpendTyped ==
    ASSUME TypeOK, NEW kind \in EventKinds \ {"any"}, Spend(kind)
    PROVE  left' \in [EventKinds -> Nat]
<1>1. left \in [EventKinds -> Nat] /\ "any" \in EventKinds
  BY DEF TypeOK, EventKinds
<1>2. /\ left[kind] - 1 \in Nat /\ left["any"] - 1 \in Nat
      /\ left' = [left EXCEPT ![kind] = @ - 1, !["any"] = @ - 1]
  BY <1>1 DEF Spend
<1>3. QED
  BY <1>1, <1>2

LEMMA LoseTyped ==
    ASSUME TypeOK, NEW S \in SUBSET Service, Lose(S)
    PROVE  lost' \in SUBSET Service
BY DEF TypeOK, Lose

LEMMA LostTyped ==
    ASSUME TypeOK, [Next]_vars
    PROVE  lost' \in SUBSET Service
<1>t. lost \in SUBSET Service
  BY DEF TypeOK
<1>d. Discard => lost' \in SUBSET Service
  BY LoseTyped DEF Discard
<1>1. ASSUME NEW m \in Manager, NEW s \in Service, Reconcile(m, s) PROVE lost' = lost
  BY <1>1 DEF Reconcile
<1>2. ASSUME NEW m \in Manager,
             Probe(m) \/ CreatePolicy(m) \/ GetPolicy(m) \/ PutPolicy(m) \/ LookForPolicy(m)
      PROVE  lost' = lost
  BY <1>2 DEF Probe, CreatePolicy, GetPolicy, PutPolicy, LookForPolicy
<1>3. ASSUME NEW m \in Manager, DeletePolicy(m) \/ ApiError(m) PROVE lost' \in SUBSET Service
  BY <1>3, <1>t, <1>d DEF DeletePolicy, ApiError
<1>4. ASSUME NEW s \in Service, Declare(s) \/ DeleteService(s) PROVE lost' \in SUBSET Service
  BY <1>4, LoseTyped DEF Declare, DeleteService, Notify
<1>5. ASSUME TouchPolicy \/ DropPolicy PROVE lost' \in SUBSET Service
  BY <1>5, <1>t, <1>d DEF TouchPolicy, DropPolicy
<1>6. ASSUME NEW m \in Manager, StartManager(m) \/ StopManager(m) PROVE lost' \in SUBSET Service
  <2>1. StartManager(m) => Lose({})
    BY DEF StartManager
  <2>2. StopManager(m) => Lose({s \in Service : Attended(s)})
    BY DEF StopManager
  <2>3. QED
    BY <1>6, <2>1, <2>2, LoseTyped
<1>7. CASE UNCHANGED vars
  BY <1>7, <1>t DEF vars
<1>8. QED
  BY <1>t, <1>1, <1>2, <1>3, <1>4, <1>5, <1>6, <1>7 DEF Next, Work, Environment

LEMMA EarlyTyped ==
    ASSUME TypeOK, [Next]_vars
    PROVE  early' \in SUBSET Service
<1>t. early \in SUBSET Service
  BY DEF TypeOK
<1>r. Reattend => early' \in SUBSET Service
  BY <1>t DEF Reattend
<1>1. ASSUME NEW m \in Manager, NEW s \in Service, Reconcile(m, s) PROVE early' = early
  BY <1>1 DEF Reconcile
<1>2. ASSUME NEW m \in Manager, Work(m) \/ ApiError(m) PROVE early' = early
  BY <1>2 DEF Work, Probe, CreatePolicy, GetPolicy, PutPolicy, LookForPolicy, DeletePolicy, ApiError
<1>3. ASSUME NEW s \in Service, Declare(s) \/ DeleteService(s) PROVE Reattend
  BY <1>3 DEF Declare, DeleteService, Notify
<1>4. ASSUME TouchPolicy \/ DropPolicy PROVE early' = early
  BY <1>4 DEF TouchPolicy, DropPolicy
<1>5. ASSUME NEW m \in Manager, StartManager(m) PROVE Reattend
  BY <1>5 DEF StartManager
<1>6. ASSUME NEW m \in Manager, StopManager(m) PROVE early' \in SUBSET Service
  <2>1. early' = {s \in Service : ~CidrInForce' /\ ~Attended(s)'}
    BY <1>6 DEF StopManager
  <2>2. QED
    BY <2>1
<1>7. CASE UNCHANGED vars
  BY <1>7, <1>t DEF vars
<1>8. QED
  BY <1>t, <1>r, <1>1, <1>2, <1>3, <1>4, <1>5, <1>6, <1>7 DEF Next, Environment

LEMMA InitTyped == Init => TypeOK
BY IdleTyped, PolicyAssumption, InitPolicyAssumption
   DEF Init, TypeOK, ServiceState, Gone, NoPorts, Declaration

LEMMA NextTyped == TypeOK /\ [Next]_vars => TypeOK'
<1> SUFFICES ASSUME TypeOK, [Next]_vars PROVE TypeOK'
  OBVIOUS
<1> USE PolicyAssumption
<1>t. /\ svc \in [Service -> ServiceState] /\ policy \in PolicyState
      /\ up \in SUBSET Manager /\ queue \in [Manager -> SUBSET Service]
      /\ wk \in [Manager -> WorkerState] /\ left \in [EventKinds -> Nat]
      /\ Workers
  BY DEF TypeOK, Workers
<1>r. policy.rv \in Nat
  BY <1>t DEF PolicyState
<1>l. lost' \in SUBSET Service /\ early' \in SUBSET Service
  BY LostTyped, EarlyTyped
<1>q. ASSUME Workers', queue' \in [Manager -> SUBSET Service], UNCHANGED <<svc, up, left>>,
             policy' \in PolicyState
      PROVE  TypeOK'
  BY <1>t, <1>q, <1>l DEF TypeOK, Workers
<1>1. ASSUME NEW m \in Manager, NEW s \in Service, Reconcile(m, s) PROVE TypeOK'
  <2> DEFINE r == [Idle EXCEPT
                !.pc = IF m \notin Enabled THEN "delGet"
                       ELSE IF svc[s].live THEN "probe" ELSE "get",
                !.job = IF svc[s].live THEN "upsert" ELSE "remove",
                !.s = s, !.want = svc[s].decl]
  <2>1. svc[s].decl \in Declaration
    BY <1>t DEF ServiceState
  <2>2. r \in WorkerState /\ r.s = s
    BY <2>1, IdleTyped DEF WorkerState
  <2>3. wk' = [wk EXCEPT ![m] = r]
    BY <1>1 DEF Reconcile
  <2> HIDE DEF r
  <2>4. Workers'
    BY <2>2, <2>3, <1>t DEF Workers
  <2>5. queue' \in [Manager -> SUBSET Service] /\ UNCHANGED <<svc, up, left, policy>>
    BY <1>1, <1>t DEF Reconcile
  <2>6. QED
    BY <2>4, <2>5, <1>q, <1>t
<1>2. ASSUME NEW m \in Manager, Probe(m) PROVE TypeOK'
  <2>1. wk[m].s \in Service /\ wk[m] \in WorkerState /\ UNCHANGED <<svc, policy, up, left>>
    BY <1>2, <1>t DEF Probe, Workers
  <2>2. \A pc \in {"get", "create"} :
           [wk[m] EXCEPT !.pc = pc] \in WorkerState /\ [wk[m] EXCEPT !.pc = pc].s \in Service
    BY <2>1 DEF WorkerState
  <2>3. Workers' /\ queue' \in [Manager -> SUBSET Service]
    BY <1>2, <2>1, <2>2, <1>t, DoneTyped, FailTyped, GotoTyped DEF Probe
  <2>4. QED
    BY <2>1, <2>3, <1>q, <1>t
<1>3. ASSUME NEW m \in Manager, CreatePolicy(m) PROVE TypeOK'
  <2>1. wk[m].s \in Service /\ UNCHANGED <<svc, up, left>>
    BY <1>3, <1>t DEF CreatePolicy, Workers
  <2>2. Workers' /\ queue' \in [Manager -> SUBSET Service]
    BY <1>3, <2>1, <1>t, DoneTyped, FailTyped DEF CreatePolicy
  <2>3. policy' \in PolicyState
    BY <1>3, <1>t, FirstTyped DEF CreatePolicy
  <2>4. QED
    BY <2>1, <2>2, <2>3, <1>q
<1>4. ASSUME NEW m \in Manager, GetPolicy(m) PROVE TypeOK'
  <2>1. wk[m].s \in Service /\ wk[m] \in WorkerState /\ UNCHANGED <<svc, policy, up, left>>
    BY <1>4, <1>t DEF GetPolicy, Workers
  <2>2. /\ [wk[m] EXCEPT !.pc = "put", !.snap = policy] \in WorkerState
        /\ [wk[m] EXCEPT !.pc = "put", !.snap = policy].s \in Service
    BY <2>1, <1>t DEF WorkerState
  <2>3. Workers' /\ queue' \in [Manager -> SUBSET Service]
    BY <1>4, <2>1, <2>2, <1>t, DoneTyped, FailTyped, GotoTyped DEF GetPolicy
  <2>4. QED
    BY <2>1, <2>3, <1>q, <1>t
<1>5. ASSUME NEW m \in Manager, PutPolicy(m) PROVE TypeOK'
  <2>1. wk[m].s \in Service /\ wk[m] \in WorkerState /\ UNCHANGED <<svc, up, left>>
    BY <1>5, <1>t DEF PutPolicy, Workers
  <2> DEFINE r == [wk[m] EXCEPT !.pc = "get", !.snap = NoPolicy(0), !.try = @ + 1]
  <2>n. NoPolicy(0) \in PolicyState
    BY NoPolicyTyped
  <2>p. wk[m].try \in 1 .. Attempts
    BY <2>1 DEF WorkerState
  <2>i. wk[m].try # Attempts => wk[m].try + 1 \in 1 .. Attempts
    BY <2>p
  <2>2. wk[m].try # Attempts => r \in WorkerState /\ r.s \in Service
    BY <2>1, <2>n, <2>i DEF WorkerState
  <2>3. Retry(m) => (wk[m].try = Attempts /\ Fail(m)) \/ (wk[m].try # Attempts /\ Goto(m, r))
    BY DEF Retry
  <2> HIDE DEF r
  <2>4. Workers' /\ queue' \in [Manager -> SUBSET Service]
    BY <1>5, <2>1, <2>2, <2>3, <1>t, DoneTyped, FailTyped, GotoTyped DEF PutPolicy
  <2>5. policy' \in PolicyState
    BY <1>5, <1>t, RevisedTyped, StoredTyped DEF PutPolicy
  <2>6. QED
    BY <2>1, <2>4, <2>5, <1>q
<1>6. ASSUME NEW m \in Manager, LookForPolicy(m) PROVE TypeOK'
  <2>1. wk[m].s \in Service /\ wk[m] \in WorkerState /\ UNCHANGED <<svc, policy, up, left>>
    BY <1>6, <1>t DEF LookForPolicy, Workers
  <2>2. /\ [wk[m] EXCEPT !.pc = "delete"] \in WorkerState
        /\ [wk[m] EXCEPT !.pc = "delete"].s \in Service
    BY <2>1 DEF WorkerState
  <2>3. Workers' /\ queue' \in [Manager -> SUBSET Service]
    BY <1>6, <2>2, <1>t, DoneTyped, GotoTyped DEF LookForPolicy
  <2>4. QED
    BY <2>1, <2>3, <1>q, <1>t
<1>7. ASSUME NEW m \in Manager, DeletePolicy(m) PROVE TypeOK'
  <2>1. Workers' /\ queue' \in [Manager -> SUBSET Service] /\ UNCHANGED <<svc, up, left>>
    BY <1>7, <1>t, DoneTyped DEF DeletePolicy
  <2>2. policy' \in PolicyState
    BY <1>7, <1>t, <1>r, NoPolicyTyped DEF DeletePolicy, Discard
  <2>3. QED
    BY <2>1, <2>2, <1>q
<1>8. ASSUME NEW s \in Service, Declare(s) \/ DeleteService(s) PROVE TypeOK'
  <2>1. svc' \in [Service -> ServiceState]
    <3>1. CASE Declare(s)
      <4>1. PICK d \in Declarations[s] : svc' = [svc EXCEPT ![s] = [live |-> TRUE, decl |-> d]]
        BY <3>1 DEF Declare
      <4>2. d \in Declaration
        OBVIOUS
      <4>3. [live |-> TRUE, decl |-> d] \in ServiceState
        BY <4>2 DEF ServiceState
      <4>4. QED
        BY <4>1, <4>3, <1>t
    <3>2. CASE DeleteService(s)
      <4>1. Gone \in ServiceState
        BY DEF Gone, NoPorts, ServiceState, Declaration
      <4>2. svc' = [svc EXCEPT ![s] = Gone]
        BY <3>2 DEF DeleteService
      <4>3. QED
        BY <4>1, <4>2, <1>t
    <3>3. QED
      BY <1>8, <3>1, <3>2
  <2>2. queue' \in [Manager -> SUBSET Service]
    BY <1>8, <1>t DEF Declare, DeleteService, Notify
  <2>3. left' \in [EventKinds -> Nat] /\ UNCHANGED <<policy, up, wk>>
    BY <1>8, SpendTyped DEF Declare, DeleteService, Notify, EventKinds
  <2>4. QED
    BY <2>1, <2>2, <2>3, <1>t, <1>l DEF TypeOK, Workers
<1>9. ASSUME TouchPolicy \/ DropPolicy PROVE TypeOK'
  <2>1. [policy EXCEPT !.rv = @ + 1] \in PolicyState
    BY <1>t DEF PolicyState
  <2>2. policy' \in PolicyState
    BY <1>9, <2>1, <1>r, NoPolicyTyped DEF TouchPolicy, DropPolicy, Discard
  <2>3. left' \in [EventKinds -> Nat] /\ UNCHANGED <<svc, up, queue, wk>>
    BY <1>9, SpendTyped DEF TouchPolicy, DropPolicy, EventKinds
  <2>4. QED
    BY <2>2, <2>3, <1>t, <1>l DEF TypeOK, Workers
<1>10. ASSUME NEW m \in Manager, ApiError(m) PROVE TypeOK'
  <2>1. wk[m].s \in Service /\ UNCHANGED <<svc, up>>
    BY <1>10, <1>t DEF ApiError, Workers
  <2>2. Workers' /\ queue' \in [Manager -> SUBSET Service]
    BY <1>10, <2>1, <1>t, DoneTyped, FailTyped DEF ApiError
  <2>3. policy' \in PolicyState
    <3>1. wk[m].pc = "create" => FirstPolicy(m) \in PolicyState
      BY FirstTyped
    <3>2. wk[m].pc = "put" => Stored(Revised(m)) \in PolicyState
      BY RevisedTyped, StoredTyped, <1>t
    <3>3. NoPolicy(policy.rv + 1) \in PolicyState
      BY <1>r, NoPolicyTyped
    <3>4. QED
      BY <1>10, <1>t, <3>1, <3>2, <3>3 DEF ApiError, Discard
  <2>4. left' \in [EventKinds -> Nat]
    BY <1>10, SpendTyped DEF ApiError, EventKinds
  <2>5. QED
    BY <2>1, <2>2, <2>3, <2>4, <1>t, <1>l DEF TypeOK, Workers
<1>11. ASSUME NEW m \in Manager, StartManager(m) \/ StopManager(m) PROVE TypeOK'
  <2>1. up' \in SUBSET Manager /\ queue' \in [Manager -> SUBSET Service]
    BY <1>11, <1>t DEF StartManager, StopManager
  <2>2. Workers'
    BY <1>11, <1>t, IdleTyped DEF StartManager, StopManager, Workers
  <2>3. left' \in [EventKinds -> Nat] /\ UNCHANGED <<svc, policy>>
    BY <1>11, SpendTyped DEF StartManager, StopManager, EventKinds
  <2>4. QED
    BY <2>1, <2>2, <2>3, <1>t, <1>l DEF TypeOK, Workers
<1>12. CASE UNCHANGED vars
  BY <1>12 DEF vars, TypeOK
<1>13. QED
  BY <1>1, <1>2, <1>3, <1>4, <1>5, <1>6, <1>7, <1>8, <1>9, <1>10, <1>11, <1>12
     DEF Next, Work, Environment

(* Type correctness: whatever the managers and their surroundings do, every *)
(* policy they write is well formed and OnConflict stays within its bound.   *)
THEOREM PolicyTypeCorrect == Spec => []TypeOK
<1>1. QED
  BY InitTyped, NextTyped, PTL DEF Spec

---------------------------------------------------------------------------
(* What a step does to the policy and to the copies the workers hold.      *)

LEMMA RetryForm ==
    ASSUME NEW m, Retry(m)
    PROVE  \/ wk' = [wk EXCEPT ![m] = Idle]
           \/ wk' = [wk EXCEPT ![m] =
                [wk[m] EXCEPT !.pc = "get", !.snap = NoPolicy(0), !.try = @ + 1]]
BY DEF Retry, Fail, Goto

LEMMA PolicySteps ==
    ASSUME TypeOK, [Next]_vars
    PROVE  \/ policy' = policy
           \/ policy' = NoPolicy(policy.rv + 1)
           \/ policy' = [policy EXCEPT !.rv = @ + 1]
           \/ \E m \in Manager :
                 wk[m].pc = "create" /\ ~policy.exists /\ policy' = FirstPolicy(m)
           \/ \E m \in Manager :
                 /\ wk[m].pc = "put" /\ policy.exists /\ policy.rv = wk[m].snap.rv
                 /\ policy' = Stored(Revised(m))
<1>1. ASSUME NEW m \in Manager, NEW s \in Service, Reconcile(m, s) PROVE policy' = policy
  BY <1>1 DEF Reconcile
<1>2. ASSUME NEW m \in Manager, Probe(m) \/ GetPolicy(m) \/ LookForPolicy(m) PROVE policy' = policy
  BY <1>2 DEF Probe, GetPolicy, LookForPolicy
<1>3. ASSUME NEW m \in Manager, CreatePolicy(m)
      PROVE  \/ policy' = policy
             \/ wk[m].pc = "create" /\ ~policy.exists /\ policy' = FirstPolicy(m)
  BY <1>3 DEF CreatePolicy
<1>4. ASSUME NEW m \in Manager, PutPolicy(m)
      PROVE  \/ policy' = policy
             \/ /\ wk[m].pc = "put" /\ policy.exists /\ policy.rv = wk[m].snap.rv
                /\ policy' = Stored(Revised(m))
  BY <1>4 DEF PutPolicy, Conflict
<1>5. ASSUME NEW m \in Manager, DeletePolicy(m)
      PROVE  policy' = policy \/ policy' = NoPolicy(policy.rv + 1)
  BY <1>5 DEF DeletePolicy, Discard
<1>6. ASSUME NEW s \in Service, Declare(s) \/ DeleteService(s) PROVE policy' = policy
  BY <1>6 DEF Declare, DeleteService, Notify
<1>7. ASSUME TouchPolicy \/ DropPolicy
      PROVE  policy' = [policy EXCEPT !.rv = @ + 1] \/ policy' = NoPolicy(policy.rv + 1)
  BY <1>7 DEF TouchPolicy, DropPolicy, Discard
<1>8. ASSUME NEW m \in Manager, ApiError(m)
      PROVE  \/ policy' = policy
             \/ policy' = NoPolicy(policy.rv + 1)
             \/ wk[m].pc = "create" /\ ~policy.exists /\ policy' = FirstPolicy(m)
             \/ /\ wk[m].pc = "put" /\ policy.exists /\ policy.rv = wk[m].snap.rv
                /\ policy' = Stored(Revised(m))
  BY <1>8 DEF ApiError, Conflict, Discard
<1>9. ASSUME NEW m \in Manager, StartManager(m) \/ StopManager(m) PROVE policy' = policy
  BY <1>9 DEF StartManager, StopManager
<1>10. CASE UNCHANGED vars
  BY <1>10 DEF vars
<1>11. QED
  BY <1>1, <1>2, <1>3, <1>4, <1>5, <1>6, <1>7, <1>8, <1>9, <1>10 DEF Next, Work, Environment

(* A copy is held on to, or it is the policy of this very step.            *)
Held(m) == wk'[m] = wk[m] \/ (wk'[m].snap = policy /\ policy' = policy)

LEMMA CopySteps ==
    ASSUME TypeOK, [Next]_vars, NEW n \in Manager, wk'[n].pc = "put"
    PROVE  Held(n)
<1>t. wk \in [Manager -> WorkerState] /\ wk[n] \in WorkerState
  BY DEF TypeOK
<1>i. Idle.pc = "idle"
  BY IdleTyped
<1>d. ASSUME NEW m \in Manager, Done(m) \/ Fail(m) PROVE wk'[n] = wk[n]
  BY <1>d, <1>t, <1>i DEF Done, Fail
<1>g. ASSUME NEW m \in Manager, NEW r \in WorkerState, r.pc # "put", Goto(m, r)
      PROVE  wk'[n] = wk[n]
  BY <1>g, <1>t DEF Goto
<1>p. \A m \in Manager : \A pc \in {"get", "create", "delete"} :
         /\ [wk[m] EXCEPT !.pc = pc] \in WorkerState
         /\ [wk[m] EXCEPT !.pc = pc].pc # "put"
  BY <1>t DEF WorkerState
<1>1. ASSUME NEW m \in Manager, NEW s \in Service, Reconcile(m, s) PROVE wk'[n] = wk[n]
  <2> DEFINE r == [Idle EXCEPT
                !.pc = IF m \notin Enabled THEN "delGet"
                       ELSE IF svc[s].live THEN "probe" ELSE "get",
                !.job = IF svc[s].live THEN "upsert" ELSE "remove",
                !.s = s, !.want = svc[s].decl]
  <2>1. wk' = [wk EXCEPT ![m] = r]
    BY <1>1 DEF Reconcile
  <2>2. r.pc # "put"
    BY IdleTyped DEF WorkerState
  <2> HIDE DEF r
  <2>3. QED
    BY <2>1, <2>2, <1>t
<1>2. ASSUME NEW m \in Manager, Probe(m) PROVE wk'[n] = wk[n]
  BY <1>2, <1>d, <1>g, <1>p DEF Probe
<1>3. ASSUME NEW m \in Manager, GetPolicy(m) PROVE Held(n)
  <2>1. CASE Goto(m, [wk[m] EXCEPT !.pc = "put", !.snap = policy])
    <3>1. [wk[m] EXCEPT !.pc = "put", !.snap = policy].snap = policy
      BY <1>t DEF WorkerState
    <3>2. policy' = policy
      BY <1>3 DEF GetPolicy
    <3>3. QED
      BY <2>1, <3>1, <3>2, <1>t DEF Goto, Held
  <2>2. CASE Done(m) \/ Fail(m)
    BY <2>2, <1>d DEF Held
  <2>3. QED
    BY <1>3, <2>1, <2>2 DEF GetPolicy
<1>4. ASSUME NEW m \in Manager, PutPolicy(m) PROVE wk'[n] = wk[n]
  <2>1. CASE Retry(m)
    <3> DEFINE r == [wk[m] EXCEPT !.pc = "get", !.snap = NoPolicy(0), !.try = @ + 1]
    <3>1. r.pc # "put"
      BY <1>t DEF WorkerState
    <3>2. wk' = [wk EXCEPT ![m] = Idle] \/ wk' = [wk EXCEPT ![m] = r]
      BY <2>1, RetryForm
    <3> HIDE DEF r
    <3>3. QED
      BY <3>1, <3>2, <1>t, <1>i
  <2>2. CASE Done(m) \/ Fail(m)
    BY <2>2, <1>d
  <2>3. QED
    BY <1>4, <2>1, <2>2 DEF PutPolicy
<1>5. ASSUME NEW m \in Manager, CreatePolicy(m) \/ DeletePolicy(m) \/ ApiError(m) PROVE wk'[n] = wk[n]
  BY <1>5, <1>d DEF CreatePolicy, DeletePolicy, ApiError
<1>6. ASSUME NEW m \in Manager, LookForPolicy(m) PROVE wk'[n] = wk[n]
  BY <1>6, <1>d, <1>g, <1>p DEF LookForPolicy
<1>7. ASSUME NEW s \in Service, Declare(s) \/ DeleteService(s) PROVE wk'[n] = wk[n]
  BY <1>7 DEF Declare, DeleteService, Notify
<1>8. ASSUME TouchPolicy \/ DropPolicy PROVE wk'[n] = wk[n]
  BY <1>8 DEF TouchPolicy, DropPolicy
<1>9. ASSUME NEW m \in Manager, StartManager(m) \/ StopManager(m) PROVE wk'[n] = wk[n]
  BY <1>9, <1>t, <1>i DEF StartManager, StopManager
<1>10. CASE UNCHANGED vars
  BY <1>10 DEF vars, Held
<1>11. QED
  BY <1>1, <1>2, <1>3, <1>4, <1>5, <1>6, <1>7, <1>8, <1>9, <1>10
     DEF Next, Work, Environment, Held

---------------------------------------------------------------------------
(* Ports are accounted for.                                                *)

OrphanFree(p) == p.ports \subseteq Recorded(p)

LEMMA RecordedIs ==
    ASSUME NEW p PROVE \A x : x \in Recorded(p) <=> \E k \in Key : \E e \in p.map[k] : x = PortOf[e]
BY DEF Recorded, Ports

LEMMA PortsIs == \A E, x : x \in Ports(E) <=> \E e \in E : x = PortOf[e]
BY DEF Ports

LEMMA UpdatedOrphanFree ==
    ASSUME NEW p \in PolicyState, NEW k \in Key, NEW E \in SUBSET Entry, NEW c \in Cidr,
           OrphanFree(p)
    PROVE  OrphanFree(Updated(p, k, E, c))
<1> DEFINE q == Updated(p, k, E, c)
<1>1. q.map = [p.map EXCEPT ![k] = E] /\ q.ports = (p.ports \ Ports(p.map[k] \ E)) \cup Ports(E)
  BY DEF Updated, PolicyState
<1>2. p.map \in [Key -> SUBSET Entry]
  BY DEF PolicyState
<1> HIDE DEF q
<1>3. ASSUME NEW x \in q.ports PROVE x \in Recorded(q)
  <2>1. CASE x \in Ports(E)
    BY <2>1, <1>1, <1>2, PortsIs, RecordedIs
  <2>2. CASE x \in p.ports /\ x \notin Ports(p.map[k] \ E)
    <3>1. PICK l \in Key : \E e \in p.map[l] : x = PortOf[e]
      BY <2>2, RecordedIs DEF OrphanFree
    <3>2. PICK e \in p.map[l] : x = PortOf[e]
      BY <3>1
    <3>3. l = k => e \in E
      BY <3>2, <2>2, PortsIs
    <3>4. e \in q.map[l]
      BY <3>2, <3>3, <1>1, <1>2
    <3>5. QED
      BY <3>2, <3>4, RecordedIs
  <2>3. QED
    BY <1>1, <2>1, <2>2
<1>4. QED
  BY <1>3 DEF OrphanFree, q

LEMMA RemovedOrphanFree ==
    ASSUME NEW p \in PolicyState, NEW k \in Key, OrphanFree(p)
    PROVE  OrphanFree(Removed(p, k))
<1> DEFINE q == Removed(p, k)
<1>1. q.map = [p.map EXCEPT ![k] = {}] /\ q.ports = p.ports \ Ports(p.map[k])
  BY RemovedMap
<1>2. p.map \in [Key -> SUBSET Entry]
  BY DEF PolicyState
<1> HIDE DEF q
<1>3. ASSUME NEW x \in q.ports PROVE x \in Recorded(q)
  <2>1. PICK l \in Key : \E e \in p.map[l] : x = PortOf[e]
    BY <1>1, RecordedIs DEF OrphanFree
  <2>2. PICK e \in p.map[l] : x = PortOf[e]
    BY <2>1
  <2>3. l # k
    BY <2>2, <1>1, PortsIs
  <2>4. e \in q.map[l]
    BY <2>2, <2>3, <1>1, <1>2
  <2>5. QED
    BY <2>2, <2>4, RecordedIs
<1>4. QED
  BY <1>3 DEF OrphanFree, q

(* Copies are orphan-free too, as a worker writes what it made of its copy. *)
Accounted ==
    /\ OrphanFree(policy)
    /\ \A m \in Manager : wk[m].pc = "put" => OrphanFree(wk[m].snap)

LEMMA RevisedOrphanFree ==
    ASSUME TypeOK, Accounted, NEW m \in Manager, wk[m].pc = "put"
    PROVE  OrphanFree(Revised(m))
<1>1. /\ wk[m].snap \in PolicyState /\ wk[m].want.ports \in SUBSET Entry
      /\ wk[m].s \in Service /\ OrphanFree(wk[m].snap)
  BY DEF TypeOK, WorkerState, Declaration, Accounted
<1>2. KeyOf[wk[m].s] \in Key /\ CidrOf[m] \in Cidr
  BY <1>1, PolicyAssumption DEF Cidr
<1>3. QED
  BY <1>1, <1>2, UpdatedOrphanFree, RemovedOrphanFree DEF Revised

LEMMA SameOrphanFree ==
    ASSUME NEW p, NEW q, p.ports = q.ports, p.map = q.map, OrphanFree(p)
    PROVE  OrphanFree(q)
BY DEF OrphanFree, Recorded

LEMMA AccountedStep == TypeOK /\ Accounted /\ [Next]_vars => Accounted'
<1> SUFFICES ASSUME TypeOK, Accounted, [Next]_vars PROVE Accounted'
  OBVIOUS
<1>t. policy \in PolicyState /\ OrphanFree(policy)
  BY DEF TypeOK, Accounted
<1>1. OrphanFree(policy')
  <2>1. CASE policy' = policy
    BY <2>1, <1>t
  <2>2. CASE policy' = NoPolicy(policy.rv + 1)
    BY <2>2 DEF NoPolicy, OrphanFree
  <2>3. CASE policy' = [policy EXCEPT !.rv = @ + 1]
    <3>1. policy'.ports = policy.ports /\ policy'.map = policy.map
      BY <2>3, <1>t DEF PolicyState
    <3>2. QED
      BY <3>1, <1>t, SameOrphanFree
  <2>4. ASSUME NEW m \in Manager, wk[m].pc = "create", policy' = FirstPolicy(m)
        PROVE  OrphanFree(policy')
    <3> DEFINE k == KeyOf[wk[m].s]
               E == wk[m].want.ports
    <3>1. k \in Key
      BY <2>4, PolicyAssumption DEF TypeOK
    <3>2. /\ policy'.ports = Ports(E)
          /\ policy'.map = [l \in Key |-> IF l = k THEN E ELSE {}]
      BY <2>4, FirstTyped
    <3> HIDE DEF k, E
    <3>3. policy'.map[k] = E
      BY <3>1, <3>2
    <3>4. \A x \in policy'.ports : x \in Recorded(policy')
      BY <3>1, <3>2, <3>3, RecordedIs, PortsIs
    <3>5. QED
      BY <3>4 DEF OrphanFree
  <2>5. ASSUME NEW m \in Manager, wk[m].pc = "put", policy' = Stored(Revised(m))
        PROVE  OrphanFree(policy')
    <3>1. OrphanFree(Revised(m)) /\ Revised(m) \in PolicyState
      BY <2>5, RevisedOrphanFree, RevisedTyped
    <3>2. policy'.ports = Revised(m).ports /\ policy'.map = Revised(m).map
      BY <2>5, <3>1, <1>t, StoredTyped
    <3>3. QED
      BY <3>1, <3>2, SameOrphanFree
  <2>6. QED
    BY PolicySteps, <2>1, <2>2, <2>3, <2>4, <2>5
<1>2. ASSUME NEW n \in Manager, wk'[n].pc = "put" PROVE OrphanFree(wk'[n].snap)
  BY <1>2, <1>t, CopySteps DEF Held, Accounted
<1>3. QED
  BY <1>1, <1>2 DEF Accounted

(* Every port the handler leaves open is recorded under some service's key,  *)
(* for any number of services and managers, whatever ports they share and    *)
(* wherever they crash: a port is never open for nobody.                     *)
THEOREM OpenPortsAreRecorded == Spec => []NoOrphanPort
<1>1. Init => Accounted
  <2> SUFFICES ASSUME Init PROVE Accounted
    OBVIOUS
  <2>1. OrphanFree(policy)
    BY InitPolicyAssumption DEF Init, OrphanFree
  <2>2. \A m \in Manager : wk[m].pc # "put"
    BY IdleTyped DEF Init
  <2>3. QED
    BY <2>1, <2>2 DEF Accounted
<1>2. Accounted => NoOrphanPort
  BY DEF Accounted, OrphanFree, NoOrphanPort
<1>3. QED
  BY <1>1, <1>2, AccountedStep, PolicyTypeCorrect, PTL DEF Spec

---------------------------------------------------------------------------
(* The policy is a book: no write undoes another service's write.          *)

(* What makes it inductive: a copy is older than the policy or equal to it,  *)
(* and what is recorded, or about to be, is in the claims of its key.        *)
Versions ==
    \A m \in Manager : wk[m].pc = "put" =>
        /\ wk[m].snap.rv <= policy.rv
        /\ wk[m].snap.rv = policy.rv => wk[m].snap = policy

(* A policy that opens what it records, but for shared ports.              *)
Fair(p) ==
    /\ p.ports \subseteq Recorded(p) /\ Recorded(p) \cap Sole \subseteq p.ports
    /\ \A k \in Key : p.map[k] \subseteq Claims(k)

Wanted ==
    /\ \A s \in Service : svc[s].decl.ports \subseteq Claims(KeyOf[s])
    /\ \A m \in Manager : wk[m].pc # "idle" =>
          wk[m].want.ports \subseteq Claims(KeyOf[wk[m].s])

Kept ==
    /\ Fair(policy)
    /\ policy.exists \/ policy.map = [k \in Key |-> {}]

LEMMA VersionsStep == TypeOK /\ Versions /\ [Next]_vars => Versions'
<1> SUFFICES ASSUME TypeOK, Versions, [Next]_vars PROVE Versions'
  OBVIOUS
<1>t. policy \in PolicyState /\ policy.rv \in Nat
  BY DEF TypeOK, PolicyState
<1>1. policy' = policy \/ policy'.rv = policy.rv + 1
  <2>1. CASE policy' = NoPolicy(policy.rv + 1)
    BY <2>1 DEF NoPolicy
  <2>2. CASE policy' = [policy EXCEPT !.rv = @ + 1]
    BY <2>2, <1>t DEF PolicyState
  <2>3. ASSUME NEW m \in Manager, wk[m].pc = "create", policy' = FirstPolicy(m)
        PROVE  policy'.rv = policy.rv + 1
    BY <2>3, FirstTyped
  <2>4. ASSUME NEW m \in Manager, wk[m].pc = "put", policy' = Stored(Revised(m))
        PROVE  policy' = policy \/ policy'.rv = policy.rv + 1
    BY <2>4, <1>t, RevisedTyped, StoredTyped
  <2>5. QED
    BY PolicySteps, <2>1, <2>2, <2>3, <2>4
<1>2. ASSUME NEW n \in Manager, wk'[n].pc = "put"
      PROVE  /\ wk'[n].snap.rv <= policy'.rv
             /\ wk'[n].snap.rv = policy'.rv => wk'[n].snap = policy'
  <2>1. CASE wk'[n].snap = policy /\ policy' = policy
    BY <2>1, <1>t
  <2>2. CASE wk'[n] = wk[n]
    <3>1. /\ wk[n].snap.rv <= policy.rv
          /\ wk[n].snap.rv = policy.rv => wk[n].snap = policy
      BY <1>2, <2>2 DEF Versions
    <3>2. wk[n].snap.rv \in Nat
      BY DEF TypeOK, WorkerState, PolicyState
    <3>3. QED
      BY <2>2, <3>1, <3>2, <1>1, <1>t
  <2>3. QED
    BY <1>2, <2>1, <2>2, CopySteps DEF Held
<1>3. QED
  BY <1>2 DEF Versions

(* A worker keeps its service and its declaration until it is idle again,   *)
(* or it takes them from a service it reads now.                            *)
LEMMA WantSteps ==
    ASSUME TypeOK, [Next]_vars, NEW n \in Manager, wk'[n].pc # "idle"
    PROVE  \/ wk[n].pc # "idle" /\ wk'[n].s = wk[n].s /\ wk'[n].want = wk[n].want
           \/ \E s \in Service : wk'[n].s = s /\ wk'[n].want = svc[s].decl
<1> DEFINE Same == wk[n].pc # "idle" /\ wk'[n].s = wk[n].s /\ wk'[n].want = wk[n].want
           Fresh == \E s \in Service : wk'[n].s = s /\ wk'[n].want = svc[s].decl
<1>t. wk \in [Manager -> WorkerState] /\ wk[n] \in WorkerState
  BY DEF TypeOK
<1>i. Idle.pc = "idle"
  BY IdleTyped
<1>e. wk'[n] = wk[n] => Same
  OBVIOUS
<1>d. ASSUME NEW m \in Manager, Done(m) \/ Fail(m) PROVE Same
  BY <1>d, <1>t, <1>i, <1>e DEF Done, Fail
<1>g. ASSUME NEW m \in Manager, wk[m].pc # "idle", NEW r, r.s = wk[m].s, r.want = wk[m].want,
             wk' = [wk EXCEPT ![m] = r]
      PROVE  Same
  BY <1>g, <1>t
<1>p. \A m \in Manager : \A pc \in {"get", "create", "delete"} :
         /\ [wk[m] EXCEPT !.pc = pc].s = wk[m].s
         /\ [wk[m] EXCEPT !.pc = pc].want = wk[m].want
  BY <1>t DEF WorkerState
<1>1. ASSUME NEW m \in Manager, NEW s \in Service, Reconcile(m, s)
      PROVE  Same \/ Fresh
  <2> DEFINE r == [Idle EXCEPT
                !.pc = IF m \notin Enabled THEN "delGet"
                       ELSE IF svc[s].live THEN "probe" ELSE "get",
                !.job = IF svc[s].live THEN "upsert" ELSE "remove",
                !.s = s, !.want = svc[s].decl]
  <2>1. wk' = [wk EXCEPT ![m] = r]
    BY <1>1 DEF Reconcile
  <2>2. r.s = s /\ r.want = svc[s].decl
    BY IdleTyped DEF WorkerState
  <2> HIDE DEF r
  <2>3. QED
    BY <2>1, <2>2, <1>t, <1>e
<1>2. ASSUME NEW m \in Manager, Probe(m) PROVE Same
  <2>1. wk[m].pc # "idle"
    BY <1>2 DEF Probe
  <2>2. CASE Goto(m, [wk[m] EXCEPT !.pc = "get"])
    BY <2>1, <2>2, <1>g, <1>p DEF Goto
  <2>3. CASE Goto(m, [wk[m] EXCEPT !.pc = "create"])
    BY <2>1, <2>3, <1>g, <1>p DEF Goto
  <2>4. QED
    BY <1>2, <2>2, <2>3, <1>d DEF Probe
<1>3. ASSUME NEW m \in Manager, GetPolicy(m) PROVE Same
  <2>1. wk[m].pc # "idle"
    BY <1>3 DEF GetPolicy
  <2>2. CASE Goto(m, [wk[m] EXCEPT !.pc = "put", !.snap = policy])
    <3> DEFINE r == [wk[m] EXCEPT !.pc = "put", !.snap = policy]
    <3>1. r.s = wk[m].s /\ r.want = wk[m].want /\ wk' = [wk EXCEPT ![m] = r]
      BY <2>2, <1>t DEF WorkerState, Goto
    <3> HIDE DEF r
    <3>2. QED
      BY <2>1, <3>1, <1>g
  <2>3. QED
    BY <1>3, <2>2, <1>d DEF GetPolicy
<1>4. ASSUME NEW m \in Manager, PutPolicy(m) PROVE Same
  <2>1. wk[m].pc # "idle"
    BY <1>4 DEF PutPolicy
  <2>2. CASE Retry(m)
    <3> DEFINE r == [wk[m] EXCEPT !.pc = "get", !.snap = NoPolicy(0), !.try = @ + 1]
    <3>1. r.s = wk[m].s /\ r.want = wk[m].want
      BY <1>t DEF WorkerState
    <3>2. wk' = [wk EXCEPT ![m] = Idle] \/ wk' = [wk EXCEPT ![m] = r]
      BY <2>2, RetryForm
    <3> HIDE DEF r
    <3>3. QED
      BY <2>1, <3>1, <3>2, <1>g, <1>t, <1>i, <1>e
  <2>3. QED
    BY <1>4, <2>2, <1>d DEF PutPolicy
<1>5. ASSUME NEW m \in Manager, CreatePolicy(m) \/ DeletePolicy(m) \/ ApiError(m) PROVE Same
  BY <1>5, <1>d DEF CreatePolicy, DeletePolicy, ApiError
<1>6. ASSUME NEW m \in Manager, LookForPolicy(m) PROVE Same
  <2>1. wk[m].pc # "idle"
    BY <1>6 DEF LookForPolicy
  <2>2. CASE Goto(m, [wk[m] EXCEPT !.pc = "delete"])
    BY <2>1, <2>2, <1>g, <1>p DEF Goto
  <2>3. QED
    BY <1>6, <2>2, <1>d DEF LookForPolicy
<1>7. ASSUME NEW s \in Service, Declare(s) \/ DeleteService(s) PROVE Same
  BY <1>7, <1>e DEF Declare, DeleteService, Notify
<1>8. ASSUME TouchPolicy \/ DropPolicy PROVE Same
  BY <1>8, <1>e DEF TouchPolicy, DropPolicy
<1>9. ASSUME NEW m \in Manager, StartManager(m) \/ StopManager(m) PROVE Same
  BY <1>9, <1>t, <1>i, <1>e DEF StartManager, StopManager
<1>10. ASSUME UNCHANGED vars PROVE Same
  BY <1>10, <1>e DEF vars
<1> HIDE DEF Same, Fresh
<1>11. Same \/ Fresh
  BY <1>1, <1>2, <1>3, <1>4, <1>5, <1>6, <1>7, <1>8, <1>9, <1>10 DEF Next, Work, Environment
<1>12. QED
  BY <1>11 DEF Same, Fresh

LEMMA ClaimedBy ==
    ASSUME NEW s \in Service, NEW d \in Declarations[s], d.ports \subseteq Entry
    PROVE  d.ports \subseteq Claims(KeyOf[s])
BY PolicyAssumption DEF Claims

LEMMA WantedStep == TypeOK /\ Wanted /\ [Next]_vars => Wanted'
<1> SUFFICES ASSUME TypeOK, Wanted, [Next]_vars PROVE Wanted'
  OBVIOUS
<1>t. svc \in [Service -> ServiceState]
  BY DEF TypeOK
<1>1. ASSUME NEW s \in Service PROVE svc'[s].decl.ports \subseteq Claims(KeyOf[s])
  <2>1. CASE svc' = svc
    BY <2>1 DEF Wanted
  <2>2. ASSUME NEW u \in Service, Declare(u) PROVE svc'[s].decl.ports \subseteq Claims(KeyOf[s])
    <3>1. PICK d \in Declarations[u] : svc' = [svc EXCEPT ![u] = [live |-> TRUE, decl |-> d]]
      BY <2>2 DEF Declare
    <3>2. d \in Declaration
      BY PolicyAssumption
    <3>3. d.ports \subseteq Claims(KeyOf[u])
      BY <3>2, ClaimedBy DEF Declaration
    <3>4. s = u => svc'[s].decl.ports = d.ports
      BY <3>1, <1>t
    <3>5. s # u => svc'[s] = svc[s]
      BY <3>1, <1>t
    <3>6. QED
      BY <3>3, <3>4, <3>5 DEF Wanted
  <2>3. ASSUME NEW u \in Service, DeleteService(u)
        PROVE  svc'[s].decl.ports \subseteq Claims(KeyOf[s])
    <3>1. svc' = [svc EXCEPT ![u] = Gone]
      BY <2>3 DEF DeleteService
    <3>2. s = u => svc'[s].decl.ports = {}
      BY <3>1, <1>t DEF Gone, NoPorts
    <3>3. s # u => svc'[s] = svc[s]
      BY <3>1, <1>t
    <3>4. QED
      BY <3>2, <3>3 DEF Wanted
  <2>4. ASSUME NEW m \in Manager, NEW u \in Service,
               \/ Reconcile(m, u) \/ Probe(m) \/ GetPolicy(m) \/ LookForPolicy(m)
               \/ CreatePolicy(m) \/ PutPolicy(m) \/ DeletePolicy(m) \/ ApiError(m)
               \/ StartManager(m) \/ StopManager(m) \/ TouchPolicy \/ DropPolicy
        PROVE  svc' = svc
    BY <2>4 DEF Reconcile, Probe, GetPolicy, LookForPolicy, CreatePolicy, PutPolicy, DeletePolicy,
                ApiError, StartManager, StopManager, TouchPolicy, DropPolicy
  <2>5. UNCHANGED vars => svc' = svc
    BY DEF vars
  <2>6. TouchPolicy \/ DropPolicy => svc' = svc
    BY DEF TouchPolicy, DropPolicy
  <2>7. QED
    BY <2>1, <2>2, <2>3, <2>4, <2>5, <2>6 DEF Next, Work, Environment
<1>2. ASSUME NEW n \in Manager, wk'[n].pc # "idle"
      PROVE  wk'[n].want.ports \subseteq Claims(KeyOf[wk'[n].s])
  BY <1>2, WantSteps DEF Wanted
<1>3. QED
  BY <1>1, <1>2 DEF Wanted

(* Only the page of k opens a port of k's that is not shared.              *)
LEMMA SoleClaim ==
    ASSUME NEW k \in Key, NEW l \in Key, NEW e \in Claims(k), NEW f \in Claims(l),
           PortOf[e] = PortOf[f], PortOf[e] \in Sole
    PROVE  k = l
<1>1. PortOf[e] \in Ports(Claims(k)) /\ PortOf[e] \in Ports(Claims(l))
  BY DEF Ports
<1>2. QED
  BY <1>1 DEF Sole

(* A page is rewritten within its claims, and the book stays fair.          *)
LEMMA UpdatedFair ==
    ASSUME NEW p \in PolicyState, NEW k \in Key, NEW E \in SUBSET Entry, NEW c \in Cidr,
           Fair(p), E \subseteq Claims(k)
    PROVE  Fair(Updated(p, k, E, c))
<1> DEFINE q == Updated(p, k, E, c)
<1>1. q.map = [p.map EXCEPT ![k] = E] /\ q.ports = (p.ports \ Ports(p.map[k] \ E)) \cup Ports(E)
  BY DEF Updated, PolicyState
<1>2. p.map \in [Key -> SUBSET Entry]
  BY DEF PolicyState
<1>3. q.ports \subseteq Recorded(q)
  <2>1. OrphanFree(p)
    BY DEF OrphanFree, Fair
  <2>2. QED
    BY <2>1, UpdatedOrphanFree DEF OrphanFree
<1> HIDE DEF q
<1>4. ASSUME NEW x \in Recorded(q), x \in Sole PROVE x \in q.ports
  <2>1. PICK l \in Key : \E e \in q.map[l] : x = PortOf[e]
    BY <1>4, RecordedIs
  <2>2. PICK e \in q.map[l] : x = PortOf[e]
    BY <2>1
  <2>3. CASE l = k
    <3>1. e \in E
      BY <2>2, <2>3, <1>1, <1>2
    <3>2. QED
      BY <3>1, <2>2, <1>1, PortsIs
  <2>4. CASE l # k
    <3>1. e \in p.map[l]
      BY <2>2, <2>4, <1>1, <1>2
    <3>2. x \in p.ports
      BY <1>4, <3>1, <2>2, RecordedIs DEF Fair
    <3>3. x \notin Ports(p.map[k] \ E)
      <4> SUFFICES ASSUME NEW f \in p.map[k], x = PortOf[f] PROVE FALSE
        BY PortsIs
      <4>1. e \in Claims(l) /\ f \in Claims(k)
        BY <3>1 DEF Fair
      <4>2. PortOf[e] = PortOf[f] /\ PortOf[e] \in Sole
        BY <1>4, <2>2
      <4>3. QED
        BY <4>1, <4>2, <2>4, SoleClaim
    <3>4. QED
      BY <3>2, <3>3, <1>1
  <2>5. QED
    BY <2>3, <2>4
<1>5. \A l \in Key : q.map[l] \subseteq Claims(l)
  BY <1>1, <1>2 DEF Fair
<1>6. QED
  BY <1>3, <1>4, <1>5 DEF q, Fair

LEMMA RemovedFair ==
    ASSUME NEW p \in PolicyState, NEW k \in Key, Fair(p)
    PROVE  Fair(Removed(p, k))
<1> DEFINE q == Removed(p, k)
<1>1. q.map = [p.map EXCEPT ![k] = {}] /\ q.ports = p.ports \ Ports(p.map[k])
  BY DEF Removed, PolicyState
<1>2. p.map \in [Key -> SUBSET Entry]
  BY DEF PolicyState
<1>3. q.ports \subseteq Recorded(q)
  <2>1. OrphanFree(p)
    BY DEF OrphanFree, Fair
  <2>2. QED
    BY <2>1, RemovedOrphanFree DEF OrphanFree
<1> HIDE DEF q
<1>4. ASSUME NEW x \in Recorded(q), x \in Sole PROVE x \in q.ports
  <2>1. PICK l \in Key : \E e \in q.map[l] : x = PortOf[e]
    BY <1>4, RecordedIs
  <2>2. PICK e \in q.map[l] : x = PortOf[e]
    BY <2>1
  <2>3. l # k /\ e \in p.map[l]
    BY <2>2, <1>1, <1>2
  <2>4. x \in p.ports
    BY <1>4, <2>2, <2>3, RecordedIs DEF Fair
  <2>5. x \notin Ports(p.map[k])
    <3> SUFFICES ASSUME NEW f \in p.map[k], x = PortOf[f] PROVE FALSE
      BY PortsIs
    <3>1. e \in Claims(l) /\ f \in Claims(k)
      BY <2>3 DEF Fair
    <3>2. PortOf[e] = PortOf[f] /\ PortOf[e] \in Sole
      BY <1>4, <2>2
    <3>3. QED
      BY <3>1, <3>2, <2>3, SoleClaim
  <2>6. QED
    BY <2>4, <2>5, <1>1
<1>5. \A l \in Key : q.map[l] \subseteq Claims(l)
  BY <1>1, <1>2 DEF Fair
<1>6. QED
  BY <1>3, <1>4, <1>5 DEF q, Fair

LEMMA SameFair ==
    ASSUME NEW p, NEW q, p.map = q.map, p.ports = q.ports, Fair(p) PROVE Fair(q)
BY DEF Fair, Recorded

BookInv == TypeOK /\ Versions /\ Wanted /\ Kept

(* A step that writes one page and leaves the policy fair is a step of the  *)
(* book.                                                                    *)
LEMMA WriteIsBookStep ==
    ASSUME NEW k \in Key, NEW E \in SUBSET Entry, policy'.exists,
           policy'.map = [policy.map EXCEPT ![k] = E], Fair(policy')
    PROVE  Kept' /\ Ledger!Next
<1>1. Ledger!Balanced'
  BY DEF Fair, Recorded, Ports, Ledger!Balanced, Ledger!Noted, Ledger!PortsOf
<1>2. Ledger!Write(k, E)
  BY <1>1 DEF Ledger!Write
<1>3. QED
  BY <1>2 DEF Ledger!Next, Kept

LEMMA BookStep ==
    ASSUME BookInv, [Next]_vars
    PROVE  /\ Kept'
           /\ Ledger!Next \/ UNCHANGED <<policy.exists, policy.map, policy.ports>>
<1>t. /\ TypeOK /\ policy \in PolicyState /\ Fair(policy)
      /\ policy.exists \/ policy.map = [k \in Key |-> {}]
  BY DEF BookInv, Kept, TypeOK
<1>1. CASE policy' = policy
  BY <1>1, <1>t DEF Kept
<1>2. CASE policy' = NoPolicy(policy.rv + 1)
  <2>1. /\ ~policy'.exists /\ policy'.ports = {} /\ policy'.map = [k \in Key |-> {}]
    BY <1>2 DEF NoPolicy
  <2>2. \A l \in Key : policy'.map[l] = {}
    BY <2>1
  <2>3. Recorded(policy') = {}
    BY <2>2, RecordedIs
  <2>4. Kept'
    BY <2>1, <2>2, <2>3 DEF Kept, Fair
  <2>5. Ledger!Discard
    BY <2>1 DEF Ledger!Discard
  <2>6. QED
    BY <2>4, <2>5 DEF Ledger!Next
<1>3. CASE policy' = [policy EXCEPT !.rv = @ + 1]
  <2>1. /\ policy'.exists = policy.exists /\ policy'.ports = policy.ports
        /\ policy'.map = policy.map
    BY <1>3, <1>t DEF PolicyState
  <2>2. Fair(policy')
    BY <2>1, <1>t, SameFair
  <2>3. QED
    BY <2>1, <2>2, <1>t DEF Kept
<1>4. ASSUME NEW m \in Manager, wk[m].pc = "create", ~policy.exists, policy' = FirstPolicy(m)
      PROVE  Kept' /\ Ledger!Next
  <2> DEFINE k == KeyOf[wk[m].s]
             E == wk[m].want.ports
  <2>1. k \in Key /\ E \in SUBSET Entry /\ E \subseteq Claims(k)
    BY <1>4, <1>t, PolicyAssumption DEF TypeOK, WorkerState, Declaration, BookInv, Wanted
  <2>2. /\ policy'.exists /\ policy'.ports = Ports(E)
        /\ policy'.map = [l \in Key |-> IF l = k THEN E ELSE {}]
    BY <1>4, <1>t, FirstTyped
  <2> HIDE DEF k, E
  <2>3. policy'.map = [policy.map EXCEPT ![k] = E]
    BY <2>1, <2>2, <1>4, <1>t
  <2>4. \A x : x \in Recorded(policy') <=> x \in Ports(E)
    BY <2>1, <2>2, RecordedIs, PortsIs
  <2>5. Fair(policy')
    BY <2>1, <2>2, <2>4 DEF Fair
  <2>6. QED
    BY <2>1, <2>2, <2>3, <2>5, WriteIsBookStep
<1>5. ASSUME NEW m \in Manager, wk[m].pc = "put", policy.exists, policy.rv = wk[m].snap.rv,
             policy' = Stored(Revised(m))
      PROVE  Kept' /\ Ledger!Next
  <2> DEFINE k == KeyOf[wk[m].s]
             E == wk[m].want.ports
             q == Revised(m)
  <2>1. /\ k \in Key /\ E \in SUBSET Entry /\ E \subseteq Claims(k) /\ CidrOf[m] \in Cidr
    BY <1>5, <1>t, PolicyAssumption DEF TypeOK, WorkerState, Declaration, BookInv, Wanted, Cidr
  <2>2. wk[m].snap = policy
    BY <1>5 DEF BookInv, Versions
  <2>3. q \in PolicyState
    BY <1>5, <1>t, RevisedTyped
  <2>w. ASSUME NEW F \in SUBSET Entry, q.exists, Fair(q), q.map = [policy.map EXCEPT ![k] = F]
        PROVE  Kept' /\ Ledger!Next
    <3>1. policy'.ports = q.ports /\ policy'.map = q.map /\ policy'.exists
      BY <2>w, <2>3, <1>5, <1>t, StoredTyped
    <3> HIDE DEF k, E, q
    <3>2. Fair(policy')
      BY <2>w, <3>1, SameFair
    <3>3. QED
      BY <2>w, <3>1, <3>2, <2>1, WriteIsBookStep
  <2>4. CASE wk[m].job = "upsert"
    <3>c. PICK c \in Cidr : c = CidrOf[m]
      BY <2>1
    <3>1. q = Updated(policy, k, E, c)
      BY <2>2, <2>4, <3>c DEF Revised
    <3> HIDE DEF k, E, q
    <3>2. Fair(q)
      BY <3>1, <2>1, <1>t, UpdatedFair
    <3>3. q.exists /\ q.map = [policy.map EXCEPT ![k] = E]
      BY <3>1, <2>1, <1>t, <1>5 DEF Updated, PolicyState
    <3>4. QED
      BY <3>2, <3>3, <2>1, <2>w
  <2>5. CASE wk[m].job # "upsert"
    <3>1. q = Removed(policy, k)
      BY <2>2, <2>5 DEF Revised
    <3> HIDE DEF k, q
    <3>2. Fair(q)
      BY <3>1, <2>1, <1>t, RemovedFair
    <3>3. q.exists /\ q.map = [policy.map EXCEPT ![k] = {}]
      BY <3>1, <2>1, <1>t, <1>5, RemovedMap
    <3>4. QED
      BY <3>2, <3>3, <2>1, <2>w
  <2>6. QED
    BY <2>4, <2>5
<1>6. QED
  BY <1>1, <1>2, <1>3, <1>4, <1>5, <1>t, PolicySteps

LEMMA BookInit == Init => BookInv
<1> SUFFICES ASSUME Init PROVE BookInv
  OBVIOUS
<1>1. \A m \in Manager : wk[m].pc = "idle"
  BY IdleTyped DEF Init
<1>2. Versions
  BY <1>1 DEF Versions
<1>3. Wanted
  BY <1>1 DEF Init, Wanted, Gone, NoPorts
<1>4. InitPolicy.exists \/ InitPolicy.map = [k \in Key |-> {}]
  BY InitPolicyAssumption DEF NoPolicy
<1>5. \A k \in Key : InitPolicy.map[k] \subseteq Claims(k)
  BY InitPolicyAssumption DEF Claims, PolicyState
<1>6. Kept
  BY <1>4, <1>5, InitPolicyAssumption DEF Init, Kept, Fair
<1>7. QED
  BY <1>2, <1>3, <1>6, InitTyped DEF BookInv

LEMMA BookInvStep == BookInv /\ [Next]_vars => BookInv'
BY BookStep, NextTyped, VersionsStep, WantedStep DEF BookInv

LEMMA BookInvHolds == Spec => []BookInv
<1>1. QED
  BY BookInit, BookInvStep, PTL DEF Spec

(* BookKept for every number of services, managers and ports, shared ones    *)
(* and colliding keys included: each write of the handler records or erases  *)
(* the ports of one key, never loses those of another, opens nothing that is *)
(* not recorded, and keeps open what is recorded under one key only, through *)
(* conflicts, lost answers, crashes and rolling updates.                     *)
THEOREM PolicyIsABook == Spec => BookKept
<1>1. Init => BookInv
  BY BookInit
<1>2. BookInv => Ledger!Balanced /\ (policy.exists \/ policy.map = [k \in Key |-> {}])
  BY DEF BookInv, Kept, Fair, Recorded, Ports, Ledger!Balanced, Ledger!Noted, Ledger!PortsOf
<1>3. Init => Ledger!Init
  BY <1>1, <1>2 DEF Ledger!Init
<1>4. BookInv /\ [Next]_vars => BookInv'
  BY BookInvStep
<1>5. BookInv /\ [Next]_vars => [Ledger!Next]_<<policy.exists, policy.map, policy.ports>>
  BY BookStep
<1>6. QED
  BY <1>1, <1>3, <1>4, <1>5, PTL DEF Spec, BookKept, Ledger!Spec
=============================================================================
