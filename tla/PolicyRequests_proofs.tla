----------------------- MODULE PolicyRequests_proofs -----------------------
(***************************************************************************)
(* Proofs about NetworkPolicy: requests of services are kept until what     *)
(* they ask for is in the policy.                                           *)
(***************************************************************************)
EXTENDS NetworkPolicy_proofs

---------------------------------------------------------------------------
(* What becomes of a request in a step.                                    *)

(* r goes on with the request that m works on.                             *)
GoesOn(m, r) == r.pc # "idle" /\ r.s = wk[m].s /\ r.want = wk[m].want /\ r.job = wk[m].job

LEMMA FailKeeps ==
    ASSUME TypeOK, NEW m \in Manager, Fail(m), UNCHANGED svc,
           NEW n \in Manager, NEW t \in Service, Requested(n, t)
    PROVE  Requested(n, t)'
<1>t. wk \in [Manager -> WorkerState] /\ queue \in [Manager -> SUBSET Service]
  BY DEF TypeOK
<1>1. n # m => wk'[n] = wk[n] /\ queue'[n] = queue[n]
  BY <1>t DEF Fail
<1>2. queue'[m] = queue[m] \cup {wk[m].s}
  BY <1>t DEF Fail
<1>3. QED
  BY <1>1, <1>2 DEF Requested, Current

LEMMA DoneKeeps ==
    ASSUME TypeOK, NEW m \in Manager, Done(m), UNCHANGED svc,
           NEW n \in Manager, NEW t \in Service, Requested(n, t)
    PROVE  Requested(n, t)' \/ (n = m /\ t \notin queue[m] /\ Current(m, t))
<1>t. wk \in [Manager -> WorkerState] /\ queue' = queue
  BY DEF TypeOK, Done
<1>1. n # m => wk'[n] = wk[n]
  BY <1>t DEF Done
<1>2. QED
  BY <1>t, <1>1 DEF Requested, Current

LEMMA GotoKeeps ==
    ASSUME TypeOK, NEW m \in Manager, NEW r, Goto(m, r), GoesOn(m, r), UNCHANGED svc,
           NEW n \in Manager, NEW t \in Service, Requested(n, t)
    PROVE  Requested(n, t)'
<1>t. wk \in [Manager -> WorkerState] /\ queue' = queue
  BY DEF TypeOK, Goto
<1>1. n # m => wk'[n] = wk[n]
  BY <1>t DEF Goto
<1>2. wk'[m] = r
  BY <1>t DEF Goto
<1>3. QED
  BY <1>t, <1>1, <1>2 DEF Requested, Current, GoesOn

(* The worker Reconcile starts with.                                       *)
Start(m, s) ==
    [Idle EXCEPT !.pc = IF m \notin Enabled THEN "delGet"
                        ELSE IF svc[s].live THEN "probe" ELSE "get",
                 !.job = IF svc[s].live THEN "upsert" ELSE "remove",
                 !.s = s, !.want = svc[s].decl]

LEMMA StartIs ==
    ASSUME NEW m, NEW s
    PROVE  /\ Start(m, s).pc = IF m \notin Enabled THEN "delGet"
                               ELSE IF svc[s].live THEN "probe" ELSE "get"
           /\ Start(m, s).job = IF svc[s].live THEN "upsert" ELSE "remove"
           /\ Start(m, s).s = s /\ Start(m, s).want = svc[s].decl
BY IdleTyped DEF Start, WorkerState

LEMMA ReconcileStarts ==
    ASSUME TypeOK, NEW m \in Manager, NEW s \in Service, Reconcile(m, s)
    PROVE  /\ wk' = [wk EXCEPT ![m] = Start(m, s)] /\ wk'[m] = Start(m, s)
           /\ queue' = [queue EXCEPT ![m] = @ \ {s}]
           /\ m \in up /\ wk[m].pc = "idle" /\ UNCHANGED <<svc, policy, up, lost, early, left>>
           /\ Current(m, s)'
<1>1. /\ wk' = [wk EXCEPT ![m] = Start(m, s)]
      /\ queue' = [queue EXCEPT ![m] = @ \ {s}]
      /\ m \in up /\ wk[m].pc = "idle" /\ UNCHANGED <<svc, policy, up, lost, early, left>>
  BY DEF Reconcile, Start
<1>2. wk'[m] = Start(m, s)
  BY <1>1 DEF TypeOK
<1>3. Current(m, s)'
  BY <1>1, <1>2, StartIs DEF Current
<1>4. QED
  BY <1>1, <1>2, <1>3

LEMMA ReconcileKeeps ==
    ASSUME TypeOK, NEW m \in Manager, NEW s \in Service, Reconcile(m, s),
           NEW n \in Manager, NEW t \in Service, Requested(n, t)
    PROVE  Requested(n, t)'
<1>t. queue \in [Manager -> SUBSET Service] /\ wk \in [Manager -> WorkerState]
  BY DEF TypeOK
<1>1. CASE n = m /\ t = s
  BY <1>1, ReconcileStarts DEF Requested
<1>2. CASE n = m /\ t # s
  <2>1. t \in queue[m]
    BY <1>2, ReconcileStarts DEF Requested, Current
  <2>2. t \in queue'[m]
    BY <1>2, <1>t, <2>1, ReconcileStarts
  <2>3. QED
    BY <1>2, <2>2 DEF Requested
<1>3. CASE n # m
  <2>1. wk'[n] = wk[n] /\ queue'[n] = queue[n] /\ svc' = svc
    BY <1>3, <1>t, ReconcileStarts
  <2>2. QED
    BY <2>1 DEF Requested, Current
<1>4. QED
  BY <1>1, <1>2, <1>3

(* What each step of a worker does with its request: it keeps it in the      *)
(* queue, goes on with it, or is done.  A worker that is done without having *)
(* written the policy has found nothing to do.                               *)
NothingToDo(m) ==
    \/ /\ wk[m].pc = "probe" /\ wk[m].want.ports = {} /\ ~policy.exists
    \/ /\ wk[m].pc = "get" /\ ~policy.exists /\ wk[m].job = "remove"
    \/ /\ wk[m].pc = "get" /\ KeyOf[wk[m].s] \notin policy.keys
       /\ wk[m].job = "remove" \/ wk[m].want.ports = {}
    \/ wk[m].pc = "delGet" /\ ~policy.exists
    \/ wk[m].pc = "delete"

Continues(m) ==
    \E r \in WorkerState :
        /\ Goto(m, r) /\ GoesOn(m, r)
        /\ \/ wk[m].pc = "probe" /\ r.pc \in {"get", "create"}
           \/ wk[m].pc = "get" /\ r.pc = "put"
           \/ wk[m].pc = "put" /\ r.pc = "get"
           \/ wk[m].pc = "delGet" /\ r.pc = "delete"

LEMMA WorkSteps ==
    ASSUME TypeOK, NEW m \in Manager, Work(m)
    PROVE  /\ wk[m].pc # "idle" /\ UNCHANGED <<svc, up, early, left>>
           /\ \/ Fail(m) /\ UNCHANGED <<policy, lost>>
              \/ Continues(m) /\ UNCHANGED <<policy, lost>>
              \/ Done(m) /\ NothingToDo(m) /\ UNCHANGED <<policy, lost>>
              \/ /\ wk[m].pc = "create" /\ ~policy.exists
                 /\ Done(m) /\ policy' = FirstPolicy(m) /\ UNCHANGED lost
              \/ /\ wk[m].pc = "put" /\ policy.exists /\ policy.rv = wk[m].snap.rv
                 /\ Done(m) /\ policy' = Stored(Revised(m)) /\ UNCHANGED lost
              \/ wk[m].pc = "delete" /\ CanDelete /\ policy.exists /\ Done(m) /\ Discard
<1>t. wk[m] \in WorkerState /\ policy \in PolicyState /\ NoPolicy(0) \in PolicyState
  BY NoPolicyTyped DEF TypeOK
<1>p. \A pc \in {"get", "create", "delete"} :
         /\ [wk[m] EXCEPT !.pc = pc] \in WorkerState
         /\ GoesOn(m, [wk[m] EXCEPT !.pc = pc]) /\ [wk[m] EXCEPT !.pc = pc].pc = pc
  BY <1>t DEF WorkerState, GoesOn
<1>1. CASE Probe(m)
  <2>1. Goto(m, [wk[m] EXCEPT !.pc = "get"]) => Continues(m)
    BY <1>1, <1>p DEF Continues, Probe
  <2>2. Goto(m, [wk[m] EXCEPT !.pc = "create"]) => Continues(m)
    BY <1>1, <1>p DEF Continues, Probe
  <2>3. QED
    BY <1>1, <2>1, <2>2 DEF Probe, NothingToDo
<1>2. CASE CreatePolicy(m)
  BY <1>2 DEF CreatePolicy
<1>3. CASE GetPolicy(m)
  <2> DEFINE r == [wk[m] EXCEPT !.pc = "put", !.snap = policy]
  <2>1. r \in WorkerState /\ GoesOn(m, r) /\ r.pc = "put"
    BY <1>t DEF WorkerState, GoesOn
  <2>2. Fail(m) \/ Goto(m, r) \/ (Done(m) /\ NothingToDo(m))
    BY <1>3 DEF GetPolicy, NothingToDo
  <2> HIDE DEF r
  <2>3. Goto(m, r) => Continues(m)
    BY <1>3, <2>1 DEF Continues, GetPolicy
  <2>4. QED
    BY <1>3, <2>2, <2>3 DEF GetPolicy
<1>4. CASE PutPolicy(m)
  <2> DEFINE r == [wk[m] EXCEPT !.pc = "get", !.snap = NoPolicy(0), !.try = @ + 1]
  <2>1. wk[m].try \in 1 .. Attempts
    BY <1>t DEF WorkerState
  <2>2. wk[m].try # Attempts => wk[m].try + 1 \in 1 .. Attempts
    BY <2>1, PolicyAssumption
  <2>3. wk[m].try # Attempts => r \in WorkerState
    BY <1>t, <2>2 DEF WorkerState
  <2>4. GoesOn(m, r) /\ r.pc = "get"
    BY <1>t DEF WorkerState, GoesOn
  <2>5. Retry(m) => Fail(m) \/ (wk[m].try # Attempts /\ Goto(m, r))
    BY DEF Retry
  <2> HIDE DEF r
  <2>6. Retry(m) => Fail(m) \/ Continues(m)
    BY <1>4, <2>3, <2>4, <2>5 DEF Continues, PutPolicy
  <2>7. QED
    BY <1>4, <2>6 DEF PutPolicy, Conflict
<1>5. CASE LookForPolicy(m)
  <2>1. Goto(m, [wk[m] EXCEPT !.pc = "delete"]) => Continues(m)
    BY <1>5, <1>p DEF Continues, LookForPolicy
  <2>2. QED
    BY <1>5, <2>1 DEF LookForPolicy, NothingToDo
<1>6. CASE DeletePolicy(m)
  BY <1>6 DEF DeletePolicy, NothingToDo
<1>7. QED
  BY <1>1, <1>2, <1>3, <1>4, <1>5, <1>6 DEF Work
---------------------------------------------------------------------------
(* Where workers are, and what they were asked.                            *)

(* Only a manager that runs works; one with network policies enabled writes *)
(* the policy, one without deletes it; only a service that is there is       *)
(* probed for.                                                               *)
Posts ==
    \A m \in Manager :
        /\ m \notin up => wk[m].pc = "idle"
        /\ wk[m].pc \in {"probe", "create", "get", "put"} => m \in Enabled
        /\ wk[m].pc \in {"delGet", "delete"} => m \notin Enabled
        /\ wk[m].pc \in {"probe", "create"} => wk[m].job = "upsert"

(* A worker with an outdated declaration has the next request behind it.    *)
Behind ==
    \A m \in up : \A s \in Service : wk[m].pc # "idle" /\ wk[m].s = s => Requested(m, s)

(* Steps of the environment, as far as workers see them.                   *)
Serene == UNCHANGED <<wk, queue, up, svc>>

LEMMA EnvironmentSteps ==
    ASSUME TypeOK, Environment
    PROVE  \/ Serene /\ UNCHANGED <<lost, early>> /\ policy' = [policy EXCEPT !.rv = @ + 1]
           \/ Serene /\ Discard
           \/ \E s \in Service : Notify(s) /\ \A t \in Service \ {s} : svc'[t] = svc[t]
           \/ \E m \in Manager : ApiError(m) \/ StartManager(m) \/ StopManager(m)
<1>t. svc \in [Service -> ServiceState]
  BY DEF TypeOK
<1>1. ASSUME NEW s \in Service, Declare(s) \/ DeleteService(s)
      PROVE  Notify(s) /\ \A t \in Service \ {s} : svc'[t] = svc[t]
  BY <1>1, <1>t DEF Declare, DeleteService
<1>2. TouchPolicy => Serene /\ UNCHANGED <<lost, early>> /\ policy' = [policy EXCEPT !.rv = @ + 1]
  BY DEF TouchPolicy, Serene
<1>3. DropPolicy => Serene /\ Discard
  BY DEF DropPolicy, Serene
<1>4. QED
  BY <1>1, <1>2, <1>3 DEF Environment

(* A failing call leaves the policy, or has its effect; the request stays,   *)
(* but for the deletion of the policy, whose error does not bring it back.   *)
LEMMA ApiErrorSteps ==
    ASSUME TypeOK, NEW m \in Manager, ApiError(m)
    PROVE  /\ wk[m].pc # "idle" /\ UNCHANGED <<svc, up, early>>
           /\ Fail(m) \/ (wk[m].pc \in {"delGet", "delete"} /\ Done(m))
           /\ \/ UNCHANGED <<policy, lost>>
              \/ /\ wk[m].pc = "create" /\ ~policy.exists
                 /\ policy' = FirstPolicy(m) /\ UNCHANGED lost
              \/ /\ wk[m].pc = "put" /\ policy.exists /\ policy.rv = wk[m].snap.rv
                 /\ policy' = Stored(Revised(m)) /\ UNCHANGED lost
              \/ wk[m].pc = "delete" /\ CanDelete /\ policy.exists /\ Discard
BY DEF ApiError, Conflict

LEMMA PostsStep == TypeOK /\ Posts /\ [Next]_vars => Posts'
<1> SUFFICES ASSUME TypeOK, Posts, [Next]_vars, NEW n \in Manager
             PROVE  /\ n \notin up' => wk'[n].pc = "idle"
                    /\ wk'[n].pc \in {"probe", "create", "get", "put"} => n \in Enabled
                    /\ wk'[n].pc \in {"delGet", "delete"} => n \notin Enabled
                    /\ wk'[n].pc \in {"probe", "create"} => wk'[n].job = "upsert"
  BY DEF Posts
<1>t. wk \in [Manager -> WorkerState] /\ up \in SUBSET Manager
  BY DEF TypeOK
<1>i. Idle.pc = "idle"
  BY IdleTyped
<1>a. CASE wk'[n] = wk[n] /\ (n \in up => n \in up')
  BY <1>a DEF Posts
<1>b. CASE wk'[n] = Idle
  BY <1>b, <1>i
<1>1. ASSUME NEW m \in Manager, NEW s \in Service, Reconcile(m, s), n = m
      PROVE  /\ n \notin up' => wk'[n].pc = "idle"
             /\ wk'[n].pc \in {"probe", "create", "get", "put"} => n \in Enabled
             /\ wk'[n].pc \in {"delGet", "delete"} => n \notin Enabled
             /\ wk'[n].pc \in {"probe", "create"} => wk'[n].job = "upsert"
  <2>1. wk'[n] = Start(m, s) /\ n \in up'
    BY <1>1, ReconcileStarts
  <2>2. QED
    BY <1>1, <2>1, StartIs
<1>2. ASSUME NEW m \in Manager, NEW s \in Service, Reconcile(m, s), n # m
      PROVE  wk'[n] = wk[n] /\ (n \in up => n \in up')
  BY <1>2, <1>t, ReconcileStarts
<1>3. ASSUME NEW m \in Manager, Work(m) \/ ApiError(m), Done(m) \/ Fail(m)
      PROVE  wk'[n] = Idle \/ (wk'[n] = wk[n] /\ (n \in up => n \in up'))
  BY <1>3, <1>t, WorkSteps, ApiErrorSteps DEF Done, Fail
<1>4. ASSUME NEW m \in Manager, Work(m), Continues(m), n # m
      PROVE  wk'[n] = wk[n] /\ (n \in up => n \in up')
  BY <1>4, <1>t, WorkSteps DEF Continues, Goto
<1>5. ASSUME NEW m \in Manager, Work(m), Continues(m), n = m
      PROVE  /\ n \notin up' => wk'[n].pc = "idle"
             /\ wk'[n].pc \in {"probe", "create", "get", "put"} => n \in Enabled
             /\ wk'[n].pc \in {"delGet", "delete"} => n \notin Enabled
             /\ wk'[n].pc \in {"probe", "create"} => wk'[n].job = "upsert"
  <2>1. PICK r \in WorkerState :
            /\ Goto(m, r) /\ GoesOn(m, r)
            /\ \/ wk[m].pc = "probe" /\ r.pc \in {"get", "create"}
               \/ wk[m].pc = "get" /\ r.pc = "put"
               \/ wk[m].pc = "put" /\ r.pc = "get"
               \/ wk[m].pc = "delGet" /\ r.pc = "delete"
    BY <1>5 DEF Continues
  <2>2. wk'[n] = r /\ r.job = wk[n].job /\ up' = up
    BY <1>5, <1>t, <2>1, WorkSteps DEF Goto, GoesOn
  <2>3. QED
    BY <1>5, <2>1, <2>2 DEF Posts
<1>6. ASSUME NEW m \in Manager, StartManager(m) PROVE wk'[n] = wk[n] /\ (n \in up => n \in up')
  BY <1>6 DEF StartManager
<1>7. ASSUME NEW m \in Manager, StopManager(m)
      PROVE  wk'[n] = Idle \/ (wk'[n] = wk[n] /\ (n \in up => n \in up'))
  BY <1>7, <1>t DEF StopManager
<1>8. CASE Serene \/ UNCHANGED vars
  BY <1>8, <1>a DEF Serene, vars
<1>9. ASSUME NEW s \in Service, Notify(s) PROVE wk'[n] = wk[n] /\ (n \in up => n \in up')
  BY <1>9 DEF Notify
<1>10. ASSUME NEW m \in Manager, Work(m)
       PROVE  Done(m) \/ Fail(m) \/ Continues(m)
  BY <1>10, WorkSteps
<1>11. CASE Environment
  BY <1>11, <1>a, <1>b, <1>3, <1>6, <1>7, <1>8, <1>9, EnvironmentSteps, ApiErrorSteps
<1>12. QED
  BY <1>a, <1>b, <1>1, <1>2, <1>3, <1>4, <1>5, <1>8, <1>10, <1>11 DEF Next

LEMMA BehindStep == TypeOK /\ Posts /\ Behind /\ [Next]_vars => Behind'
<1> SUFFICES ASSUME TypeOK, Posts, Behind, [Next]_vars
             PROVE  Behind'
  OBVIOUS
<1>m. up' \in SUBSET Manager
  BY NextTyped DEF TypeOK
<1> SUFFICES ASSUME NEW n \in Manager, n \in up', NEW u \in Service,
                    wk'[n].pc # "idle", wk'[n].s = u
             PROVE  Requested(n, u)'
  BY <1>m DEF Behind
<1>t. wk \in [Manager -> WorkerState] /\ queue \in [Manager -> SUBSET Service] /\ up \in SUBSET Manager
  BY DEF TypeOK
<1>i. Idle.pc = "idle"
  BY IdleTyped
<1>w. wk[n].pc # "idle" /\ wk[n].s = u => Requested(n, u)
  BY DEF TypeOK, Posts, Behind
<1>1. ASSUME NEW m \in Manager, NEW s \in Service, Reconcile(m, s)
      PROVE  Requested(n, u)'
  <2>1. CASE n = m
    BY <1>1, <2>1, ReconcileStarts, StartIs DEF Requested
  <2>2. CASE n # m
    <3>1. wk'[n] = wk[n]
      BY <1>1, <2>2, <1>t, ReconcileStarts
    <3>2. QED
      BY <1>1, <1>w, <3>1, ReconcileKeeps
  <2>3. QED
    BY <2>1, <2>2
<1>2. ASSUME NEW m \in Manager, UNCHANGED svc, Fail(m) PROVE Requested(n, u)'
  <2>1. wk'[n] = wk[n]
    BY <1>2, <1>t, <1>i DEF Fail
  <2>2. QED
    BY <1>2, <1>w, <2>1, FailKeeps
<1>3. ASSUME NEW m \in Manager, UNCHANGED svc, Done(m) PROVE Requested(n, u)'
  <2>1. wk'[n] = wk[n] /\ n # m
    BY <1>3, <1>t, <1>i DEF Done
  <2>2. QED
    BY <1>3, <1>w, <2>1, DoneKeeps
<1>4. ASSUME NEW m \in Manager, UNCHANGED svc, Continues(m), wk[m].pc # "idle"
      PROVE  Requested(n, u)'
  <2>1. PICK r \in WorkerState : Goto(m, r) /\ GoesOn(m, r)
    BY <1>4 DEF Continues
  <2>2. wk[n].s = u /\ wk[n].pc # "idle"
    BY <1>4, <1>t, <2>1 DEF Goto, GoesOn
  <2>3. QED
    BY <1>4, <1>w, <2>1, <2>2, GotoKeeps
<1>5. CASE Serene \/ UNCHANGED vars
  <2>1. UNCHANGED <<wk, queue, svc>>
    BY <1>5 DEF Serene, vars
  <2>2. QED
    BY <1>w, <2>1 DEF Requested, Current
<1>6. ASSUME NEW s \in Service, Notify(s), \A t \in Service \ {s} : svc'[t] = svc[t]
      PROVE  Requested(n, u)'
  <2>1. wk' = wk /\ n \in up /\ queue'[n] = queue[n] \cup {s}
    BY <1>6 DEF Notify
  <2>2. CASE u = s
    BY <2>1, <2>2 DEF Requested
  <2>3. CASE u # s
    <3>1. svc'[u] = svc[u]
      BY <1>6, <1>w, <2>1, <2>3
    <3>2. QED
      BY <1>w, <2>1, <3>1 DEF Requested, Current
  <2>4. QED
    BY <2>2, <2>3
<1>7. ASSUME NEW m \in Manager, StartManager(m) PROVE Requested(n, u)'
  <2>1. wk' = wk /\ svc' = svc
    BY <1>7 DEF StartManager
  <2>2. n # m => queue'[n] = queue[n]
    BY <1>7, <1>t DEF StartManager
  <2>3. n # m
    BY <1>7, <2>1 DEF StartManager, Posts
  <2>4. QED
    BY <1>w, <2>1, <2>2, <2>3 DEF Requested, Current
<1>8. ASSUME NEW m \in Manager, StopManager(m) PROVE Requested(n, u)'
  <2>1. n # m /\ wk'[n] = wk[n] /\ queue'[n] = queue[n] /\ svc' = svc
    BY <1>8, <1>t DEF StopManager
  <2>2. QED
    BY <1>w, <2>1 DEF Requested, Current
<1>9. ASSUME NEW m \in Manager, Work(m) \/ ApiError(m) PROVE Requested(n, u)'
  BY <1>2, <1>3, <1>4, <1>9, WorkSteps, ApiErrorSteps
<1>10. CASE Environment
  BY <1>5, <1>6, <1>7, <1>8, <1>9, <1>10, EnvironmentSteps
<1>11. QED
  BY <1>1, <1>5, <1>9, <1>10 DEF Next
---------------------------------------------------------------------------
(* What a write leaves in the policy.                                      *)

LEMMA WrittenIs ==
    ASSUME TypeOK, Versions, NEW m \in Manager, wk[m].pc = "put", policy.exists,
           policy.rv = wk[m].snap.rv, policy' = Stored(Revised(m))
    PROVE  /\ policy'.exists
           /\ wk[m].job = "upsert" =>
                 /\ policy'.map = [policy.map EXCEPT ![KeyOf[wk[m].s]] = wk[m].want.ports]
                 /\ policy'.keys = policy.keys \cup {KeyOf[wk[m].s]}
                 /\ policy'.cidr = CidrOf[m]
           /\ wk[m].job # "upsert" =>
                 /\ policy'.map = [policy.map EXCEPT ![KeyOf[wk[m].s]] = {}]
                 /\ policy'.keys = policy.keys \ {KeyOf[wk[m].s]}
                 /\ policy'.cidr = policy.cidr
<1> DEFINE k == KeyOf[wk[m].s]
           E == wk[m].want.ports
           q == Revised(m)
<1>t. policy \in PolicyState /\ q \in PolicyState /\ wk[m].snap = policy
  BY RevisedTyped DEF TypeOK, Versions
<1>1. policy'.exists = q.exists /\ policy'.map = q.map /\ policy'.keys = q.keys /\ policy'.cidr = q.cidr
  <2> HIDE DEF q
  <2>1. policy' = q \/ policy' = [q EXCEPT !.rv = policy.rv + 1]
    BY DEF Stored, q
  <2>2. QED
    BY <1>t, <2>1 DEF PolicyState
<1>2. CASE wk[m].job = "upsert"
  <2>1. q = Updated(policy, k, E, CidrOf[m])
    BY <1>t, <1>2 DEF Revised
  <2> HIDE DEF k, E, q
  <2>2. /\ q.exists = policy.exists /\ q.map = [policy.map EXCEPT ![k] = E]
        /\ q.keys = policy.keys \cup {k} /\ q.cidr = CidrOf[m]
    BY <1>t, <2>1 DEF Updated, PolicyState
  <2>3. QED
    BY <1>1, <1>2, <2>2 DEF k, E
<1>3. CASE wk[m].job # "upsert"
  <2>1. q = Removed(policy, k)
    BY <1>t, <1>3 DEF Revised
  <2> HIDE DEF k, q
  <2>2. /\ q.exists = policy.exists /\ q.map = [policy.map EXCEPT ![k] = {}]
        /\ q.keys = policy.keys \ {k} /\ q.cidr = policy.cidr
    BY <1>t, <2>1 DEF Removed, PolicyState
  <2>3. QED
    BY <1>1, <1>3, <2>2 DEF k
<1>4. QED
  BY <1>2, <1>3

LEMMA FirstIs ==
    ASSUME TypeOK, NEW m \in Manager, wk[m].pc = "create", policy' = FirstPolicy(m)
    PROVE  /\ policy'.exists /\ policy'.keys = {KeyOf[wk[m].s]} /\ policy'.cidr = CidrOf[m]
           /\ policy'.map = [l \in Key |-> IF l = KeyOf[wk[m].s] THEN wk[m].want.ports ELSE {}]
BY DEF FirstPolicy

LEMMA DiscardedIs ==
    ASSUME policy' = NoPolicy(policy.rv + 1)
    PROVE  ~policy'.exists /\ policy'.keys = {} /\ policy'.map = [k \in Key |-> {}]
BY DEF NoPolicy

LEMMA TouchedIs ==
    ASSUME TypeOK, policy' = [policy EXCEPT !.rv = @ + 1]
    PROVE  /\ policy'.exists = policy.exists /\ policy'.keys = policy.keys
           /\ policy'.map = policy.map /\ policy'.cidr = policy.cidr
BY DEF TypeOK, PolicyState

(* Only the keys that the policy has say something, and without a policy    *)
(* there are none.                                                          *)
Shape ==
    /\ policy.exists \/ policy.keys = {}
    /\ \A k \in Key \ policy.keys : policy.map[k] = {}

LEMMA ShapeStep == TypeOK /\ Versions /\ Shape /\ [Next]_vars => Shape'
<1> SUFFICES ASSUME TypeOK, Versions, Shape, [Next]_vars PROVE Shape'
  OBVIOUS
<1>t. policy.map \in [Key -> SUBSET Entry] /\ \A m \in Manager : wk[m] \in WorkerState
  BY DEF TypeOK, PolicyState
<1>1. CASE policy' = policy
  BY <1>1 DEF Shape
<1>2. CASE policy' = NoPolicy(policy.rv + 1)
  BY <1>2, DiscardedIs DEF Shape
<1>3. CASE policy' = [policy EXCEPT !.rv = @ + 1]
  BY <1>3, TouchedIs DEF Shape
<1>4. ASSUME NEW m \in Manager, wk[m].pc = "create", policy' = FirstPolicy(m) PROVE Shape'
  BY <1>4, FirstIs DEF Shape
<1>5. ASSUME NEW m \in Manager, wk[m].pc = "put", policy.exists, policy.rv = wk[m].snap.rv,
             policy' = Stored(Revised(m))
      PROVE  Shape'
  <2>1. CASE wk[m].job = "upsert"
    BY <1>5, <1>t, <2>1, WrittenIs DEF Shape
  <2>2. CASE wk[m].job # "upsert"
    BY <1>5, <1>t, <2>2, WrittenIs DEF Shape
  <2>3. QED
    BY <2>1, <2>2
<1>6. QED
  BY PolicySteps, <1>1, <1>2, <1>3, <1>4, <1>5

---------------------------------------------------------------------------
(* Services with keys of their own get what they declare.                  *)

OwnKeys == \A s, t \in Service : KeyOf[s] = KeyOf[t] => s = t

(* What s asks for is in the policy.                                       *)
InForce(s) ==
    IF svc[s].live THEN svc[s].decl.valid => policy.map[KeyOf[s]] = svc[s].decl.ports
    ELSE KeyOf[s] \notin policy.keys

(* NoLostUpdate and NoLeftover together, also while no manager runs, and     *)
(* with the managers that keep the policy instead of any.                    *)
Met == \A s \in Service : s \in lost \/ Attended(s) \/ InForce(s)

RequestInv == TypeOK /\ Versions /\ Posts /\ Behind /\ Shape /\ Met

LEMMA StillAttended ==
    ASSUME NEW t \in Service, up \in SUBSET Manager, Attended(t), UNCHANGED up,
           \A n \in Manager : Requested(n, t) => Requested(n, t)'
    PROVE  Attended(t)'
BY DEF Attended

LEMMA StillInForce ==
    ASSUME NEW t \in Service, InForce(t), svc'[t] = svc[t],
           policy'.map[KeyOf[t]] = policy.map[KeyOf[t]],
           KeyOf[t] \in policy'.keys => KeyOf[t] \in policy.keys
    PROVE  InForce(t)'
BY DEF InForce

LEMMA LoseCovers ==
    ASSUME NEW S, Lose(S), NEW t \in Service, t \in lost \cup S
    PROVE  t \in lost' \/ Attended(t)'
BY DEF Lose

(* The policy changes for the service of m only.                           *)
LEMMA WriteSpares ==
    ASSUME OwnKeys, RequestInv, NEW m \in Manager, wk[m].pc # "idle",
           NEW t \in Service, t # wk[m].s, InForce(t), UNCHANGED svc,
           \/ wk[m].pc = "create" /\ ~policy.exists /\ policy' = FirstPolicy(m)
           \/ /\ wk[m].pc = "put" /\ policy.exists /\ policy.rv = wk[m].snap.rv
              /\ policy' = Stored(Revised(m))
    PROVE  InForce(t)'
<1>t. /\ TypeOK /\ Versions /\ Shape /\ wk[m].s \in Service /\ wk[m] \in WorkerState
      /\ policy.map \in [Key -> SUBSET Entry]
  BY DEF RequestInv, TypeOK, PolicyState
<1>k. KeyOf[t] \in Key /\ KeyOf[wk[m].s] \in Key /\ KeyOf[t] # KeyOf[wk[m].s]
  BY <1>t, PolicyAssumption DEF OwnKeys
<1>1. CASE wk[m].pc = "create" /\ ~policy.exists /\ policy' = FirstPolicy(m)
  <2>1. policy'.map[KeyOf[t]] = {} /\ KeyOf[t] \notin policy'.keys
    <3> DEFINE k == KeyOf[wk[m].s]
               E == wk[m].want.ports
    <3>1. policy'.keys = {k} /\ policy'.map = [l \in Key |-> IF l = k THEN E ELSE {}]
      BY <1>1, <1>t, FirstIs
    <3>2. KeyOf[t] # k
      BY <1>k
    <3> HIDE DEF k, E
    <3>3. QED
      BY <1>k, <3>1, <3>2
  <2>2. policy.map[KeyOf[t]] = {}
    BY <1>1, <1>k, <1>t DEF Shape
  <2>3. QED
    BY <2>1, <2>2, StillInForce
<1>2. CASE /\ wk[m].pc = "put" /\ policy.exists /\ policy.rv = wk[m].snap.rv
           /\ policy' = Stored(Revised(m))
  <2>1. /\ policy'.map[KeyOf[t]] = policy.map[KeyOf[t]]
        /\ KeyOf[t] \in policy'.keys => KeyOf[t] \in policy.keys
    <3>1. CASE wk[m].job = "upsert"
      BY <1>2, <1>k, <1>t, <3>1, WrittenIs
    <3>2. CASE wk[m].job # "upsert"
      BY <1>2, <1>k, <1>t, <3>2, WrittenIs
    <3>3. QED
      BY <3>1, <3>2
  <2>2. QED
    BY <2>1, StillInForce
<1>3. QED
  BY <1>1, <1>2

(* A worker that is done with what its service declares now leaves it in    *)
(* force.                                                                   *)
LEMMA DoneIsInForce ==
    ASSUME RequestInv, NEW m \in Manager, NEW t \in Service, Current(m, t), m \in Enabled,
           UNCHANGED svc,
           \/ NothingToDo(m) /\ UNCHANGED policy
           \/ wk[m].pc = "create" /\ ~policy.exists /\ policy' = FirstPolicy(m)
           \/ /\ wk[m].pc = "put" /\ policy.exists /\ policy.rv = wk[m].snap.rv
              /\ policy' = Stored(Revised(m))
    PROVE  InForce(t)'
<1>t. /\ TypeOK /\ Versions /\ Shape /\ wk[m] \in WorkerState
      /\ policy.map \in [Key -> SUBSET Entry]
  BY DEF RequestInv, TypeOK, PolicyState
<1>p. /\ wk[m].pc \in {"probe", "create"} => wk[m].job = "upsert"
      /\ wk[m].pc \notin {"delGet", "delete"}
  BY DEF RequestInv, Posts
<1>c. /\ wk[m].s = t /\ wk[m].want = svc[t].decl
      /\ svc[t].live => wk[m].job = "upsert"
      /\ ~svc[t].live => wk[m].job = "remove"
  BY DEF Current
<1>k. KeyOf[t] \in Key
  BY PolicyAssumption
<1>1. CASE NothingToDo(m) /\ UNCHANGED policy
  <2>1. CASE svc[t].live
    <3>1. svc[t].decl.ports = {} /\ KeyOf[t] \notin policy.keys
      BY <1>1, <1>c, <1>p, <1>t, <2>1 DEF NothingToDo, Shape
    <3>2. policy.map[KeyOf[t]] = {}
      BY <1>t, <1>k, <3>1 DEF Shape
    <3>3. QED
      BY <1>1, <2>1, <3>1, <3>2 DEF InForce
  <2>2. CASE ~svc[t].live
    <3>1. KeyOf[t] \notin policy.keys
      BY <1>1, <1>c, <1>p, <1>t, <2>2 DEF NothingToDo, Shape
    <3>2. QED
      BY <1>1, <2>2, <3>1 DEF InForce
  <2>3. QED
    BY <2>1, <2>2
<1>2. CASE wk[m].pc = "create" /\ ~policy.exists /\ policy' = FirstPolicy(m)
  <2>1. svc[t].live
    BY <1>2, <1>c, <1>p
  <2>2. policy'.map[KeyOf[t]] = svc[t].decl.ports
    <3> DEFINE k == KeyOf[t]
               E == svc[t].decl.ports
    <3>1. policy'.map = [l \in Key |-> IF l = k THEN E ELSE {}]
      BY <1>2, <1>c, <1>t, FirstIs
    <3>2. k \in Key
      BY <1>k
    <3> HIDE DEF k, E
    <3>3. policy'.map[k] = E
      BY <3>1, <3>2
    <3>4. QED
      BY <3>3 DEF k, E
  <2>3. QED
    BY <2>1, <2>2 DEF InForce
<1>3. CASE /\ wk[m].pc = "put" /\ policy.exists /\ policy.rv = wk[m].snap.rv
           /\ policy' = Stored(Revised(m))
  <2>1. CASE svc[t].live
    <3>1. policy'.map[KeyOf[t]] = svc[t].decl.ports
      <4> DEFINE k == KeyOf[t]
                 E == svc[t].decl.ports
      <4>0. policy'.map = [policy.map EXCEPT ![KeyOf[wk[m].s]] = wk[m].want.ports]
        BY <1>3, <1>c, <1>t, <2>1, WrittenIs
      <4>1. policy'.map = [policy.map EXCEPT ![k] = E]
        <5>1. KeyOf[wk[m].s] = k /\ wk[m].want.ports = E
          BY <1>c
        <5> HIDE DEF k, E
        <5>2. QED
          BY <4>0, <5>1
      <4>2. k \in Key
        BY <1>k
      <4> HIDE DEF k, E
      <4>3. policy'.map[k] = E
        BY <1>t, <4>1, <4>2
      <4>4. QED
        BY <4>3 DEF k, E
    <3>2. QED
      BY <2>1, <3>1 DEF InForce
  <2>2. CASE ~svc[t].live
    <3>1. KeyOf[t] \notin policy'.keys
      BY <1>3, <1>c, <1>k, <1>t, <2>2, WrittenIs
    <3>2. QED
      BY <2>2, <3>1 DEF InForce
  <2>3. QED
    BY <2>1, <2>2
<1>4. QED
  BY <1>1, <1>2, <1>3

(* The policy goes, and with it the ports of the services there are.       *)
LEMMA DiscardMet ==
    ASSUME Discard, UNCHANGED svc, NEW t \in Service
    PROVE  t \in lost' \/ Attended(t)' \/ InForce(t)'
<1>1. CASE svc[t].live
  <2>1. t \in {s \in Service : svc[s].live}
    BY <1>1
  <2>2. Lose({s \in Service : svc[s].live})
    BY DEF Discard
  <2>3. QED
    BY <2>1, <2>2, LoseCovers
<1>2. CASE ~svc[t].live
  BY <1>2, DiscardedIs DEF Discard, InForce
<1>3. QED
  BY <1>1, <1>2

LEMMA MetStep ==
    ASSUME OwnKeys, RequestInv, [Next]_vars
    PROVE  Met'
<1> SUFFICES ASSUME NEW t \in Service
             PROVE  t \in lost' \/ Attended(t)' \/ InForce(t)'
  BY DEF Met
<1>t. /\ TypeOK /\ Posts /\ Behind /\ Shape /\ up \in SUBSET Manager
      /\ t \in lost \/ Attended(t) \/ InForce(t)
  BY DEF RequestInv, Met, TypeOK
<1>s. ASSUME UNCHANGED <<policy, svc>> PROVE InForce(t) => InForce(t)'
  BY <1>s DEF InForce
<1>1. ASSUME NEW m \in Manager, NEW s \in Service, Reconcile(m, s)
      PROVE  t \in lost' \/ Attended(t)' \/ InForce(t)'
  <2>1. Attended(t) => Attended(t)'
    BY <1>1, <1>t, ReconcileKeeps, ReconcileStarts, StillAttended
  <2>2. UNCHANGED <<policy, svc, lost>>
    BY <1>1, <1>t, ReconcileStarts
  <2>3. QED
    BY <1>t, <1>s, <2>1, <2>2
<1>2. ASSUME NEW m \in Manager, Fail(m), UNCHANGED <<svc, up, policy, lost>>
      PROVE  t \in lost' \/ Attended(t)' \/ InForce(t)'
  <2>1. Attended(t) => Attended(t)'
    BY <1>2, <1>t, FailKeeps, StillAttended
  <2>2. QED
    BY <1>2, <1>t, <1>s, <2>1
<1>3. ASSUME NEW m \in Manager, Continues(m), UNCHANGED <<svc, up, policy, lost>>
      PROVE  t \in lost' \/ Attended(t)' \/ InForce(t)'
  <2>1. PICK r \in WorkerState : Goto(m, r) /\ GoesOn(m, r)
    BY <1>3 DEF Continues
  <2>2. Attended(t) => Attended(t)'
    BY <1>3, <1>t, <2>1, GotoKeeps, StillAttended
  <2>3. QED
    BY <1>3, <1>t, <1>s, <2>2
<1>4. ASSUME NEW m \in Manager, Done(m) \/ Fail(m), UNCHANGED <<svc, up, lost>>, wk[m].pc # "idle",
             \/ NothingToDo(m) /\ UNCHANGED policy
             \/ wk[m].pc = "create" /\ ~policy.exists /\ policy' = FirstPolicy(m)
             \/ /\ wk[m].pc = "put" /\ policy.exists /\ policy.rv = wk[m].snap.rv
                /\ policy' = Stored(Revised(m))
      PROVE  t \in lost' \/ Attended(t)' \/ InForce(t)'
  <2>1. CASE Attended(t)
    <3>1. PICK n \in up \cap Enabled : Requested(n, t)
      BY <2>1 DEF Attended
    <3>2. CASE Requested(n, t)'
      BY <1>4, <3>1, <3>2 DEF Attended
    <3>3. CASE ~Requested(n, t)'
      <4>1. n = m /\ Current(m, t)
        BY <1>4, <1>t, <3>1, <3>3, DoneKeeps, FailKeeps
      <4>2. InForce(t)'
        BY <1>4, <3>1, <4>1, DoneIsInForce
      <4>3. QED
        BY <4>2
    <3>4. QED
      BY <3>2, <3>3
  <2>2. CASE t \in lost
    BY <1>4, <2>2
  <2>3. CASE InForce(t) /\ ~Attended(t)
    <3>1. CASE UNCHANGED policy
      BY <1>4, <1>s, <2>3, <3>1
    <3>2. CASE ~UNCHANGED policy
      <4>1. m \in up \cap Enabled
        BY <1>4, <1>t, <3>2 DEF Posts
      <4>2. wk[m].s # t
        BY <1>4, <1>t, <2>3, <4>1 DEF Behind, Attended
      <4>3. QED
        BY <1>4, <2>3, <3>2, <4>2, WriteSpares
    <3>3. QED
      BY <3>1, <3>2
  <2>4. QED
    BY <1>t, <2>1, <2>2, <2>3
<1>5. ASSUME NEW m \in Manager, Work(m)
      PROVE  t \in lost' \/ Attended(t)' \/ InForce(t)'
  BY <1>2, <1>3, <1>4, <1>5, <1>t, WorkSteps, DiscardMet
<1>6. ASSUME NEW m \in Manager, ApiError(m)
      PROVE  t \in lost' \/ Attended(t)' \/ InForce(t)'
  <2>1. CASE Fail(m) /\ UNCHANGED <<policy, lost>>
    BY <1>2, <1>6, <1>t, <2>1, ApiErrorSteps
  <2>2. CASE wk[m].pc \in {"delGet", "delete"} /\ Done(m) /\ UNCHANGED <<policy, lost>>
    <3>1. m \notin Enabled /\ UNCHANGED <<svc, up>>
      BY <1>6, <1>t, <2>2, ApiErrorSteps DEF Posts
    <3>2. Attended(t) => Attended(t)'
      <4> SUFFICES ASSUME NEW n \in up \cap Enabled, Requested(n, t) PROVE Requested(n, t)'
        BY <3>1 DEF Attended
      <4>1. n # m
        BY <3>1
      <4>2. QED
        BY <1>t, <2>2, <3>1, <4>1, DoneKeeps
    <3>3. QED
      BY <1>t, <1>s, <2>2, <3>1, <3>2
  <2>3. CASE \/ wk[m].pc = "create" /\ ~policy.exists /\ policy' = FirstPolicy(m) /\ UNCHANGED lost
             \/ /\ wk[m].pc = "put" /\ policy.exists /\ policy.rv = wk[m].snap.rv
                /\ policy' = Stored(Revised(m)) /\ UNCHANGED lost
    BY <1>4, <1>6, <1>t, <2>3, ApiErrorSteps
  <2>4. CASE Discard
    BY <1>6, <1>t, <2>4, ApiErrorSteps, DiscardMet
  <2>5. QED
    BY <1>6, <1>t, <2>1, <2>2, <2>3, <2>4, ApiErrorSteps
<1>7. ASSUME NEW s \in Service, Notify(s), \A u \in Service \ {s} : svc'[u] = svc[u]
      PROVE  t \in lost' \/ Attended(t)' \/ InForce(t)'
  <2>1. Lose({s}) /\ UNCHANGED <<policy, up, wk>>
    BY <1>7 DEF Notify
  <2>2. CASE t = s \/ t \in lost
    BY <2>1, <2>2, LoseCovers
  <2>3. CASE t # s /\ t \notin lost
    <3>1. svc'[t] = svc[t]
      BY <1>7, <2>3
    <3>2. \A n \in Manager : Requested(n, t) => Requested(n, t)'
      BY <1>7, <2>1, <3>1 DEF Notify, Requested, Current
    <3>3. Attended(t) => Attended(t)'
      BY <1>t, <2>1, <3>2, StillAttended
    <3>4. InForce(t) => InForce(t)'
      BY <2>1, <3>1 DEF InForce
    <3>5. QED
      BY <1>t, <2>3, <3>3, <3>4
  <2>4. QED
    BY <2>2, <2>3
<1>8. ASSUME NEW m \in Manager, StartManager(m)
      PROVE  t \in lost' \/ Attended(t)' \/ InForce(t)'
  <2>1. Lose({}) /\ UNCHANGED <<svc, policy, wk>> /\ up' = up \cup {m} /\ m \notin up
    BY <1>8 DEF StartManager
  <2>2. Attended(t) => Attended(t)'
    <3> SUFFICES ASSUME NEW n \in up \cap Enabled, Requested(n, t) PROVE Requested(n, t)'
      BY <2>1 DEF Attended
    <3>1. n # m /\ queue'[n] = queue[n]
      BY <1>8, <1>t, <2>1 DEF StartManager, TypeOK
    <3>2. QED
      BY <2>1, <3>1 DEF Requested, Current
  <2>3. t \in lost => t \in lost' \/ Attended(t)'
    BY <2>1, LoseCovers
  <2>4. QED
    BY <1>t, <1>s, <2>1, <2>2, <2>3
<1>9. ASSUME NEW m \in Manager, StopManager(m)
      PROVE  t \in lost' \/ Attended(t)' \/ InForce(t)'
  <2>1. Lose({s \in Service : Attended(s)}) /\ UNCHANGED <<svc, policy>>
    BY <1>9 DEF StopManager
  <2>2. t \in lost \/ Attended(t) => t \in lost' \/ Attended(t)'
    <3>1. Attended(t) => t \in {s \in Service : Attended(s)}
      OBVIOUS
    <3>2. QED
      BY <2>1, <3>1, LoseCovers
  <2>3. QED
    BY <1>t, <1>s, <2>1, <2>2
<1>10. CASE UNCHANGED lost /\ Serene /\ policy' = [policy EXCEPT !.rv = @ + 1]
  <2>1. UNCHANGED <<wk, queue, up, svc>>
    BY <1>10 DEF Serene
  <2>2. Attended(t) => Attended(t)'
    BY <2>1 DEF Attended, Requested, Current
  <2>3. InForce(t) => InForce(t)'
    BY <1>10, <1>t, <2>1, TouchedIs, StillInForce
  <2>4. QED
    BY <1>10, <1>t, <2>2, <2>3
<1>11. CASE UNCHANGED vars
  <2>1. UNCHANGED <<wk, queue, up, svc, policy, lost>>
    BY <1>11 DEF vars
  <2>2. Attended(t) => Attended(t)'
    BY <2>1 DEF Attended, Requested, Current
  <2>3. QED
    BY <1>t, <1>s, <2>1, <2>2
<1>12. CASE Serene /\ Discard
  BY <1>12, DiscardMet DEF Serene
<1>13. CASE Environment
  BY <1>6, <1>7, <1>8, <1>9, <1>10, <1>12, <1>13, <1>t, EnvironmentSteps
<1>14. QED
  BY <1>1, <1>5, <1>11, <1>13 DEF Next

LEMMA RequestInvHolds ==
    ASSUME OwnKeys PROVE Spec => []RequestInv
<1>1. Init => RequestInv
  <2> SUFFICES ASSUME Init PROVE RequestInv
    OBVIOUS
  <2>1. \A m \in Manager : wk[m].pc = "idle"
    BY IdleTyped DEF Init
  <2>2. up \in SUBSET Manager
    BY InitTyped DEF TypeOK
  <2>3. Versions /\ Posts /\ Behind
    BY <2>1, <2>2 DEF Versions, Posts, Behind
  <2>4. Shape
    <3>1. InitPolicy.exists \/ InitPolicy.keys = {}
      BY InitPolicyAssumption DEF NoPolicy
    <3>2. QED
      BY <3>1, InitPolicyAssumption DEF Init, Shape
  <2>5. Met
    BY DEF Init, Met, InForce, Gone
  <2>6. QED
    BY <2>3, <2>4, <2>5, InitTyped DEF RequestInv
<1>2. RequestInv /\ [Next]_vars => RequestInv'
  BY MetStep, NextTyped, VersionsStep, PostsStep, BehindStep, ShapeStep DEF RequestInv
<1>3. QED
  BY <1>1, <1>2, PTL DEF Spec

LEMMA InUseAttends ==
    ASSUME InUse, NEW s \in Service, Attended(s)
    PROVE  Pending(s)
BY DEF InUse, Attended, Pending

(* What Reconcile has dealt with is in force, for any number of services     *)
(* with annotation keys of their own and any number of managers that start,   *)
(* overlap and end: the policy records for a service exactly what its         *)
(* annotation declares, unless the request was lost with a manager or the     *)
(* policy was deleted by others.                                              *)
THEOREM DeclarationsAreRecorded ==
    ASSUME OwnKeys PROVE Spec => []NoLostUpdate
<1>1. RequestInv => NoLostUpdate
  BY InUseAttends DEF RequestInv, Met, NoLostUpdate, Settled, Handled, InForce
<1>2. QED
  BY <1>1, RequestInvHolds, PTL

(* handleDelete leaves no key of a deleted service behind, whatever stale    *)
(* update of that service another manager still has under way.               *)
THEOREM DeletedServicesLeaveNothing ==
    ASSUME OwnKeys PROVE Spec => []NoLeftover
<1>1. RequestInv => NoLeftover
  BY InUseAttends DEF RequestInv, Met, NoLeftover, InForce
<1>2. QED
  BY <1>1, RequestInvHolds, PTL

(* A port that a service exposes, and that no other service may expose, is    *)
(* open once updateNetworkPolicy has dealt with the service.                  *)
THEOREM DeclaredPortsAreOpen ==
    ASSUME OwnKeys PROVE Spec => []ExposedPortsOpen
<1>1. NoLostUpdate /\ BookInv => ExposedPortsOpen
  <2> SUFFICES ASSUME NoLostUpdate, BookInv, NEW s \in Service, Settled(s),
                      NEW e \in svc[s].decl.ports, PortOf[e] \in Sole
               PROVE  PortOf[e] \in policy.ports
    BY DEF ExposedPortsOpen, Ports
  <2>1. policy.map[KeyOf[s]] = svc[s].decl.ports
    BY DEF NoLostUpdate
  <2>2. KeyOf[s] \in Key
    BY PolicyAssumption
  <2>3. PortOf[e] \in Recorded(policy)
    BY <2>1, <2>2, RecordedIs
  <2>4. QED
    BY <2>3 DEF BookInv, Kept, Fair
<1>2. QED
  BY <1>1, DeclarationsAreRecorded, BookInvHolds, PTL

---------------------------------------------------------------------------
(* The CIDR of the managers that run.                                      *)

(* s exposes a port, a manager keeps the policy, and yet the policy has the *)
(* CIDR of none that runs.                                                  *)
Owed(s) ==
    /\ up \cap Enabled # {} /\ policy.exists /\ ~CidrInForce
    /\ svc[s].live /\ svc[s].decl.valid /\ svc[s].decl.ports # {}

(* What makes CidrApplied inductive: then a manager has yet to look at s, or *)
(* all had done so before another one ended.                                 *)
CidrInv == \A s \in Service : Owed(s) => s \in early \/ Attended(s)

(* A write of a manager either applies its CIDR or leaves the one there is.  *)
LEMMA WriteCidr ==
    ASSUME TypeOK, Versions, Posts, NEW m \in Manager,
           \/ UNCHANGED policy
           \/ wk[m].pc = "create" /\ policy' = FirstPolicy(m)
           \/ /\ wk[m].pc = "put" /\ policy.exists /\ policy.rv = wk[m].snap.rv
              /\ policy' = Stored(Revised(m))
           \/ Discard,
           UNCHANGED <<svc, up>>, NEW s \in Service, Owed(s)'
    PROVE  Owed(s)
<1>1. ASSUME policy'.cidr = CidrOf[m], m \in up PROVE FALSE
  BY <1>1 DEF Owed, CidrInForce
<1>2. CASE UNCHANGED policy
  BY <1>2 DEF Owed, CidrInForce
<1>3. CASE wk[m].pc = "create" /\ policy' = FirstPolicy(m)
  BY <1>1, <1>3, FirstIs DEF Posts
<1>4. CASE /\ wk[m].pc = "put" /\ policy.exists /\ policy.rv = wk[m].snap.rv
           /\ policy' = Stored(Revised(m))
  <2>1. wk[m].job # "upsert" /\ policy'.cidr = policy.cidr
    BY <1>1, <1>4, WrittenIs DEF Posts
  <2>2. QED
    BY <1>4, <2>1 DEF Owed, CidrInForce
<1>5. CASE Discard
  BY <1>5, DiscardedIs DEF Discard, Owed
<1>6. QED
  BY <1>2, <1>3, <1>4, <1>5

(* A worker that is done with a service that exposes a port has applied its  *)
(* CIDR, or the policy is gone.                                              *)
LEMMA DoneAppliesCidr ==
    ASSUME TypeOK, Versions, Posts, NEW m \in up \cap Enabled, NEW s \in Service, Current(m, s),
           UNCHANGED <<svc, up>>, Owed(s)',
           \/ NothingToDo(m) /\ UNCHANGED policy
           \/ wk[m].pc = "create" /\ policy' = FirstPolicy(m)
           \/ /\ wk[m].pc = "put" /\ policy.exists /\ policy.rv = wk[m].snap.rv
              /\ policy' = Stored(Revised(m))
           \/ Discard
    PROVE  FALSE
<1>t. m \in Manager
  BY DEF TypeOK
<1>1. /\ wk[m].job = "upsert" /\ wk[m].want.ports # {} /\ wk[m].pc \notin {"delGet", "delete"}
  BY <1>t DEF Current, Posts, Owed
<1>2. policy'.cidr # CidrOf[m] /\ policy'.exists
  BY DEF Owed, CidrInForce
<1>3. CASE NothingToDo(m)
  BY <1>1, <1>3 DEF NothingToDo
<1>4. CASE wk[m].pc = "create" /\ policy' = FirstPolicy(m)
  BY <1>t, <1>2, <1>4, FirstIs
<1>5. CASE /\ wk[m].pc = "put" /\ policy.exists /\ policy.rv = wk[m].snap.rv
           /\ policy' = Stored(Revised(m))
  BY <1>t, <1>1, <1>2, <1>5, WrittenIs
<1>6. CASE Discard
  BY <1>2, <1>6, DiscardedIs DEF Discard
<1>7. QED
  BY <1>3, <1>4, <1>5, <1>6

LEMMA CidrStep ==
    ASSUME TypeOK, Versions, Posts, CidrInv, [Next]_vars
    PROVE  CidrInv'
<1> SUFFICES ASSUME NEW s \in Service, Owed(s)', s \notin early', ~Attended(s)'
             PROVE  FALSE
  BY DEF CidrInv
<1>t. up \in SUBSET Manager
  BY DEF TypeOK
<1>i. Owed(s) /\ s \notin early => Attended(s)
  BY DEF CidrInv
<1>1. ASSUME NEW m \in Manager, NEW t \in Service, Reconcile(m, t) PROVE FALSE
  <2>1. UNCHANGED <<svc, policy, up, early>>
    BY <1>1, ReconcileStarts
  <2>2. Owed(s)
    BY <2>1 DEF Owed, CidrInForce
  <2>3. Attended(s) => Attended(s)'
    BY <1>1, <1>t, <2>1, ReconcileKeeps, StillAttended
  <2>4. QED
    BY <1>i, <2>1, <2>2, <2>3
<1>2. ASSUME NEW m \in Manager, Work(m) PROVE FALSE
  <2>1. UNCHANGED <<svc, up, early>>
    BY <1>2, WorkSteps
  <2>2. Owed(s)
    BY <1>2, <2>1, WorkSteps, WriteCidr
  <2>3. PICK n \in up \cap Enabled : Requested(n, s)
    BY <1>i, <2>1, <2>2 DEF Attended
  <2>4. n \in Manager /\ ~Requested(n, s)'
    BY <1>t, <2>1, <2>3 DEF Attended
  <2>5. CASE Fail(m)
    BY <2>1, <2>3, <2>4, <2>5, FailKeeps
  <2>6. CASE Continues(m)
    BY <2>1, <2>3, <2>4, <2>6, GotoKeeps DEF Continues
  <2>7. CASE Done(m) /\ ~Fail(m) /\ ~Continues(m)
    <3>1. n = m /\ Current(m, s)
      BY <2>1, <2>3, <2>4, <2>7, DoneKeeps
    <3>2. \/ NothingToDo(m) /\ UNCHANGED policy
          \/ wk[m].pc = "create" /\ policy' = FirstPolicy(m)
          \/ /\ wk[m].pc = "put" /\ policy.exists /\ policy.rv = wk[m].snap.rv
             /\ policy' = Stored(Revised(m))
          \/ Discard
      BY <1>2, <2>7, WorkSteps
    <3>3. QED
      BY <2>1, <2>3, <3>1, <3>2, DoneAppliesCidr
  <2>8. QED
    BY <1>2, <2>5, <2>6, <2>7, WorkSteps
<1>3. ASSUME NEW m \in Manager, ApiError(m) PROVE FALSE
  <2>1. UNCHANGED <<svc, up, early>>
    BY <1>3, ApiErrorSteps
  <2>2. Owed(s)
    BY <1>3, <2>1, ApiErrorSteps, WriteCidr
  <2>3. PICK n \in up \cap Enabled : Requested(n, s)
    BY <1>i, <2>1, <2>2 DEF Attended
  <2>4. n \in Manager /\ ~Requested(n, s)'
    BY <1>t, <2>1, <2>3 DEF Attended
  <2>5. CASE Fail(m)
    BY <2>1, <2>3, <2>4, <2>5, FailKeeps
  <2>6. CASE wk[m].pc \in {"delGet", "delete"} /\ Done(m)
    <3>1. n # m
      BY <2>3, <2>6 DEF Posts
    <3>2. QED
      BY <2>1, <2>3, <2>4, <2>6, <3>1, DoneKeeps
  <2>7. QED
    BY <1>3, <2>5, <2>6, ApiErrorSteps
<1>4. CASE UNCHANGED vars \/ (Serene /\ UNCHANGED early /\ policy' = [policy EXCEPT !.rv = @ + 1])
  <2>1. UNCHANGED <<wk, queue, up, svc, early>>
    BY <1>4 DEF Serene, vars
  <2>2. policy'.exists = policy.exists /\ policy'.cidr = policy.cidr
    BY <1>4, TouchedIs DEF vars
  <2>3. Owed(s)
    BY <2>1, <2>2 DEF Owed, CidrInForce
  <2>4. Attended(s) => Attended(s)'
    BY <2>1 DEF Attended, Requested, Current
  <2>5. QED
    BY <1>i, <2>1, <2>3, <2>4
<1>5. CASE Discard
  BY <1>5, DiscardedIs DEF Discard, Owed
<1>6. ASSUME NEW t \in Service, Notify(t), \A u \in Service \ {t} : svc'[u] = svc[u] PROVE FALSE
  <2>1. UNCHANGED <<policy, up, wk>> /\ \A n \in up : queue'[n] = queue[n] \cup {t}
    BY <1>6, <1>t DEF Notify
  <2>2. s # t
    BY <2>1 DEF Owed, Attended, Requested
  <2>3. svc'[s] = svc[s]
    BY <1>6, <2>2
  <2>4. Owed(s)
    BY <2>1, <2>3 DEF Owed, CidrInForce
  <2>5. s \notin early
    BY <1>6 DEF Notify, Reattend
  <2>6. Attended(s) => Attended(s)'
    BY <2>1, <2>3 DEF Attended, Requested, Current
  <2>7. QED
    BY <1>i, <2>4, <2>5, <2>6
<1>7. ASSUME NEW m \in Manager, StartManager(m) PROVE FALSE
  <2>1. /\ UNCHANGED <<svc, policy, wk>> /\ up' = up \cup {m} /\ m \notin up
        /\ queue' = [queue EXCEPT ![m] = {u \in Service : svc[u].live}]
    BY <1>7 DEF StartManager
  <2>2. s \in queue'[m]
    BY <2>1 DEF Owed, TypeOK
  <2>3. m \notin Enabled
    BY <2>1, <2>2 DEF Attended, Requested
  <2>4. Owed(s)
    BY <2>1, <2>3 DEF Owed, CidrInForce
  <2>5. s \notin early
    BY <1>7 DEF StartManager, Reattend
  <2>6. \A n \in up : queue'[n] = queue[n]
    BY <1>t, <2>1 DEF TypeOK
  <2>7. Attended(s) => Attended(s)'
    BY <2>1, <2>6 DEF Attended, Requested, Current
  <2>8. QED
    BY <1>i, <2>4, <2>5, <2>7
<1>8. ASSUME NEW m \in Manager, StopManager(m) PROVE FALSE
  <2>1. early' = {u \in Service : ~CidrInForce' /\ ~Attended(u)'}
    BY <1>8 DEF StopManager
  <2>2. QED
    BY <2>1 DEF Owed
<1>9. CASE Environment
  BY <1>3, <1>4, <1>5, <1>6, <1>7, <1>8, <1>9, EnvironmentSteps
<1>10. QED
  BY <1>1, <1>2, <1>4, <1>9 DEF Next

(* updateCIDR, for any managers that start, overlap and end, the rolling      *)
(* update included: the policy has the CIDR of one that runs as soon as they  *)
(* have dealt with a service that exposes a port, unless they had done so     *)
(* before a manager ended that has written the policy after them.             *)
THEOREM CidrOfARunningManagerApplies == Spec => []CidrApplied
<1> DEFINE I == TypeOK /\ Versions /\ Posts /\ CidrInv
<1>1. Init => I
  <2> SUFFICES ASSUME Init PROVE I
    OBVIOUS
  <2>1. \A m \in Manager : wk[m].pc = "idle"
    BY IdleTyped DEF Init
  <2>2. TypeOK /\ Versions /\ Posts
    BY <2>1, InitTyped DEF Versions, Posts, TypeOK
  <2>3. CidrInv
    BY DEF Init, CidrInv, Owed, Gone
  <2>4. QED
    BY <2>2, <2>3
<1>2. I /\ [Next]_vars => I'
  BY NextTyped, VersionsStep, PostsStep, CidrStep
<1>3. I => CidrApplied
  <2> SUFFICES ASSUME I, InUse, policy.exists, ~CidrInForce,
                      NEW s \in Service \ early, Handled(s), svc[s].decl.ports # {}
               PROVE  FALSE
    BY DEF CidrApplied
  <2>1. Owed(s)
    BY DEF Owed, Handled, InUse
  <2>2. Attended(s)
    BY <2>1 DEF CidrInv
  <2>3. QED
    BY <2>2, InUseAttends DEF Handled
<1>4. QED
  BY <1>1, <1>2, <1>3, PTL DEF Spec
=============================================================================
