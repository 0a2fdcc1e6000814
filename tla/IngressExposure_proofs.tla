----------------------- MODULE IngressExposure_proofs -----------------------
(* Type correctness and NoLostUpdate of IngressExposure, for every set of    *)
(* services, every assignment of ces services and every bound.              *)
EXTENDS IngressExposure, TLAPS

(* What the worker of controller w holds.  A reconcile of one service holds  *)
(* its one request, and that of the deployment controller a labelled one.    *)
Single(w, r) ==
    /\ r.pc = "next" => r.rest = {}
    /\ w # "maintenance" =>
          /\ r.job = "upsert" /\ r.pc # "rewrite"
          /\ r.pc = "next" =>
                /\ \E s \in Service : r.todo = {s}
                /\ w = "deployment" => r.todo \subseteq Labelled
          /\ r.pc \in Writing \cup {"ces"} =>
                r.todo = {} /\ (w = "deployment" => r.cur \in Labelled)

OneRequest == \A w \in Controllers : Single(w, wk[w])

(* The inductive invariant: a failing reconcile queues the request it holds, *)
(* which is all it was going to write only because it holds one.             *)
Inv == TypeOK /\ OneRequest /\ NoLostUpdate

---------------------------------------------------------------------------
LEMMA IdleType == Gone \in ServiceState /\ Idle \in WorkerState
BY DEF Gone, Idle, ServiceState, WorkerState, NoDeclaration, Declaration, Kinds,
       Regular, Routes, Selectors, Writing

LEMMA BetweenType ==
    ASSUME NEW pc \in {"next", "rewrite"}, NEW job \in {"upsert", "activate", "deactivate"},
           NEW S \in SUBSET Service, NEW snap \in [Service -> ServiceState]
    PROVE  /\ Between(pc, job, S, snap) \in WorkerState
           /\ Between(pc, job, S, snap).pc = pc
           /\ Between(pc, job, S, snap).todo = S
           /\ Between(pc, job, S, snap).snap = snap
           /\ Between(pc, job, S, snap).job = job
BY IdleType DEF Between, Idle, WorkerState

LEMMA BetweenRest ==
    \A pc, job, S, snap : Between(pc, job, S, snap).rest = {}
BY DEF Between, Idle

LEMMA AfterServiceType ==
    ASSUME NEW r \in WorkerState
    PROVE  /\ AfterService(r) \in WorkerState
           /\ AfterService(r).pc \in {"idle", "next", "rewrite"}
           /\ AfterService(r).pc = "rewrite" => r.job # "upsert"
           /\ r.todo # {} => /\ AfterService(r).pc = "next"
                             /\ AfterService(r).todo = r.todo
                             /\ AfterService(r).snap = r.snap
                             /\ AfterService(r).rest = {}
<1> DEFINE rewrites == {s \in Service : Rewritable(s, r.snap[s])}
<1>1. /\ r.todo \in SUBSET Service /\ r.snap \in [Service -> ServiceState]
      /\ r.job \in {"upsert", "activate", "deactivate"}
  BY DEF WorkerState
<1>2. rewrites \in SUBSET Service
  OBVIOUS
<1>3. CASE r.todo # {}
  <2>1. AfterService(r) = Between("next", r.job, r.todo, r.snap)
    BY <1>3 DEF AfterService
  <2> DEFINE b == Between("next", r.job, r.todo, r.snap)
  <2>2. /\ b \in WorkerState /\ b.pc = "next" /\ b.todo = r.todo /\ b.snap = r.snap
    BY <1>1, BetweenType
  <2>3. b.rest = {}
    BY BetweenRest
  <2>4. AfterService(r) = b
    BY <2>1 DEF b
  <2> HIDE DEF b
  <2> QED
    BY <1>3, <2>2, <2>3, <2>4
<1>4. CASE r.todo = {} /\ r.job # "upsert" /\ rewrites # {}
  <2>1. AfterService(r) = Between("rewrite", r.job, rewrites, r.snap)
    BY <1>4 DEF AfterService
  <2> HIDE DEF rewrites
  <2>2. /\ Between("rewrite", r.job, rewrites, r.snap) \in WorkerState
        /\ Between("rewrite", r.job, rewrites, r.snap).pc = "rewrite"
    BY <1>1, <1>2, BetweenType
  <2> QED
    BY <1>4, <2>1, <2>2
<1>5. CASE r.todo = {} /\ ~(r.job # "upsert" /\ rewrites # {})
  <2>1. AfterService(r) = Idle
    BY <1>5 DEF AfterService
  <2> QED
    BY <1>5, <2>1, IdleType DEF Idle
<1> QED
  BY <1>3, <1>4, <1>5

LEMMA AfterCesType ==
    ASSUME NEW r \in WorkerState, r.pc \in Writing \cup {"next"}, r.cur \in Service
    PROVE  /\ AfterCes(r) \in WorkerState
           /\ AfterCes(r).pc \in {"idle", "next", "rewrite", "ces"}
           /\ AfterCes(r).pc = "ces" => AfterCes(r).cur \in Service
           /\ AfterCes(r).pc = "rewrite" => r.job # "upsert"
BY AfterServiceType DEF AfterCes, WorkerState, Routes
LEMMA SnapOfType ==
    ASSUME TypeOK, NEW S \in SUBSET Service
    PROVE  SnapOf(S) \in [Service -> ServiceState]
BY IdleType DEF SnapOf, TypeOK

(* The part of TypeOK that speaks of the workers. *)
WorkersOK ==
    /\ wk \in [Controllers -> WorkerState]
    /\ \A w \in Controllers :
          /\ wk[w].pc \in Writing \cup {"ces"} => wk[w].cur \in Service
          /\ wk[w].pc \in Writing => wk[w].c \in Ces

LEMMA WorkerStep ==
    ASSUME TypeOK, NEW w \in Controllers, NEW r \in WorkerState,
           wk' = [wk EXCEPT ![w] = r],
           r.pc \in Writing \cup {"ces"} => r.cur \in Service,
           r.pc \in Writing => r.c \in Ces
    PROVE  WorkersOK'
BY DEF TypeOK, WorkersOK

LEMMA FailType ==
    ASSUME TypeOK, NEW w \in Controllers, NEW s \in Service, Fail(w, s)
    PROVE  /\ WorkersOK'
           /\ svcQ' \in SUBSET Service /\ depQ' \in SUBSET Service /\ mntQ' \in BOOLEAN
<1>1. WorkersOK'
  BY WorkerStep, IdleType DEF Fail, Idle, Writing
<1> QED
  BY <1>1 DEF Fail, TypeOK

LEMMA SpendType ==
    ASSUME TypeOK, NEW k \in EventKinds \ {"any"}, Spend(k)
    PROVE  left' \in [EventKinds -> Nat]
BY DEF TypeOK, Spend, EventKinds

LEMMA StartType ==
    ASSUME TypeOK, NEW w \in Controllers, NEW S \in SUBSET Service,
           NEW job \in {"upsert", "activate", "deactivate"}, Start(w, job, S)
    PROVE  WorkersOK'
<1> DEFINE r == Between("next", job, S, SnapOf(S))
<1>1. r \in WorkerState /\ r.pc = "next"
  BY SnapOfType, BetweenType
<1>2. wk' = [wk EXCEPT ![w] = r]
  BY DEF Start
<1> HIDE DEF r
<1> QED
  BY <1>1, <1>2, WorkerStep DEF Writing
(* What the steps of a reconcile make of a worker's record. *)
LEMMA AtType ==
    ASSUME NEW r \in WorkerState, NEW pc \in Writing, NEW n \in Nat
    PROVE  /\ At(r, pc, n) \in WorkerState
           /\ At(r, pc, n).pc = pc /\ At(r, pc, n).cur = r.cur
           /\ At(r, pc, n).c = r.c /\ At(r, pc, n).todo = r.todo
           /\ At(r, pc, n).rest = r.rest /\ At(r, pc, n).snap = r.snap
           /\ At(r, pc, n).job = r.job
BY DEF WorkerState, At

LEMMA ChosenType ==
    ASSUME NEW r \in WorkerState, NEW c \in Ces, NEW out \in Routes
    PROVE  /\ Chosen(r, c, out) \in WorkerState
           /\ Chosen(r, c, out).pc \in Writing /\ Chosen(r, c, out).cur = r.cur
           /\ Chosen(r, c, out).c = c /\ Chosen(r, c, out).todo = r.todo
           /\ Chosen(r, c, out).rest = r.rest \ {c} /\ Chosen(r, c, out).snap = r.snap
           /\ Chosen(r, c, out).job = r.job
BY DEF WorkerState, Chosen, Writing

LEMMA BegunType ==
    ASSUME NEW r \in WorkerState, NEW s \in Service, NEW m \in BOOLEAN
    PROVE  /\ Begun(r, s, m) \in WorkerState
           /\ Begun(r, s, m).pc = r.pc /\ Begun(r, s, m).cur = s
           /\ Begun(r, s, m).todo = r.todo \ {s}
           /\ Begun(r, s, m).rest = {c \in Ces : Declares(r.snap[s], c)}
           /\ Begun(r, s, m).snap = r.snap /\ Begun(r, s, m).job = r.job
<1>1. PICK C \in SUBSET Ces : C = {c \in Ces : Declares(r.snap[s], c)}
  OBVIOUS
<1>2. Begun(r, s, m) = [r EXCEPT !.cur = s, !.todo = @ \ {s}, !.maint = m, !.rest = C]
  BY <1>1 DEF Begun
<1>3. /\ Begun(r, s, m) \in WorkerState
      /\ Begun(r, s, m).pc = r.pc /\ Begun(r, s, m).cur = s
      /\ Begun(r, s, m).todo = r.todo \ {s} /\ Begun(r, s, m).rest = C
      /\ Begun(r, s, m).snap = r.snap /\ Begun(r, s, m).job = r.job
  <2> DEFINE q == [r EXCEPT !.cur = s, !.todo = @ \ {s}, !.maint = m, !.rest = C]
  <2>1. /\ q \in WorkerState
        /\ q.pc = r.pc /\ q.cur = s /\ q.todo = r.todo \ {s} /\ q.rest = C
        /\ q.snap = r.snap /\ q.job = r.job
    BY DEF WorkerState
  <2>2. Begun(r, s, m) = q
    BY <1>2
  <2> HIDE DEF q
  <2> QED
    BY <2>1, <2>2
<1> QED
  BY <1>1, <1>3

LEMMA RetiredType ==
    ASSUME NEW n \in Nat
    PROVE  [Gone EXCEPT !.rv = n] \in ServiceState /\ [Gone EXCEPT !.rv = n].uid = 0
BY DEF ServiceState, Gone, NoDeclaration, Declaration, Kinds, Regular, Selectors

LEMMA RouteChosen ==
    ASSUME TypeOK, NEW w \in Controllers, wk[w].cur \in Service, NEW c \in Ces
    PROVE  ChosenRoute(wk[w], c) \in Routes \cup {"badRewrite"}
BY DEF TypeOK, ChosenRoute, WorkerState, ServiceState, Declaration, Kinds, Routes

LEMMA TypeStep == TypeOK /\ [Next]_vars => TypeOK'
<1> SUFFICES ASSUME TypeOK, [Next]_vars PROVE TypeOK'
  OBVIOUS
<1> USE ConstantsAssumption
<1>w. \A w \in Controllers : wk[w] \in WorkerState
  BY DEF TypeOK
<1>1. ASSUME NEW s \in Service, ServiceReconcile(s) PROVE TypeOK'
  <2>1. WorkersOK'
    BY <1>1, StartType DEF ServiceReconcile, Controllers, TypeOK, WorkersOK
  <2> QED
    BY <1>1, <2>1 DEF ServiceReconcile, TypeOK, WorkersOK, cluster
<1>2. ASSUME NEW s \in Service, DeploymentReconcile(s) PROVE TypeOK'
  <2>1. WorkersOK'
    BY <1>2, StartType DEF DeploymentReconcile, Controllers, TypeOK, WorkersOK
  <2> QED
    BY <1>2, <2>1 DEF DeploymentReconcile, TypeOK, WorkersOK, cluster
<1>3. ASSUME MaintenanceReconcile PROVE TypeOK'
  <2>1. WorkersOK'
    <3>1. LiveServices \in SUBSET Service
      BY DEF LiveServices
    <3> QED
      BY <1>3, <3>1, StartType DEF MaintenanceReconcile, Controllers, TypeOK, WorkersOK
  <2> QED
    BY <1>3, <2>1 DEF MaintenanceReconcile, TypeOK, WorkersOK, cluster
<1>4. ASSUME NEW w \in Controllers, NEW s \in Service, BeginService(w, s) PROVE TypeOK'
  <2> DEFINE r == Begun(wk[w], s, maintenance)
  <2>1. CASE Fail(w, s)
    BY <1>4, <2>1, FailType DEF BeginService, TypeOK, WorkersOK, cluster
  <2>2. CASE wk' = [wk EXCEPT ![w] = AfterCes(r)] /\ UNCHANGED queues
    <3>1. r \in WorkerState /\ r.pc = "next" /\ r.cur \in Service
      BY <1>4, <1>w, BegunType DEF BeginService, TypeOK
    <3>2. /\ AfterCes(r) \in WorkerState
          /\ AfterCes(r).pc \in {"idle", "next", "rewrite", "ces"}
          /\ AfterCes(r).pc = "ces" => AfterCes(r).cur \in Service
      BY <3>1, AfterCesType
    <3>3. WorkersOK'
      BY <2>2, <3>2, WorkerStep DEF Writing
    <3> QED
      BY <1>4, <2>2, <3>3 DEF BeginService, TypeOK, WorkersOK, cluster, queues
  <2> QED
    BY <1>4, <2>1, <2>2 DEF BeginService
<1>5. ASSUME NEW w \in Controllers, NEW c \in Ces, ChooseCes(w, c) PROVE TypeOK'
  <2> DEFINE out == ChosenRoute(wk[w], c)
  <2>0. wk[w].cur \in Service
    BY <1>5 DEF ChooseCes, TypeOK
  <2>1. CASE Fail(w, wk[w].cur)
    BY <1>5, <2>0, <2>1, FailType DEF ChooseCes, TypeOK, WorkersOK, cluster
  <2>2. CASE out # "badRewrite" /\ wk' = [wk EXCEPT ![w] = Chosen(wk[w], c, out)]
             /\ UNCHANGED queues
    <3>1. out \in Routes
      BY <2>0, <2>2, RouteChosen
    <3>2. WorkersOK'
      <4> DEFINE q == Chosen(wk[w], c, out)
      <4>1. q \in WorkerState /\ q.cur \in Service /\ q.c \in Ces
        BY <1>w, <2>0, <3>1, ChosenType
      <4>2. wk' = [wk EXCEPT ![w] = q]
        BY <2>2
      <4> HIDE DEF q
      <4> QED
        BY <4>1, <4>2, WorkerStep
    <3> QED
      BY <1>5, <2>2, <3>2 DEF ChooseCes, TypeOK, WorkersOK, cluster, queues
  <2> QED
    BY <1>5, <2>1, <2>2 DEF ChooseCes
<1>6. ASSUME NEW w \in Controllers, GetMiddleware(w) PROVE TypeOK'
  <2> DEFINE n == IF mw[wk[w].c].owner = 0 THEN 0 ELSE mw[wk[w].c].rv
  <2>1. wk[w].c \in Ces /\ wk[w].cur \in Service
    BY <1>6 DEF GetMiddleware, TypeOK, Writing
  <2>2. n \in Nat /\ "mwPut" \in Writing
    BY <2>1 DEF TypeOK, MiddlewareState, Writing
  <2>3. wk' = [wk EXCEPT ![w] = At(wk[w], "mwPut", n)]
    BY <1>6 DEF GetMiddleware
  <2>4. WorkersOK'
    <3> DEFINE q == At(wk[w], "mwPut", n)
    <3>1. q \in WorkerState /\ q.cur \in Service /\ q.c \in Ces
      <4> HIDE DEF n
      <4> QED
        BY <1>w, <2>1, <2>2, AtType
    <3>2. wk' = [wk EXCEPT ![w] = q]
      BY <2>3
    <3> HIDE DEF q
    <3> QED
      BY <3>1, <3>2, WorkerStep
  <2> QED
    BY <1>6, <2>4 DEF GetMiddleware, TypeOK, WorkersOK, cluster, queues
<1>7. ASSUME NEW w \in Controllers, PutMiddleware(w) PROVE TypeOK'
  <2>1. wk[w].c \in Ces /\ wk[w].cur \in Service
    BY <1>7 DEF PutMiddleware, TypeOK, Writing
  <2>2. mw' \in [Ces -> MiddlewareState]
    <3>1. wk[w].snap[wk[w].cur].uid \in Nat
      BY <1>w, <2>1 DEF WorkerState, ServiceState
    <3> QED
      BY <1>7, <2>1, <3>1 DEF PutMiddleware, TypeOK, MiddlewareState
  <2>3. CASE Fail(w, wk[w].cur)
    BY <1>7, <2>1, <2>2, <2>3, FailType DEF PutMiddleware, TypeOK, WorkersOK, cluster
  <2>4. CASE wk' = [wk EXCEPT ![w] = At(wk[w], "get", 0)] /\ UNCHANGED queues
    <3>1. "get" \in Writing /\ 0 \in Nat
      BY DEF Writing
    <3>2. WorkersOK'
      <4> DEFINE q == At(wk[w], "get", 0)
      <4>1. q \in WorkerState /\ q.cur \in Service /\ q.c \in Ces
        BY <1>w, <2>1, <3>1, AtType
      <4>2. wk' = [wk EXCEPT ![w] = q]
        BY <2>4
      <4> HIDE DEF q
      <4> QED
        BY <4>1, <4>2, WorkerStep
    <3> QED
      BY <1>7, <2>2, <2>4, <3>2 DEF PutMiddleware, TypeOK, WorkersOK, cluster, queues
  <2> QED
    BY <1>7, <2>3, <2>4 DEF PutMiddleware
<1>8. ASSUME NEW w \in Controllers, GetIngress(w) PROVE TypeOK'
  <2>1. wk[w].c \in Ces /\ wk[w].cur \in Service
    BY <1>8 DEF GetIngress, TypeOK, Writing
  <2>2. PICK n \in Nat : wk' = [wk EXCEPT ![w] = At(wk[w], "put", n)]
    BY <1>8 DEF GetIngress
  <2>3. WorkersOK'
    <3> DEFINE q == At(wk[w], "put", n)
    <3>1. "put" \in Writing
      BY DEF Writing
    <3>2. q \in WorkerState /\ q.cur \in Service /\ q.c \in Ces
      BY <1>w, <2>1, <3>1, AtType
    <3>3. wk' = [wk EXCEPT ![w] = q]
      BY <2>2
    <3> HIDE DEF q
    <3> QED
      BY <3>2, <3>3, WorkerStep
  <2> QED
    BY <1>8, <2>3 DEF GetIngress, TypeOK, WorkersOK, cluster, queues
<1>9. ASSUME NEW w \in Controllers, PutIngress(w) PROVE TypeOK'
  <2> DEFINE r == wk[w]
             new == [route |-> r.out, owner |-> r.snap[r.cur].uid]
  <2>1. r.c \in Ces /\ r.cur \in Service
    BY <1>9 DEF PutIngress, TypeOK, Writing
  <2>2. CASE Fail(w, r.cur) /\ UNCHANGED <<ingress, stale>>
    BY <1>9, <2>1, <2>2, FailType DEF PutIngress, TypeOK, WorkersOK, cluster
  <2>3. CASE /\ ingress' = [ingress EXCEPT ![r.c] = new]
             /\ stale' = IF new = Target(r.c) THEN stale \ {r.c} ELSE stale \cup {r.c}
             /\ wk' = [wk EXCEPT ![w] = AfterCes(r)]
             /\ UNCHANGED queues
    <3>1. new \in IngressState
      BY <1>w, <2>1 DEF WorkerState, ServiceState, IngressState
    <3>2. /\ AfterCes(r) \in WorkerState
          /\ AfterCes(r).pc \in {"idle", "next", "rewrite", "ces"}
          /\ AfterCes(r).pc = "ces" => AfterCes(r).cur \in Service
      BY <1>9, <1>w, <2>1, AfterCesType DEF PutIngress, Writing
    <3>3. WorkersOK'
      BY <2>3, <3>2, WorkerStep DEF Writing
    <3>4. ingress' \in [Ces -> IngressState] /\ stale' \in SUBSET Ces
      BY <2>1, <2>3, <3>1 DEF TypeOK
    <3> QED
      BY <1>9, <2>3, <3>3, <3>4 DEF PutIngress, TypeOK, WorkersOK, cluster, queues
  <2> QED
    BY <1>9, <2>2, <2>3 DEF PutIngress
<1>10. ASSUME NEW s \in Service, wk["maintenance"].pc = "rewrite", NEW f \in BOOLEAN,
              EndRewrite(s, f)
       PROVE  /\ WorkersOK'
              /\ svcQ' \in SUBSET Service /\ depQ' \in SUBSET Service /\ mntQ' \in BOOLEAN
  <2> DEFINE m == wk["maintenance"]
             r == IF m.todo = {s} THEN Idle
                  ELSE [m EXCEPT !.todo = @ \ {s}, !.errs = @ \/ f]
  <2>1. m \in WorkerState
    BY <1>w DEF Controllers
  <2>2. r \in WorkerState /\ r.pc \in {"idle", "rewrite"}
    BY <1>10, <2>1, IdleType DEF WorkerState, Idle
  <2>3. wk' = [wk EXCEPT !["maintenance"] = r]
    BY <1>10, <2>1 DEF EndRewrite, WorkerState
  <2>4. WorkersOK'
    <3> HIDE DEF r
    <3> QED
      BY <2>2, <2>3, WorkerStep DEF Writing, Controllers
  <2> QED
    BY <1>10, <2>4 DEF EndRewrite, TypeOK
<1>11. ASSUME NEW s \in Service, RewriteService(s) PROVE TypeOK'
  <2>1. RewriteTarget(s, wk["maintenance"].job) \in Selectors
    BY DEF RewriteTarget, Selectors
  <2>2. svc' \in [Service -> ServiceState]
    <3> DEFINE target == RewriteTarget(s, wk["maintenance"].job)
    <3>1. svc' = [svc EXCEPT ![s].sel = target, ![s].rv = @ + 1] \/ svc' = svc
      BY <1>11 DEF RewriteService
    <3>2. target \in Selectors
      BY <2>1
    <3> HIDE DEF target
    <3> QED
      BY <3>1, <3>2 DEF TypeOK, ServiceState
  <2> QED
    BY <1>10, <1>11, <2>2 DEF RewriteService, TypeOK, WorkersOK
<1>12. CASE Resync
  BY <1>12 DEF Resync, TypeOK, cluster
<1>13. CASE ToggleMaintenance
  BY <1>13, SpendType DEF ToggleMaintenance, TypeOK, EventKinds
<1>14. ASSUME NEW s \in Service, ChangeDeployment(s) PROVE TypeOK'
  BY <1>14, SpendType DEF ChangeDeployment, TypeOK, EventKinds
<1>15. ASSUME NEW s \in Service, CreateService(s) PROVE TypeOK'
  <2>1. svc' \in [Service -> ServiceState]
    BY <1>15 DEF CreateService, TypeOK, ServiceState, Selectors
  <2> QED
    BY <1>15, <2>1, SpendType DEF CreateService, TypeOK, EventKinds
<1>16. ASSUME NEW s \in Service, AnnotateService(s) PROVE TypeOK'
  <2>1. svc' \in [Service -> ServiceState]
    BY <1>16 DEF AnnotateService, TypeOK, ServiceState
  <2> QED
    BY <1>16, <2>1, SpendType DEF AnnotateService, TypeOK, EventKinds
<1>17. ASSUME NEW s \in Service, DeleteService(s) PROVE TypeOK'
  <2>1. [Gone EXCEPT !.rv = svc[s].rv + 1] \in ServiceState
    <3>1. svc[s].rv + 1 \in Nat
      BY DEF TypeOK, ServiceState
    <3> QED
      BY <3>1, RetiredType
  <2>2. svc' \in [Service -> ServiceState]
    BY <1>17, <2>1 DEF DeleteService, TypeOK
  <2> QED
    BY <1>17, <2>2, SpendType DEF DeleteService, TypeOK, EventKinds
<1>18. ASSUME NEW c \in Ces, CollectIngress(c) PROVE TypeOK'
  BY <1>18 DEF CollectIngress, TypeOK, IngressState, Routes, cluster, queues
<1>19. ASSUME NEW c \in Ces, CollectMiddleware(c) PROVE TypeOK'
  BY <1>19 DEF CollectMiddleware, TypeOK, MiddlewareState, cluster, queues
<1>20. ASSUME NEW w \in Controllers, ApiError(w) PROVE TypeOK'
  <2>1. PICK s \in Service : Fail(w, s)
    BY <1>20, <1>w DEF ApiError, TypeOK, WorkerState
  <2> QED
    BY <1>20, <2>1, FailType, SpendType
    DEF ApiError, TypeOK, WorkersOK, cluster, EventKinds
<1>21. ASSUME NEW s \in Service, RewriteError(s) PROVE TypeOK'
  BY <1>10, <1>21, SpendType DEF RewriteError, TypeOK, WorkersOK, cluster, EventKinds
<1>22. CASE Crash
  <2>1. WorkersOK'
    BY <1>22, IdleType DEF Crash, WorkersOK, Idle, Writing
  <2> QED
    BY <1>22, <2>1, SpendType
    DEF Crash, TypeOK, WorkersOK, cluster, EventKinds, LiveServices
<1>23. CASE UNCHANGED vars
  BY <1>23 DEF vars, TypeOK
<1> QED
  BY <1>1, <1>2, <1>3, <1>4, <1>5, <1>6, <1>7, <1>8, <1>9, <1>11, <1>12, <1>13, <1>14,
     <1>15, <1>16, <1>17, <1>18, <1>19, <1>20, <1>21, <1>22, <1>23
  DEF Next, Advance, Environment

LEMMA TypeInit == Init => TypeOK
<1> SUFFICES ASSUME Init PROVE TypeOK
  OBVIOUS
<1> USE ConstantsAssumption
<1>1. svc \in [Service -> ServiceState]
  BY IdleType DEF Init, ServiceState, Selectors
<1>2. WorkersOK
  BY IdleType DEF Init, WorkersOK, Idle, Writing
<1> QED
  BY <1>1, <1>2
  DEF Init, TypeOK, WorkersOK, IngressState, MiddlewareState, Routes

(* In every behaviour of the three controllers every variable has its type:  *)
(* no worker reaches a write without a service, a ces service and a route.   *)
THEOREM TypeCorrect == Spec => []TypeOK
BY TypeInit, TypeStep, PTL DEF Spec

---------------------------------------------------------------------------
LEMMA AfterCesWrites ==
    ASSUME NEW r \in WorkerState, r.pc \in Writing \cup {"next"}, r.cur \in Service,
           NEW c \in Ces,
           \/ OwnerOf[c] \in r.todo /\ Declares(r.snap[OwnerOf[c]], c)
           \/ r.cur = OwnerOf[c] /\ c \in r.rest
    PROVE  WillWrite(AfterCes(r), c)
<1>1. CASE r.rest = {}
  <2>1. AfterCes(r) = AfterService(r) /\ r.todo # {}
    BY <1>1 DEF AfterCes
  <2>2. /\ AfterCes(r).pc = "next" /\ AfterCes(r).todo = r.todo
        /\ AfterCes(r).snap = r.snap
    BY <2>1, AfterServiceType
  <2> QED
    BY <1>1, <2>2 DEF WillWrite
<1>2. CASE r.rest # {}
  <2>1. /\ AfterCes(r).pc = "ces" /\ AfterCes(r).todo = r.todo
        /\ AfterCes(r).snap = r.snap /\ AfterCes(r).cur = r.cur
        /\ AfterCes(r).rest = r.rest
    BY <1>2 DEF AfterCes, WorkerState
  <2> QED
    BY <2>1 DEF WillWrite
<1> QED
  BY <1>1, <1>2

LEMMA AfterCesSingle ==
    ASSUME NEW w, NEW r \in WorkerState, r.pc \in Writing \cup {"next"},
           w # "maintenance" =>
              r.job = "upsert" /\ r.todo = {} /\ (w = "deployment" => r.cur \in Labelled)
    PROVE  Single(w, AfterCes(r))
<1>1. CASE r.rest = {}
  <2>1. AfterCes(r) = AfterService(r)
    BY <1>1 DEF AfterCes
  <2>2. CASE w # "maintenance"
    <3>1. AfterService(r) = Idle
      BY <2>2 DEF AfterService
    <3> QED
      BY <2>1, <3>1 DEF Single, Idle, Writing
  <2>3. CASE w = "maintenance"
    <3>1. AfterService(r).pc = "next" => AfterService(r).rest = {}
      BY AfterServiceType DEF AfterService, Idle, Between
    <3> QED
      BY <2>1, <2>3, <3>1 DEF Single
  <2> QED
    BY <2>2, <2>3
<1>2. CASE r.rest # {}
  <2>1. /\ AfterCes(r).pc = "ces" /\ AfterCes(r).todo = r.todo
        /\ AfterCes(r).cur = r.cur /\ AfterCes(r).job = r.job
    BY <1>2 DEF AfterCes, WorkerState
  <2> QED
    BY <2>1 DEF Single, Writing
<1> QED
  BY <1>1, <1>2

LEMMA SingleStep ==
    ASSUME TypeOK, OneRequest, NEW w \in Controllers, NEW r,
           wk' = [wk EXCEPT ![w] = r],
           Single(w, r)
    PROVE  OneRequest'
<1>1. \A u \in Controllers : Single(u, wk'[u])
  BY DEF OneRequest, TypeOK
<1> QED
  BY <1>1 DEF OneRequest

LEMMA IdleSingle == \A w : Single(w, Idle)
BY DEF Single, Idle, Writing

(* A reconcile that fails leaves a request for all it was going to write.    *)
LEMMA FailKeeps ==
    ASSUME TypeOK, OneRequest, NEW w \in Controllers, NEW s \in Service, Fail(w, s),
           \/ wk[w].pc = "next" /\ s \in wk[w].todo
           \/ wk[w].pc \in Writing \cup {"ces"} /\ s = wk[w].cur,
           NEW c \in Ces, Pending(c)
    PROVE  Pending(c)'
<1>1. \A u \in Controllers \ {w} : wk'[u] = wk[u]
  BY DEF Fail, TypeOK
<1>2. CASE WillWrite(wk[w], c)
  <2>1. CASE w = "maintenance"
    BY <2>1 DEF Fail, Pending
  <2>2. CASE w # "maintenance"
    <3>1. Single(w, wk[w]) /\ w \in {"service", "deployment"}
      BY <2>2 DEF OneRequest, Controllers
    <3>2. s = OwnerOf[c]
      BY <1>2, <3>1 DEF WillWrite, Single, Writing
    <3>3. w = "deployment" => s \in Labelled
      BY <3>1, ConstantsAssumption DEF Single, Writing
    <3> QED
      BY <3>1, <3>2, <3>3 DEF Fail, Pending
  <2> QED
    BY <2>1, <2>2
<1>3. CASE ~WillWrite(wk[w], c)
  BY <1>1, <1>3 DEF Fail, Pending, WillWrite
<1> QED
  BY <1>2, <1>3

(* A worker that still writes what it was going to write loses nothing.      *)
LEMMA ProgressKeeps ==
    ASSUME TypeOK, NEW w \in Controllers, NEW r, wk' = [wk EXCEPT ![w] = r],
           UNCHANGED queues, NEW c \in Ces, Pending(c),
           WillWrite(wk[w], c) => WillWrite(r, c)
    PROVE  Pending(c)'
<1>1. \A u \in Controllers : wk'[u] = IF u = w THEN r ELSE wk[u]
  BY DEF TypeOK
<1>2. ASSUME NEW u \in Controllers, WillWrite(wk[u], c)
      PROVE  WillWrite(wk'[u], c)
  BY <1>1, <1>2
<1> QED
  BY <1>2 DEF Pending, queues, WillWrite

(* The ingress of c is declared and is not what the cluster calls for.       *)
Need(c) ==
    /\ Live(OwnerOf[c]) /\ Declares(svc[OwnerOf[c]], c)
    /\ HasDeployment(OwnerOf[c]) /\ ~Correct(c)

LEMMA NeedSame ==
    ASSUME UNCHANGED <<cluster, ingress>>, NEW c
    PROVE  Need(c)' <=> Need(c)
BY DEF Need, Live, Declares, HasDeployment, Correct, Target, Desired, cluster

LEMMA StartWrites ==
    ASSUME TypeOK, NEW S \in SUBSET Service, NEW job \in {"upsert", "activate", "deactivate"},
           NEW c \in Ces, OwnerOf[c] \in S, Declares(svc[OwnerOf[c]], c)
    PROVE  WillWrite(Between("next", job, S, SnapOf(S)), c)
<1> DEFINE r == Between("next", job, S, SnapOf(S))
<1>1. r.pc = "next" /\ r.todo = S /\ r.snap = SnapOf(S)
  BY SnapOfType, BetweenType
<1>2. SnapOf(S)[OwnerOf[c]] = svc[OwnerOf[c]]
  BY DEF SnapOf
<1> HIDE DEF r
<1>3. WillWrite(r, c)
  BY <1>1, <1>2 DEF WillWrite
<1> QED
  BY <1>3 DEF r

LEMMA StartSingle ==
    ASSUME TypeOK, NEW w, NEW s \in Service, w = "deployment" => s \in Labelled
    PROVE  Single(w, Between("next", "upsert", {s}, SnapOf({s})))
<1> DEFINE r == Between("next", "upsert", {s}, SnapOf({s}))
<1>1. r.pc = "next" /\ r.todo = {s} /\ r.job = "upsert"
  BY SnapOfType, BetweenType
<1>2. r.rest = {}
  BY BetweenRest
<1> HIDE DEF r
<1>3. Single(w, r)
  BY <1>1, <1>2 DEF Single, Writing
<1> QED
  BY <1>3 DEF r

LEMMA StepService ==
    ASSUME Inv, NEW s \in Service, ServiceReconcile(s)
    PROVE  OneRequest' /\ NoLostUpdate'
<1> USE ConstantsAssumption DEF Inv
<1> DEFINE r == Between("next", "upsert", {s}, SnapOf({s}))
<1>1. OneRequest'
  <2>1. CASE Live(s)
    BY <2>1, StartSingle, SingleStep DEF ServiceReconcile, Start, Controllers
  <2>2. CASE ~Live(s)
    BY <2>2 DEF ServiceReconcile, OneRequest
  <2> QED
    BY <2>1, <2>2
<1>2. ASSUME NEW c \in Ces, Need(c)' PROVE (Pending(c) \/ c \in stale)'
  <2>1. Need(c)
    BY <1>2, NeedSame DEF ServiceReconcile
  <2>2. CASE c \in stale
    BY <2>2 DEF ServiceReconcile
  <2>3. CASE OwnerOf[c] = s
    <3>1. wk'["service"] = r
      BY <2>1, <2>3 DEF ServiceReconcile, Start, Need, TypeOK, Controllers
    <3>2. WillWrite(r, c)
      BY <2>1, <2>3, StartWrites DEF Need
    <3> QED
      BY <3>1, <3>2 DEF Pending, Controllers, WillWrite
  <2>4. CASE c \notin stale /\ OwnerOf[c] # s
    <3>1. Pending(c)
      BY <2>1, <2>4 DEF NoLostUpdate, Need
    <3>2. \A u \in Controllers : WillWrite(wk[u], c) => wk'[u] = wk[u]
      BY DEF ServiceReconcile, Start, TypeOK, Controllers, WillWrite
    <3> QED
      BY <2>4, <3>1, <3>2 DEF Pending, ServiceReconcile, WillWrite
  <2> QED
    BY <2>2, <2>3, <2>4
<1> QED
  BY <1>1, <1>2 DEF NoLostUpdate, Need

LEMMA StepDeployment ==
    ASSUME Inv, NEW s \in Service, DeploymentReconcile(s)
    PROVE  OneRequest' /\ NoLostUpdate'
<1> USE ConstantsAssumption DEF Inv
<1> DEFINE r == Between("next", "upsert", {s}, SnapOf({s}))
           Taken == dep[s] # "none" /\ s \in Labelled
<1>0. /\ Taken => wk' = [wk EXCEPT !["deployment"] = r]
      /\ ~Taken => wk' = wk
  BY DEF DeploymentReconcile, Start
<1>1. OneRequest'
  <2>1. CASE Taken
    BY <1>0, <2>1, StartSingle, SingleStep DEF Controllers
  <2>2. CASE ~Taken
    BY <1>0, <2>2 DEF OneRequest
  <2> QED
    BY <2>1, <2>2
<1>2. ASSUME NEW c \in Ces, Need(c)' PROVE (Pending(c) \/ c \in stale)'
  <2>1. Need(c)
    BY <1>2, NeedSame DEF DeploymentReconcile
  <2>2. CASE c \in stale
    BY <2>2 DEF DeploymentReconcile
  <2>3. CASE OwnerOf[c] = s /\ s \in Labelled
    <3>1. wk'["deployment"] = r
      BY <1>0, <2>1, <2>3 DEF Need, HasDeployment, TypeOK, Controllers
    <3>2. WillWrite(r, c)
      BY <2>1, <2>3, StartWrites DEF Need
    <3> QED
      BY <3>1, <3>2 DEF Pending, Controllers, WillWrite
  <2>4. CASE c \notin stale /\ ~(OwnerOf[c] = s /\ s \in Labelled)
    <3>1. Pending(c)
      BY <2>1, <2>4 DEF NoLostUpdate, Need
    <3>2. \A u \in Controllers : WillWrite(wk[u], c) => wk'[u] = wk[u]
      BY <1>0 DEF DeploymentReconcile, TypeOK, Controllers, WillWrite
    <3> QED
      BY <2>4, <3>1, <3>2 DEF Pending, DeploymentReconcile, WillWrite
  <2> QED
    BY <2>2, <2>3, <2>4
<1> QED
  BY <1>1, <1>2 DEF NoLostUpdate, Need

LEMMA StepMaintenance ==
    ASSUME Inv, MaintenanceReconcile
    PROVE  OneRequest' /\ NoLostUpdate'
<1> USE ConstantsAssumption DEF Inv
<1>0. LiveServices \in SUBSET Service
  BY DEF LiveServices
<1>1. OneRequest'
  <2>1. CASE LiveServices = {}
    BY <2>1 DEF MaintenanceReconcile, OneRequest
  <2>2. CASE LiveServices # {}
    <3>1. PICK job : wk' = [wk EXCEPT !["maintenance"] =
                               Between("next", job, LiveServices, SnapOf(LiveServices))]
      BY <2>2 DEF MaintenanceReconcile, Start
    <3>2. Single("maintenance", Between("next", job, LiveServices, SnapOf(LiveServices)))
      BY BetweenRest DEF Single
    <3> QED
      BY <3>1, <3>2, SingleStep DEF Controllers
  <2> QED
    BY <2>1, <2>2
<1>2. ASSUME NEW c \in Ces, Need(c)' PROVE (Pending(c) \/ c \in stale)'
  <2>1. Need(c)
    BY <1>2, NeedSame DEF MaintenanceReconcile
  <2>2. OwnerOf[c] \in LiveServices
    BY <2>1 DEF Need, LiveServices
  <2>3. PICK job \in {"upsert", "activate", "deactivate"} :
            Start("maintenance", job, LiveServices)
    BY <2>2 DEF MaintenanceReconcile
  <2>4. wk'["maintenance"] = Between("next", job, LiveServices, SnapOf(LiveServices))
    BY <2>3 DEF Start, TypeOK, Controllers
  <2>5. WillWrite(wk'["maintenance"], c)
    BY <1>0, <2>1, <2>2, <2>4, StartWrites DEF Need
  <2> QED
    BY <2>5 DEF Pending, Controllers, WillWrite
<1> QED
  BY <1>1, <1>2 DEF NoLostUpdate, Need

(* Steps of a worker that change neither the cluster nor an ingress.         *)
LEMMA KeepsAll ==
    ASSUME Inv, UNCHANGED <<cluster, ingress, stale>>,
           \A c \in Ces : Pending(c) => Pending(c)'
    PROVE  NoLostUpdate'
<1>1. ASSUME NEW c \in Ces, Need(c)' PROVE (Pending(c) \/ c \in stale)'
  <2>1. Need(c)
    BY <1>1, NeedSame
  <2> QED
    BY <2>1 DEF Inv, NoLostUpdate, Need
<1> QED
  BY <1>1 DEF NoLostUpdate, Need

LEMMA StepFail ==
    ASSUME Inv, UNCHANGED <<cluster, ingress, stale>>,
           NEW w \in Controllers, NEW s \in Service, Fail(w, s),
           \/ wk[w].pc = "next" /\ s \in wk[w].todo
           \/ wk[w].pc \in Writing \cup {"ces"} /\ s = wk[w].cur
    PROVE  OneRequest' /\ NoLostUpdate'
<1>1. OneRequest'
  BY IdleSingle, SingleStep DEF Fail, Inv
<1>2. \A c \in Ces : Pending(c) => Pending(c)'
  BY FailKeeps DEF Inv
<1> QED
  BY <1>1, <1>2, KeepsAll

LEMMA StepProgress ==
    ASSUME Inv, UNCHANGED <<cluster, ingress, stale, queues>>,
           NEW w \in Controllers, NEW r, wk' = [wk EXCEPT ![w] = r],
           Single(w, r),
           \A c \in Ces : WillWrite(wk[w], c) => WillWrite(r, c)
    PROVE  OneRequest' /\ NoLostUpdate'
<1>1. OneRequest'
  BY SingleStep DEF Inv
<1>2. \A c \in Ces : Pending(c) => Pending(c)'
  BY ProgressKeeps DEF Inv
<1> QED
  BY <1>1, <1>2, KeepsAll

LEMMA StepBegin ==
    ASSUME Inv, NEW w \in Controllers, NEW s \in Service, BeginService(w, s)
    PROVE  OneRequest' /\ NoLostUpdate'
<1> USE ConstantsAssumption DEF Inv
<1> DEFINE r == Begun(wk[w], s, maintenance)
<1>0. wk[w].pc = "next" /\ s \in wk[w].todo /\ wk[w] \in WorkerState
      /\ UNCHANGED <<cluster, ingress, stale>>
  BY DEF BeginService, TypeOK
<1>1. CASE Fail(w, s)
  BY <1>0, <1>1, StepFail
<1>2. CASE wk' = [wk EXCEPT ![w] = AfterCes(r)] /\ UNCHANGED queues
  <2>1. /\ r \in WorkerState /\ r.pc = "next" /\ r.cur = s /\ r.todo = wk[w].todo \ {s}
        /\ r.rest = {c \in Ces : Declares(wk[w].snap[s], c)}
        /\ r.snap = wk[w].snap /\ r.job = wk[w].job
    BY <1>0, BegunType DEF TypeOK
  <2> HIDE DEF r
  <2>2. Single(w, AfterCes(r))
    <3>1. Single(w, wk[w])
      BY DEF OneRequest
    <3>2. w # "maintenance" =>
            r.todo = {} /\ r.job = "upsert" /\ (w = "deployment" => r.cur \in Labelled)
      BY <1>0, <2>1, <3>1 DEF Single
    <3> QED
      BY <2>1, <3>2, AfterCesSingle
  <2>3. ASSUME NEW c \in Ces, WillWrite(wk[w], c) PROVE WillWrite(AfterCes(r), c)
    <3>1. \/ OwnerOf[c] \in r.todo /\ Declares(r.snap[OwnerOf[c]], c)
          \/ r.cur = OwnerOf[c] /\ c \in r.rest
          \/ wk[w].cur = OwnerOf[c] /\ c \in wk[w].rest
      BY <1>0, <2>1, <2>3 DEF WillWrite, Writing
    <3>2. wk[w].rest = {}
      BY <1>0 DEF OneRequest, Single
    <3> QED
      BY <2>1, <3>1, <3>2, AfterCesWrites
  <2> QED
    BY <1>0, <1>2, <2>2, <2>3, StepProgress
<1> QED
  BY <1>1, <1>2 DEF BeginService

LEMMA StepChoose ==
    ASSUME Inv, NEW w \in Controllers, NEW c \in Ces, ChooseCes(w, c)
    PROVE  OneRequest' /\ NoLostUpdate'
<1> USE ConstantsAssumption DEF Inv
<1> DEFINE out == ChosenRoute(wk[w], c)
<1>0. /\ wk[w].pc = "ces" /\ wk[w] \in WorkerState /\ wk[w].cur \in Service
      /\ UNCHANGED <<cluster, ingress, stale>>
  BY DEF ChooseCes, TypeOK
<1>1. CASE Fail(w, wk[w].cur)
  BY <1>0, <1>1, StepFail
<1>2. CASE out # "badRewrite" /\ wk' = [wk EXCEPT ![w] = Chosen(wk[w], c, out)]
           /\ UNCHANGED queues
  <2> DEFINE q == Chosen(wk[w], c, out)
  <2>1. out \in Routes
    BY <1>0, <1>2, RouteChosen
  <2>2. /\ q.pc \in Writing /\ q.cur = wk[w].cur /\ q.c = c /\ q.todo = wk[w].todo
        /\ q.rest = wk[w].rest \ {c} /\ q.snap = wk[w].snap /\ q.job = wk[w].job
    BY <1>0, <2>1, ChosenType
  <2>3. wk' = [wk EXCEPT ![w] = q]
    BY <1>2
  <2> HIDE DEF q
  <2>4. Single(w, q)
    BY <1>0, <2>2 DEF OneRequest, Single, Writing
  <2>5. \A d \in Ces : WillWrite(wk[w], d) => WillWrite(q, d)
    BY <1>0, <2>2 DEF WillWrite, Writing
  <2> QED
    BY <1>0, <1>2, <2>3, <2>4, <2>5, StepProgress
<1> QED
  BY <1>1, <1>2 DEF ChooseCes

(* Going from one phase of a write to the next.                              *)
LEMMA StepAt ==
    ASSUME Inv, UNCHANGED <<cluster, ingress, stale, queues>>,
           NEW w \in Controllers, wk[w].pc \in Writing,
           NEW pc \in Writing, NEW n \in Nat, wk' = [wk EXCEPT ![w] = At(wk[w], pc, n)]
    PROVE  OneRequest' /\ NoLostUpdate'
<1> USE DEF Inv
<1> DEFINE q == At(wk[w], pc, n)
<1>1. wk[w] \in WorkerState
  BY DEF TypeOK
<1>2. /\ q.pc = pc /\ q.cur = wk[w].cur /\ q.c = wk[w].c /\ q.todo = wk[w].todo
      /\ q.rest = wk[w].rest /\ q.snap = wk[w].snap /\ q.job = wk[w].job
  BY <1>1, AtType
<1>3. wk' = [wk EXCEPT ![w] = q]
  OBVIOUS
<1> HIDE DEF q
<1>4. Single(w, q)
  BY <1>2 DEF OneRequest, Single, Writing
<1>5. \A d \in Ces : WillWrite(wk[w], d) => WillWrite(q, d)
  BY <1>2 DEF WillWrite, Writing
<1> QED
  BY <1>3, <1>4, <1>5, StepProgress

LEMMA StepGetMiddleware ==
    ASSUME Inv, NEW w \in Controllers, GetMiddleware(w)
    PROVE  OneRequest' /\ NoLostUpdate'
<1> USE DEF Inv
<1> DEFINE n == IF mw[wk[w].c].owner = 0 THEN 0 ELSE mw[wk[w].c].rv
<1>1. wk[w].pc \in Writing /\ "mwPut" \in Writing
  BY DEF GetMiddleware, Writing
<1>2. n \in Nat
  BY <1>1 DEF TypeOK, MiddlewareState
<1>3. wk' = [wk EXCEPT ![w] = At(wk[w], "mwPut", n)] /\ UNCHANGED <<cluster, ingress, stale, queues>>
  BY DEF GetMiddleware
<1> HIDE DEF n
<1> QED
  BY <1>1, <1>2, <1>3, StepAt

LEMMA StepGetIngress ==
    ASSUME Inv, NEW w \in Controllers, GetIngress(w)
    PROVE  OneRequest' /\ NoLostUpdate'
<1>1. wk[w].pc \in Writing /\ "put" \in Writing
  BY DEF GetIngress, Writing
<1>2. PICK n \in Nat : wk' = [wk EXCEPT ![w] = At(wk[w], "put", n)]
  BY DEF GetIngress
<1>3. UNCHANGED <<cluster, ingress, stale, queues>>
  BY DEF GetIngress
<1> QED
  BY <1>1, <1>2, <1>3, StepAt

LEMMA StepPutMiddleware ==
    ASSUME Inv, NEW w \in Controllers, PutMiddleware(w)
    PROVE  OneRequest' /\ NoLostUpdate'
<1> USE DEF Inv
<1>1. wk[w].pc \in Writing /\ "get" \in Writing /\ wk[w].cur \in Service
  BY DEF PutMiddleware, Writing, TypeOK
<1>2. UNCHANGED <<cluster, ingress, stale>>
  BY DEF PutMiddleware
<1>3. CASE Fail(w, wk[w].cur)
  BY <1>1, <1>2, <1>3, StepFail
<1>4. CASE wk' = [wk EXCEPT ![w] = At(wk[w], "get", 0)] /\ UNCHANGED queues
  BY <1>1, <1>2, <1>4, StepAt
<1> QED
  BY <1>3, <1>4 DEF PutMiddleware

(* The write itself: what lands is what the cluster calls for, or is noted   *)
(* as stale; the other ingresses are as they were.                           *)
LEMMA StepPutIngress ==
    ASSUME Inv, NEW w \in Controllers, PutIngress(w)
    PROVE  OneRequest' /\ NoLostUpdate'
<1> USE ConstantsAssumption DEF Inv
<1> DEFINE r == wk[w]
           new == [route |-> r.out, owner |-> r.snap[r.cur].uid]
<1>1. /\ r.pc \in Writing /\ r.cur \in Service /\ r.c \in Ces /\ r \in WorkerState
      /\ UNCHANGED cluster
  BY DEF PutIngress, Writing, TypeOK
<1>2. CASE Fail(w, r.cur) /\ UNCHANGED <<ingress, stale>>
  BY <1>1, <1>2, StepFail
<1>3. CASE /\ ingress' = [ingress EXCEPT ![r.c] = new]
           /\ stale' = IF new = Target(r.c) THEN stale \ {r.c} ELSE stale \cup {r.c}
           /\ wk' = [wk EXCEPT ![w] = AfterCes(r)]
           /\ UNCHANGED queues
  <2>1. OneRequest'
    <3>1. Single(w, r)
      BY DEF OneRequest
    <3>2. w # "maintenance" =>
            r.job = "upsert" /\ r.todo = {} /\ (w = "deployment" => r.cur \in Labelled)
      BY <1>1, <3>1 DEF Single
    <3>3. Single(w, AfterCes(r))
      <4> HIDE DEF r
      <4> QED
        BY <1>1, <3>2, AfterCesSingle
    <3> QED
      BY <1>3, <3>3, SingleStep
  <2>2. ASSUME NEW c \in Ces, Need(c)' PROVE (Pending(c) \/ c \in stale)'
    <3>1. Target(c)' = Target(c)
      BY <1>1 DEF Target, Desired, cluster
    <3>2. CASE c = r.c
      <4>1. ingress'[c] = new
        BY <1>3, <3>2 DEF TypeOK
      <4>2. new # Target(c)
        BY <2>2, <3>1, <4>1 DEF Need, Correct
      <4> QED
        BY <1>3, <3>2, <4>2
    <3>3. CASE c # r.c
      <4>1. ingress'[c] = ingress[c] /\ (c \in stale' <=> c \in stale)
        BY <1>3, <3>3 DEF TypeOK
      <4>2. Need(c)
        BY <1>1, <2>2, <3>1, <4>1
        DEF Need, Correct, Live, Declares, HasDeployment, cluster
      <4>3. CASE c \in stale
        BY <4>1, <4>3
      <4>4. CASE c \notin stale
        <5>1. Pending(c)
          BY <4>2, <4>4 DEF NoLostUpdate, Need
        <5>2. ASSUME WillWrite(r, c) PROVE WillWrite(AfterCes(r), c)
          <6>1. \/ OwnerOf[c] \in r.todo /\ Declares(r.snap[OwnerOf[c]], c)
                \/ r.cur = OwnerOf[c] /\ c \in r.rest
            BY <3>3, <5>2 DEF WillWrite
          <6> QED
            BY <1>1, <6>1, AfterCesWrites
        <5> QED
          BY <1>3, <5>1, <5>2, ProgressKeeps
      <4> QED
        BY <4>3, <4>4
    <3> QED
      BY <3>2, <3>3
  <2> QED
    BY <2>1, <2>2 DEF NoLostUpdate, Need
<1> QED
  BY <1>2, <1>3 DEF PutIngress

(* Ending a rewrite only touches the maintenance worker, which at that point *)
(* has written all its ingresses.                                            *)
LEMMA EndRewriteKeeps ==
    ASSUME Inv, wk["maintenance"].pc = "rewrite", NEW s, NEW f \in BOOLEAN, EndRewrite(s, f)
    PROVE  OneRequest' /\ \A c \in Ces : Pending(c) => Pending(c)'
<1> USE DEF Inv
<1> DEFINE m == wk["maintenance"]
           q == IF m.todo = {s} THEN Idle
                ELSE [m EXCEPT !.todo = @ \ {s}, !.errs = m.errs \/ f]
<1>1. wk' = [wk EXCEPT !["maintenance"] = q]
  BY DEF EndRewrite
<1>2. q.pc # "next"
  BY DEF TypeOK, Controllers, WorkerState, Idle
<1> HIDE DEF q
<1>3. Single("maintenance", q)
  BY <1>2 DEF Single
<1>4. OneRequest'
  BY <1>1, <1>3, SingleStep DEF Controllers
<1>5. \A u \in Controllers, c \in Ces : WillWrite(wk[u], c) => wk'[u] = wk[u]
  BY <1>1 DEF TypeOK, WillWrite, Controllers
<1> QED
  BY <1>4, <1>5 DEF EndRewrite, Pending, WillWrite

LEMMA StepRewrite ==
    ASSUME Inv, NEW s \in Service, RewriteService(s)
    PROVE  OneRequest' /\ NoLostUpdate'
<1> USE DEF Inv
<1>1. OneRequest' /\ \A c \in Ces : Pending(c) => Pending(c)'
  BY EndRewriteKeeps DEF RewriteService
<1>2. \A t \in Service : svc'[t].uid = svc[t].uid /\ svc'[t].decl = svc[t].decl
  BY DEF RewriteService, TypeOK, ServiceState
<1>3. UNCHANGED <<maintenance, dep, ingress, stale>>
  BY DEF RewriteService
<1>4. ASSUME NEW c \in Ces, Need(c)' PROVE (Pending(c) \/ c \in stale)'
  <2>1. OwnerOf[c] \in Service
    BY ConstantsAssumption
  <2>2. Need(c)
    BY <1>2, <1>3, <1>4, <2>1
    DEF Need, Live, Declares, HasDeployment, Correct, Target, Desired
  <2> QED
    BY <1>1, <1>3, <2>2 DEF NoLostUpdate, Need
<1> QED
  BY <1>1, <1>4 DEF NoLostUpdate, Need

LEMMA StepRewriteError ==
    ASSUME Inv, NEW s \in Service, RewriteError(s)
    PROVE  OneRequest' /\ NoLostUpdate'
<1>1. OneRequest' /\ \A c \in Ces : Pending(c) => Pending(c)'
  BY EndRewriteKeeps DEF RewriteError
<1> QED
  BY <1>1, KeepsAll DEF RewriteError, cluster

LEMMA StepApiError ==
    ASSUME Inv, NEW w \in Controllers, ApiError(w)
    PROVE  OneRequest' /\ NoLostUpdate'
<1> USE DEF Inv
<1>1. UNCHANGED <<cluster, ingress, stale>>
  BY DEF ApiError
<1>2. CASE wk[w].pc = "next" /\ \E s \in wk[w].todo : Fail(w, s)
  <2>1. PICK s \in wk[w].todo : Fail(w, s)
    BY <1>2
  <2>2. s \in Service
    BY <2>1 DEF TypeOK, WorkerState
  <2> QED
    BY <1>1, <1>2, <2>1, <2>2, StepFail
<1>3. CASE wk[w].pc \in Writing \cup {"ces"} /\ Fail(w, wk[w].cur)
  BY <1>1, <1>3, StepFail DEF TypeOK
<1> QED
  BY <1>2, <1>3 DEF ApiError

(* A change to what the cluster calls for queues a request of its own.       *)
LEMMA StepEnvironment ==
    ASSUME Inv,
           \/ ToggleMaintenance \/ Crash \/ Resync
           \/ \E s \in Service : \/ ChangeDeployment(s) \/ CreateService(s)
                                 \/ AnnotateService(s) \/ DeleteService(s)
           \/ \E c \in Ces : CollectIngress(c) \/ CollectMiddleware(c)
    PROVE  OneRequest' /\ NoLostUpdate'
<1> USE ConstantsAssumption DEF Inv
<1>1. CASE ToggleMaintenance
  BY <1>1 DEF ToggleMaintenance, OneRequest, NoLostUpdate, Pending
<1>2. CASE Crash
  <2>1. OneRequest'
    BY <1>2, IdleSingle DEF Crash, OneRequest
  <2>2. \A c \in Ces : Live(OwnerOf[c])' => OwnerOf[c] \in svcQ'
    BY <1>2 DEF Crash, Live, LiveServices, cluster
  <2> QED
    BY <2>1, <2>2 DEF NoLostUpdate, Pending
<1>3. CASE Resync
  <2>1. OneRequest'
    BY <1>3 DEF Resync, OneRequest
  <2>2. \A c \in Ces : Pending(c) => Pending(c)'
    BY <1>3 DEF Resync, Pending, WillWrite
  <2> QED
    BY <1>3, <2>1, <2>2, KeepsAll DEF Resync
<1>4. ASSUME NEW s \in Service, ChangeDeployment(s) PROVE OneRequest' /\ NoLostUpdate'
  <2>1. OneRequest'
    BY <1>4 DEF ChangeDeployment, OneRequest
  <2>2. ASSUME NEW c \in Ces, Need(c)' PROVE (Pending(c) \/ c \in stale)'
    <3>1. CASE OwnerOf[c] = s /\ s \in Labelled
      BY <1>4, <3>1 DEF ChangeDeployment, Pending
    <3>2. CASE ~(OwnerOf[c] = s /\ s \in Labelled)
      <4>1. OwnerOf[c] \in Labelled => dep'[OwnerOf[c]] = dep[OwnerOf[c]]
        BY <1>4, <3>2 DEF ChangeDeployment, TypeOK
      <4>2. Need(c)
        BY <1>4, <2>2, <4>1
        DEF ChangeDeployment, Need, Live, Declares, HasDeployment, Correct, Target, Desired
      <4> QED
        BY <1>4, <4>2 DEF ChangeDeployment, NoLostUpdate, Need, Pending, WillWrite
    <3> QED
      BY <3>1, <3>2
  <2> QED
    BY <2>1, <2>2 DEF NoLostUpdate, Need
<1>5. ASSUME NEW s \in Service, CreateService(s) \/ AnnotateService(s) \/ DeleteService(s)
      PROVE  OneRequest' /\ NoLostUpdate'
  <2>1. OneRequest'
    BY <1>5 DEF CreateService, AnnotateService, DeleteService, OneRequest
  <2>2. /\ \A t \in Service \ {s} : svc'[t] = svc[t]
        /\ svcQ' = svcQ \cup {s}
        /\ UNCHANGED <<maintenance, dep, ingress, wk, depQ, mntQ, stale>>
    BY <1>5 DEF CreateService, AnnotateService, DeleteService, TypeOK
  <2>3. ASSUME NEW c \in Ces, Need(c)' PROVE (Pending(c) \/ c \in stale)'
    <3>1. CASE OwnerOf[c] = s
      BY <2>2, <3>1 DEF Pending
    <3>2. CASE OwnerOf[c] # s
      <4>1. Need(c)
        BY <2>2, <2>3, <3>2
        DEF Need, Live, Declares, HasDeployment, Correct, Target, Desired
      <4> QED
        BY <2>2, <4>1 DEF NoLostUpdate, Need, Pending, WillWrite
    <3> QED
      BY <3>1, <3>2
  <2> QED
    BY <2>1, <2>3 DEF NoLostUpdate, Need
<1>6. ASSUME NEW d \in Ces, CollectIngress(d) PROVE OneRequest' /\ NoLostUpdate'
  <2>1. OneRequest'
    BY <1>6 DEF CollectIngress, OneRequest
  <2>2. ASSUME NEW c \in Ces, Need(c)' PROVE (Pending(c) \/ c \in stale)'
    <3>1. ~Correct(c)
      BY <1>6, <2>2
      DEF CollectIngress, Need, Correct, Target, Desired, cluster, TypeOK, IngressState
    <3>2. Need(c)
      BY <1>6, <2>2, <3>1 DEF CollectIngress, Need, Live, Declares, HasDeployment, cluster
    <3> QED
      BY <1>6, <3>2 DEF CollectIngress, NoLostUpdate, Need, Pending, WillWrite, queues
  <2> QED
    BY <2>1, <2>2 DEF NoLostUpdate, Need
<1>7. ASSUME NEW d \in Ces, CollectMiddleware(d) PROVE OneRequest' /\ NoLostUpdate'
  <2>1. OneRequest'
    BY <1>7 DEF CollectMiddleware, OneRequest
  <2>2. \A c \in Ces : Pending(c) => Pending(c)'
    BY <1>7 DEF CollectMiddleware, Pending, WillWrite, queues
  <2> QED
    BY <1>7, <2>1, <2>2, KeepsAll DEF CollectMiddleware
<1> QED
  BY <1>1, <1>2, <1>3, <1>4, <1>5, <1>6, <1>7

LEMMA InvInit == Init => Inv
<1> SUFFICES ASSUME Init PROVE Inv
  OBVIOUS
<1>1. TypeOK
  BY TypeInit
<1>2. OneRequest
  BY IdleSingle DEF Init, OneRequest
<1>3. \A s \in Service : Live(s) => s \in svcQ
  BY DEF Init, Live, Gone
<1>4. NoLostUpdate
  BY <1>3, ConstantsAssumption DEF NoLostUpdate, Pending
<1> QED
  BY <1>1, <1>2, <1>4 DEF Inv

LEMMA InvStep == Inv /\ [Next]_vars => Inv'
<1> SUFFICES ASSUME Inv, [Next]_vars PROVE Inv'
  OBVIOUS
<1>1. TypeOK'
  BY TypeStep DEF Inv
<1>2. CASE UNCHANGED vars
  BY <1>2 DEF vars, Inv, TypeOK, OneRequest, NoLostUpdate, Live, Declares, HasDeployment,
              Correct, Target, Desired, Pending, WillWrite
<1>3. CASE Next
  <2>1. OneRequest' /\ NoLostUpdate'
    BY <1>3, StepService, StepDeployment, StepMaintenance, StepBegin, StepChoose,
       StepGetMiddleware, StepPutMiddleware, StepGetIngress, StepPutIngress, StepRewrite,
       StepRewriteError, StepApiError, StepEnvironment
    DEF Next, Advance, Environment
  <2> QED
    BY <1>1, <2>1 DEF Inv
<1> QED
  BY <1>2, <1>3

(* No controller loses an update: an ingress that is not what maintenance    *)
(* mode, readiness and annotation call for has a request or a reconcile of   *)
(* UpsertIngressForService outstanding, or was last written from stale reads. *)
THEOREM UpdatesAreNotLost == Spec => []NoLostUpdate
<1>1. Inv => NoLostUpdate
  BY DEF Inv
<1> QED
  BY <1>1, InvInit, InvStep, PTL DEF Spec
=============================================================================
