------------------------ MODULE LoadBalancer_proofs ------------------------
(***************************************************************************)
(* Proofs about LoadBalancer: types, what an update conserves, that no      *)
(* trigger is lost, and that every exposed port gets its route.             *)
(***************************************************************************)
EXTENDS LoadBalancer, TLAPS

---------------------------------------------------------------------------
(* Types of the operators.                                                 *)

ServiceState == [uid : Nat, last : Nat, decl : Declaration]
RouteState == [port : Entry \cup {"-"}, owner : Nat]

LEMMA AbsentTyped == Absent \in Declaration /\ Absent.kind = "absent" /\ Absent.ports = {}
BY DEF Absent, Declaration

LEMMA NoConfigTyped == NoConfig \in Config
BY DEF NoConfig, NoAnnotations, Config, Annotations, Value

LEMMA NoLbTyped ==
    ASSUME NEW n \in Nat
    PROVE  /\ NoLb(n) \in LbState /\ NoLb(n).rv = n /\ ~NoLb(n).exists
           /\ NoLb(n).np = [p \in PortId |-> 0] /\ NoLb(n).managed = {}
           /\ NoLb(n).ann = NoAnnotations
BY DEF NoLb, LbState, NoAnnotations, Annotations, Value

LEMMA IdleTyped == /\ Idle \in WorkerState /\ Idle.pc = "idle" /\ Idle.todo = {}
<1>1. NoLb(0) \in LbState
  BY NoLbTyped
<1>2. [s \in Service |-> Absent] \in [Service -> Declaration]
  BY AbsentTyped
<1>3. QED
  BY <1>1, <1>2, NoConfigTyped DEF Idle, WorkerState

LEMMA ExternalTyped == ASSUME NEW c \in Config PROVE External(c) \in {"-", "Local", "Cluster"}
BY DEF Config, External

LEMMA AnnotationsTyped ==
    ASSUME NEW l \in LbState, NEW c \in Config
    PROVE  /\ ApplyAnnotations(l, c) \in Annotations
           /\ \A k \in AnnKey : ApplyAnnotations(l, c)[k] =
                 IF c.anns[k] # "-" THEN c.anns[k]
                 ELSE IF k \in l.managed THEN "-" ELSE l.ann[k]
<1>1. l.ann \in [AnnKey -> Value] /\ c.anns \in [AnnKey -> Value] /\ "-" \in Value
  BY DEF LbState, Config, Annotations, Value
<1>2. QED
  BY <1>1 DEF ApplyAnnotations, Annotations

LEMMA NodePortsTyped ==
    ASSUME NEW l \in LbState, NEW P
    PROVE  /\ NodePorts(l, P) \in [PortId -> Nat]
           /\ \A p \in PortId : /\ p \in P <=> NodePorts(l, P)[p] # 0
                                /\ p \in P /\ l.np[p] # 0 => NodePorts(l, P)[p] = l.np[p]
<1>1. l.np \in [PortId -> Nat] /\ l.rv \in Nat
  BY DEF LbState
<1>2. l.rv + 1 \in Nat /\ l.rv + 1 # 0
  BY <1>1
<1> DEFINE v == l.rv + 1
<1> HIDE DEF v
<1>3. NodePorts(l, P) = [p \in PortId |-> IF p \notin P THEN 0
                                          ELSE IF l.np[p] # 0 THEN l.np[p] ELSE v]
  BY DEF NodePorts, v
<1>4. v \in Nat /\ v # 0 /\ 0 \in Nat
  BY <1>2 DEF v
<1>5. QED
  BY <1>1, <1>3, <1>4

(* What Create and Update leave, apart from the version.                   *)
LEMMA WrittenIs ==
    ASSUME NEW l \in LbState, NEW c \in Config, NEW P \in SUBSET PortId
    PROVE  /\ Written(l, c, P) \in LbState
           /\ Written(l, c, P).exists = TRUE /\ Written(l, c, P).right = TRUE
           /\ Written(l, c, P).np = NodePorts(l, P)
           /\ Written(l, c, P).ann = ApplyAnnotations(l, c)
           /\ Written(l, c, P).managed = Managed(c)
           /\ Written(l, c, P).external = External(c)
           /\ Written(l, c, P) = l \/ Written(l, c, P).rv = l.rv + 1
<1> DEFINE w == [l EXCEPT !.exists = TRUE, !.right = TRUE, !.np = NodePorts(l, P),
                          !.ann = ApplyAnnotations(l, c), !.managed = Managed(c),
                          !.external = External(c)]
<1>0. l.rv \in Nat
  BY DEF LbState
<1>1. l.rv + 1 \in Nat
  BY <1>0
<1>2. Managed(c) \in SUBSET AnnKey
  BY DEF Managed
<1>3. /\ w \in LbState /\ w.exists = TRUE /\ w.right = TRUE /\ w.np = NodePorts(l, P)
      /\ w.ann = ApplyAnnotations(l, c) /\ w.managed = Managed(c) /\ w.external = External(c)
      /\ w.rv = l.rv
  BY <1>2, NodePortsTyped, AnnotationsTyped, ExternalTyped DEF LbState
<1>4. Written(l, c, P) = IF w = l THEN l ELSE [w EXCEPT !.rv = w.rv + 1]
  BY DEF Written
<1> HIDE DEF w
<1>5. CASE w = l
  BY <1>3, <1>4, <1>5
<1>6. CASE w # l
  <2>1. Written(l, c, P) = [w EXCEPT !.rv = l.rv + 1]
    BY <1>3, <1>4, <1>6
  <2>2. QED
    BY <1>1, <1>3, <2>1 DEF LbState
<1>7. QED
  BY <1>5, <1>6

LEMMA RouteNamed == ASSUME NEW e \in Entry
                    PROVE  /\ RouteOf(e) \in RouteName /\ RouteOf(e)[1] = Info[e].svc
                           /\ Info[e].svc \in Service
BY LoadBalancerAssumption DEF RouteOf, RouteName, PortInfo

LEMMA PortsTyped ==
    ASSUME NEW D \in [Service -> Declaration]
    PROVE  /\ RoutePorts(D) \subseteq DoguPorts(D) /\ DoguPorts(D) \subseteq Entry
           /\ DoguPorts(D) \subseteq LbPorts(D) /\ LbPorts(D) \in SUBSET PortId
<1>1. \A s \in Service : D[s].ports \subseteq Entry
  BY DEF Declaration
<1>2. QED
  BY <1>1 DEF RoutePorts, DoguPorts, LbPorts, PortId

LEMMA SpendTyped ==
    ASSUME TypeOK, NEW kind \in EventKinds \ {"any"}, Spend(kind)
    PROVE  left' \in [EventKinds -> Nat] /\ left' # left
<1>1. left \in [EventKinds -> Nat] /\ "any" \in EventKinds
  BY DEF TypeOK, EventKinds
<1>2. left[kind] \in Nat /\ left["any"] \in Nat /\ left[kind] > 0 /\ left["any"] > 0
  BY <1>1 DEF Spend
<1>3. left[kind] - 1 \in Nat /\ left["any"] - 1 \in Nat /\ left["any"] - 1 # left["any"]
  BY <1>2
<1> DEFINE a == left[kind] - 1
           b == left["any"] - 1
<1>4. left' = [left EXCEPT ![kind] = a, !["any"] = b]
  BY <1>1 DEF Spend
<1>5. a \in Nat /\ b \in Nat /\ b # left["any"]
  BY <1>3
<1> HIDE DEF a, b
<1>6. left'["any"] = b
  BY <1>1, <1>4
<1>7. QED
  BY <1>1, <1>4, <1>5, <1>6

---------------------------------------------------------------------------
(* What the steps do, one kind after the other.                            *)

LEMMA DeclOfTyped == TypeOK => DeclOf \in [Service -> Declaration]
BY DEF TypeOK, DeclOf

LEMMA FailTyped == ASSUME Fail PROVE queue' = TRUE /\ wk' = Idle /\ wk' \in WorkerState
BY IdleTyped DEF Fail

LEMMA LbWrittenTyped ==
    ASSUME TypeOK
    PROVE  LbWritten \in LbState /\ Written(NoLb(lb.rv), wk.cfg, LbPorts(wk.decl)) \in LbState
<1>1. /\ lb.rv \in Nat /\ wk.snap \in LbState /\ wk.cfg \in Config
      /\ LbPorts(wk.decl) \in SUBSET PortId
  BY PortsTyped DEF TypeOK, WorkerState, LbState
<1>2. NoLb(lb.rv) \in LbState
  BY <1>1, NoLbTyped
<1>3. QED
  BY <1>1, <1>2, WrittenIs DEF LbWritten

LEMMA ToRoutesIs ==
    ASSUME TypeOK
    PROVE  /\ ToRoutes \in WorkerState
           /\ RoutePorts(wk.decl) = {} => ToRoutes = Idle
           /\ RoutePorts(wk.decl) # {} =>
                 /\ ToRoutes.pc = "routes" /\ ToRoutes.decl = wk.decl
                 /\ ToRoutes.todo = RoutePorts(wk.decl)
<1>1. wk \in WorkerState /\ wk.decl \in [Service -> Declaration]
  BY DEF TypeOK, WorkerState
<1>2. RoutePorts(wk.decl) \in SUBSET Entry
  BY <1>1, PortsTyped
<1>3. QED
  BY <1>1, <1>2, IdleTyped DEF ToRoutes, WorkerState

(* Reconcile and GetLb.                                                    *)
LEMMA ReconcileIs ==
    ASSUME TypeOK, Reconcile
    PROVE  /\ wk' \in WorkerState /\ wk'.pc = "get" /\ wk'.cfg = cfg /\ wk'.decl = DeclOf
           /\ wk.pc = "idle"
BY IdleTyped, DeclOfTyped DEF TypeOK, Reconcile, WorkerState

LEMMA GetLbIs ==
    ASSUME TypeOK, GetLb
    PROVE  \/ Fail
           \/ /\ wk' \in WorkerState /\ wk'.pc \in {"create", "update"} /\ wk'.snap = lb
              /\ wk'.cfg = wk.cfg /\ wk'.decl = wk.decl /\ wk.pc = "get" /\ queue' = queue
<1>1. wk \in WorkerState /\ lb \in LbState
  BY DEF TypeOK
<1>2. CASE wk' = [wk EXCEPT !.pc = IF lb.exists THEN "update" ELSE "create", !.snap = lb]
  BY <1>1, <1>2 DEF GetLb, WorkerState
<1>3. QED
  BY <1>2 DEF GetLb

(* UpsertRoute.                                                            *)
LEMMA UpsertRouteIs ==
    ASSUME TypeOK, NEW e \in Entry, UpsertRoute(e)
    PROVE  /\ routes' \in [RouteName -> RouteState] /\ wk' \in WorkerState
           /\ \/ Fail
              \/ /\ routes' = [routes EXCEPT ![RouteOf(e)] =
                                  [port |-> e, owner |-> ing[Info[e].svc]]]
                 /\ queue' = queue
                 /\ \/ wk.todo = {e} /\ wk' = Idle
                    \/ wk'.pc = "routes" /\ wk'.decl = wk.decl /\ wk'.todo = wk.todo \ {e}
           /\ wk.pc = "routes" /\ e \in wk.todo
<1>1. /\ wk \in WorkerState /\ routes \in [RouteName -> RouteState] /\ ing[Info[e].svc] \in Nat
      /\ RouteOf(e) \in RouteName
  BY RouteNamed DEF TypeOK, RouteState
<1>2. NoRoute \in RouteState /\ [port |-> e, owner |-> ing[Info[e].svc]] \in RouteState
  BY <1>1 DEF NoRoute, RouteState
<1>3. CASE Fail /\ routes' = [routes EXCEPT ![RouteOf(e)] = NoRoute]
  <2>1. routes' \in [RouteName -> RouteState]
    BY <1>1, <1>2, <1>3
  <2>2. QED
    BY <1>3, <2>1, FailTyped DEF UpsertRoute
<1>4. CASE /\ routes' = [routes EXCEPT ![RouteOf(e)] = [port |-> e, owner |-> ing[Info[e].svc]]]
           /\ wk' = IF wk.todo = {e} THEN Idle ELSE [wk EXCEPT !.todo = @ \ {e}]
           /\ UNCHANGED queue
  <2>1. routes' \in [RouteName -> RouteState]
    BY <1>1, <1>2, <1>4
  <2>2. CASE wk.todo = {e}
    BY <1>4, <2>1, <2>2, IdleTyped DEF UpsertRoute
  <2>3. CASE wk.todo # {e}
    <3>1. wk' = [wk EXCEPT !.todo = wk.todo \ {e}]
      BY <1>4, <2>3
    <3>2. wk' \in WorkerState /\ wk'.pc = wk.pc /\ wk'.decl = wk.decl /\ wk'.todo = wk.todo \ {e}
      BY <1>1, <3>1 DEF WorkerState
    <3>3. QED
      BY <1>4, <2>1, <3>2 DEF UpsertRoute
  <2>4. QED
    BY <2>2, <2>3
<1>5. QED
  BY <1>3, <1>4 DEF UpsertRoute

(* EditService and DeleteService.                                          *)
LEMMA EditServiceIs ==
    ASSUME TypeOK, NEW s \in Service, EditService(s)
    PROVE  /\ svc' \in [Service -> ServiceState]
           /\ \A t \in Service \ {s} : svc'[t] = svc[t]
           /\ svc'[s].uid = IF svc[s].uid = 0 THEN svc[s].last + 1 ELSE svc[s].uid
           /\ svc'[s].last = IF svc[s].uid = 0 THEN svc[s].last + 1 ELSE svc[s].last
           /\ svc'[s].decl \in Declarations[s]
           /\ queue' = (queue \/ Passes(svc[s].decl, svc'[s].decl))
           /\ dropped' = (dropped \/ "invalid" \in {svc[s].decl.kind, svc'[s].decl.kind})
<1>1. PICK d \in Declarations[s] :
         /\ svc' = [svc EXCEPT ![s].decl = d,
                               ![s].uid = IF @ = 0 THEN svc[s].last + 1 ELSE @,
                               ![s].last = IF svc[s].uid = 0 THEN @ + 1 ELSE @]
         /\ queue' = (queue \/ Passes(svc[s].decl, d))
         /\ dropped' = (dropped \/ "invalid" \in {svc[s].decl.kind, d.kind})
  BY DEF EditService
<1>2. d \in Declaration /\ svc \in [Service -> ServiceState]
  BY LoadBalancerAssumption DEF TypeOK, ServiceState
<1>3. svc[s].uid \in Nat /\ svc[s].last \in Nat
  BY <1>2 DEF ServiceState
<1>4. svc[s].last + 1 \in Nat
  BY <1>3
<1> DEFINE x == IF svc[s].uid = 0 THEN svc[s].last + 1 ELSE svc[s].uid
           y == IF svc[s].uid = 0 THEN svc[s].last + 1 ELSE svc[s].last
           r == [svc[s] EXCEPT !.decl = d, !.uid = x, !.last = y]
<1>5. svc' = [svc EXCEPT ![s] = r]
  BY <1>1, <1>2 DEF ServiceState
<1>6. x \in Nat /\ y \in Nat
  BY <1>3, <1>4
<1>7. r \in ServiceState /\ r.decl = d /\ r.uid = x /\ r.last = y
  <2> HIDE DEF x, y
  <2>1. QED
    BY <1>2, <1>6 DEF ServiceState
<1> HIDE DEF r
<1>8. svc' \in [Service -> ServiceState] /\ svc'[s] = r /\ \A t \in Service \ {s} : svc'[t] = svc[t]
  BY <1>2, <1>5, <1>7
<1>9. QED
  BY <1>1, <1>7, <1>8

LEMMA DeleteServiceIs ==
    ASSUME TypeOK, NEW s \in Service, DeleteService(s)
    PROVE  /\ svc' \in [Service -> ServiceState]
           /\ \A t \in Service \ {s} : svc'[t] = svc[t]
           /\ svc'[s].uid = 0 /\ svc'[s].last = svc[s].last /\ svc'[s].decl = Absent
           /\ queue' = (queue \/ svc[s].decl.kind # "absent")
<1>1. svc \in [Service -> ServiceState] /\ svc[s] \in ServiceState
  BY DEF TypeOK, ServiceState
<1> DEFINE r == [svc[s] EXCEPT !.decl = Absent, !.uid = 0]
<1>2. svc' = [svc EXCEPT ![s] = r]
  BY <1>1 DEF DeleteService, ServiceState
<1>3. r \in ServiceState /\ r.decl = Absent /\ r.uid = 0 /\ r.last = svc[s].last
  BY <1>1, AbsentTyped DEF ServiceState
<1> HIDE DEF r
<1>4. svc' \in [Service -> ServiceState] /\ svc'[s] = r /\ \A t \in Service \ {s} : svc'[t] = svc[t]
  BY <1>1, <1>2, <1>3
<1>5. QED
  BY <1>3, <1>4 DEF DeleteService

(* What others do to the loadbalancer.                                     *)
LEMMA DriftLbIs ==
    ASSUME TypeOK, DriftLb \/ RetypeLb \/ CollectLb
    PROVE  /\ lb' \in LbState /\ lb'.rv = lb.rv + 1
           /\ lb' = NoLb(lb.rv + 1)
              \/ /\ lb'.managed = lb.managed
                 /\ \A k \in AnnKey \ Foreign : lb'.ann[k] = lb.ann[k]
<1>1. lb \in LbState /\ lb.np \in [PortId -> Nat] /\ lb.ann \in [AnnKey -> Value] /\ lb.rv \in Nat
  BY DEF TypeOK, LbState, Annotations
<1>2. lb.rv + 1 \in Nat /\ "https" \in PortId /\ "b" \in Value
  BY <1>1 DEF PortId, Value
<1> DEFINE v == lb.rv + 1
<1>v. v \in Nat
  BY <1>2
<1>3. CASE lb' = NoLb(lb.rv + 1)
  BY <1>2, <1>3, NoLbTyped
<1>4. ASSUME NEW k \in Foreign, lb' = [lb EXCEPT !.ann[k] = "b", !.rv = @ + 1]
      PROVE  /\ lb' \in LbState /\ lb'.rv = v /\ lb'.managed = lb.managed
             /\ \A l \in AnnKey \ Foreign : lb'.ann[l] = lb.ann[l]
  <2>1. k \in AnnKey
    BY LoadBalancerAssumption
  <2> DEFINE A == [lb.ann EXCEPT ![k] = "b"]
  <2>2. lb' = [lb EXCEPT !.ann = A, !.rv = v]
    BY <1>1, <1>4 DEF LbState
  <2>3. A \in Annotations /\ \A l \in AnnKey \ Foreign : A[l] = lb.ann[l]
    BY <1>1, <1>2, <2>1 DEF Annotations
  <2> HIDE DEF A, v
  <2>4. QED
    BY <1>1, <1>v, <2>2, <2>3 DEF LbState
<1>5. CASE lb' = [lb EXCEPT !.np["https"] = 0, !.external = "Cluster", !.rv = @ + 1]
  <2> DEFINE N == [lb.np EXCEPT !["https"] = 0]
  <2>2. lb' = [lb EXCEPT !.np = N, !.external = "Cluster", !.rv = v]
    BY <1>1, <1>5 DEF LbState
  <2>3. N \in [PortId -> Nat]
    BY <1>1, <1>2
  <2> HIDE DEF N, v
  <2>4. /\ lb' \in LbState /\ lb'.rv = v /\ lb'.managed = lb.managed /\ lb'.ann = lb.ann
    BY <1>1, <1>v, <2>2, <2>3 DEF LbState
  <2>5. QED
    BY <2>4 DEF v
<1>6. CASE lb' = [lb EXCEPT !.right = FALSE, !.rv = @ + 1]
  <2>2. lb' = [lb EXCEPT !.right = FALSE, !.rv = v]
    BY <1>1, <1>6 DEF LbState
  <2> HIDE DEF v
  <2>4. /\ lb' \in LbState /\ lb'.rv = v /\ lb'.managed = lb.managed /\ lb'.ann = lb.ann
    BY <1>1, <1>v, <2>2 DEF LbState
  <2>5. QED
    BY <2>4 DEF v
<1>7. QED
  BY <1>3, <1>4, <1>5, <1>6 DEF DriftLb, RetypeLb, CollectLb

---------------------------------------------------------------------------
(* Types.                                                                  *)

LEMMA InitTyped == Init => TypeOK
<1> SUFFICES ASSUME Init PROVE TypeOK
  OBVIOUS
<1>1. svc \in [Service -> [uid : Nat, last : Nat, decl : Declaration]]
  BY LoadBalancerAssumption DEF Init
<1>2. lb \in LbState
  BY NoLbTyped DEF Init
<1>3. routes \in [RouteName -> [port : Entry \cup {"-"}, owner : Nat]]
  BY DEF Init, NoRoute
<1>4. queue \in BOOLEAN /\ dropped \in BOOLEAN
  BY DEF Init
<1>5. QED
  BY <1>1, <1>2, <1>3, <1>4, IdleTyped, LoadBalancerAssumption DEF Init, TypeOK

LEMMA NextTyped == TypeOK /\ [Next]_vars => TypeOK'
<1> SUFFICES ASSUME TypeOK, [Next]_vars PROVE TypeOK'
  OBVIOUS
<1>b. queue \in BOOLEAN /\ dropped \in BOOLEAN /\ TRUE \in BOOLEAN /\ FALSE \in BOOLEAN
  BY DEF TypeOK
<1>k. {"edit", "config", "drift", "fault", "crash"} \subseteq EventKinds \ {"any"}
  BY DEF EventKinds
<1>f. Fail => wk' \in WorkerState /\ queue' \in BOOLEAN
  BY <1>b, FailTyped
<1>1. CASE Reconcile
  BY <1>1, <1>b, ReconcileIs DEF Reconcile, TypeOK
<1>2. CASE GetLb
  BY <1>2, <1>b, <1>f, GetLbIs DEF GetLb, TypeOK
<1>3. CASE CreateLb
  <2>1. wk' \in WorkerState /\ queue' \in BOOLEAN
    BY <1>3, <1>b, <1>f, ToRoutesIs DEF CreateLb
  <2>2. lb' \in LbState
    BY <1>3, LbWrittenTyped DEF CreateLb, TypeOK
  <2>3. QED
    BY <1>3, <2>1, <2>2 DEF CreateLb, TypeOK
<1>4. CASE UpdateLb
  <2>1. wk' \in WorkerState
    BY <1>4, <1>f, ToRoutesIs DEF UpdateLb
  <2>2. lb' \in LbState
    BY <1>4, LbWrittenTyped DEF UpdateLb, TypeOK
  <2>3. queue' \in BOOLEAN
    BY <1>4, <1>b, <1>f DEF UpdateLb
  <2>4. QED
    BY <1>4, <2>1, <2>2, <2>3 DEF UpdateLb, TypeOK
<1>5. ASSUME NEW e \in Entry, UpsertRoute(e) PROVE TypeOK'
  <2>1. queue' \in BOOLEAN
    BY <1>5, <1>b, <1>f, UpsertRouteIs
  <2>2. QED
    BY <1>5, <2>1, UpsertRouteIs DEF UpsertRoute, TypeOK, RouteState
<1>6. ASSUME NEW s \in Service, WriteIngress(s) \/ CollectIngress(s) PROVE TypeOK'
  <2>1. svc[s].uid \in Nat
    BY DEF TypeOK
  <2>2. ing' \in [Service -> Nat]
    BY <1>6, <2>1 DEF WriteIngress, CollectIngress, TypeOK
  <2>3. QED
    BY <1>6, <2>2 DEF WriteIngress, CollectIngress, TypeOK
<1>7. ASSUME NEW n \in RouteName, CollectRoute(n) PROVE TypeOK'
  <2>1. routes' \in [RouteName -> [port : Entry \cup {"-"}, owner : Nat]]
    BY <1>7 DEF CollectRoute, NoRoute, TypeOK
  <2>2. QED
    BY <1>7, <2>1 DEF CollectRoute, TypeOK
<1>8. CASE CollectLb
  <2>1. queue' \in BOOLEAN
    BY <1>8, <1>b DEF CollectLb
  <2>2. QED
    BY <1>8, <2>1, DriftLbIs DEF CollectLb, TypeOK
<1>9. CASE DriftLb
  BY <1>9, <1>b, <1>k, DriftLbIs, SpendTyped DEF DriftLb, TypeOK
<1>10. CASE RetypeLb
  BY <1>10, <1>k, DriftLbIs, SpendTyped DEF RetypeLb, TypeOK
<1>11. ASSUME NEW s \in Service, EditService(s) PROVE TypeOK'
  <2>1. queue' \in BOOLEAN /\ dropped' \in BOOLEAN
    BY <1>11, <1>b, EditServiceIs
  <2>2. left' \in [EventKinds -> Nat]
    BY <1>11, <1>k, SpendTyped DEF EditService
  <2>3. QED
    BY <1>11, <2>1, <2>2, EditServiceIs DEF EditService, TypeOK, ServiceState
<1>12. ASSUME NEW s \in Service, DeleteService(s) PROVE TypeOK'
  <2>1. queue' \in BOOLEAN
    BY <1>12, <1>b, DeleteServiceIs
  <2>2. left' \in [EventKinds -> Nat]
    BY <1>12, <1>k, SpendTyped DEF DeleteService
  <2>3. QED
    BY <1>12, <2>1, <2>2, DeleteServiceIs DEF DeleteService, TypeOK, ServiceState
<1>13. CASE EditConfig
  <2>1. cfg' \in Config
    BY <1>13, LoadBalancerAssumption DEF EditConfig
  <2>2. QED
    BY <1>13, <1>b, <1>k, <2>1, SpendTyped DEF EditConfig, TypeOK
<1>14. CASE ApiError
  <2>1. lb' \in LbState
    BY <1>14, LbWrittenTyped DEF ApiError, TypeOK
  <2>2. left' \in [EventKinds -> Nat]
    BY <1>14, <1>k, SpendTyped DEF ApiError
  <2>3. QED
    BY <1>14, <1>b, <1>f, <2>1, <2>2 DEF ApiError, TypeOK
<1>15. CASE Crash
  <2>1. left' \in [EventKinds -> Nat]
    BY <1>15, <1>k, SpendTyped DEF Crash
  <2>2. queue' \in BOOLEAN
    BY <1>15 DEF Crash
  <2>3. QED
    BY <1>15, <2>1, <2>2, IdleTyped DEF Crash, TypeOK
<1>16. CASE Resync
  BY <1>16, <1>b DEF Resync, TypeOK
<1>17. CASE UNCHANGED vars
  BY <1>17 DEF vars, TypeOK
<1>18. QED
  BY <1>1, <1>2, <1>3, <1>4, <1>5, <1>6, <1>7, <1>8, <1>9, <1>10, <1>11, <1>12, <1>13, <1>14,
     <1>15, <1>16, <1>17 DEF Next, Work, Kubernetes

(* The types of the loadbalancer controller, for any services, ports and     *)
(* configurations.                                                           *)
THEOREM LoadBalancerTypeCorrect == Spec => []TypeOK
<1>1. QED
  BY InitTyped, NextTyped, PTL DEF Spec

---------------------------------------------------------------------------
(* The copy that the worker updates.                                       *)

(* It is older than the loadbalancer or equal to it.                       *)
Versions ==
    wk.pc = "update" => /\ wk.snap.rv <= lb.rv
                        /\ wk.snap.rv = lb.rv => wk.snap = lb

LEMMA LbSteps ==
    ASSUME TypeOK, [Next]_vars
    PROVE  \/ lb' = lb
           \/ /\ wk.pc = "create" /\ ~lb.exists
              /\ lb' = Written(NoLb(lb.rv), wk.cfg, LbPorts(wk.decl))
           \/ wk.pc = "update" /\ lb.exists /\ lb.rv = wk.snap.rv /\ lb' = LbWritten
           \/ DriftLb \/ RetypeLb \/ CollectLb
BY DEF Next, Work, Kubernetes, Reconcile, GetLb, CreateLb, UpdateLb, UpsertRoute, WriteIngress,
       CollectIngress, CollectRoute, EditService, DeleteService, EditConfig, ApiError, Crash,
       Resync, vars, Stale

LEMMA VersionSteps ==
    ASSUME TypeOK, Versions, [Next]_vars
    PROVE  lb' = lb \/ lb'.rv = lb.rv + 1
<1>1. /\ lb \in LbState /\ lb.rv \in Nat /\ wk.cfg \in Config /\ wk.snap \in LbState
      /\ LbPorts(wk.decl) \in SUBSET PortId
  BY PortsTyped DEF TypeOK, LbState, WorkerState
<1>2. CASE wk.pc = "create" /\ ~lb.exists /\ lb' = Written(NoLb(lb.rv), wk.cfg, LbPorts(wk.decl))
  <2> DEFINE l == NoLb(lb.rv)
             P == LbPorts(wk.decl)
  <2>1. /\ l \in LbState /\ l.rv = lb.rv /\ ~l.exists /\ lb' = Written(l, wk.cfg, P)
        /\ P \in SUBSET PortId
    BY <1>1, <1>2, NoLbTyped
  <2> HIDE DEF l, P
  <2>2. lb'.exists = TRUE /\ (lb' = l \/ lb'.rv = l.rv + 1)
    BY <1>1, <2>1, WrittenIs
  <2>3. QED
    BY <2>1, <2>2
<1>3. CASE wk.pc = "update" /\ lb.exists /\ lb.rv = wk.snap.rv /\ lb' = LbWritten
  <2>1. wk.snap = lb
    BY <1>3 DEF Versions
  <2>2. QED
    BY <1>1, <1>3, <2>1, WrittenIs DEF LbWritten
<1>4. QED
  BY <1>2, <1>3, DriftLbIs, LbSteps

(* Only GetLb starts an update.                                            *)
LEMMA UpdateSteps ==
    ASSUME TypeOK, [Next]_vars, wk'.pc = "update"
    PROVE  wk' = wk \/ (wk'.snap = lb /\ lb' = lb)
<1>1. CASE wk' = Idle
  BY <1>1, IdleTyped
<1>2. CASE Reconcile
  BY <1>2, ReconcileIs
<1>3. CASE GetLb
  BY <1>1, <1>3, GetLbIs DEF GetLb, Fail
<1>4. CASE wk' = ToRoutes
  BY <1>4, IdleTyped, ToRoutesIs
<1>5. ASSUME NEW e \in Entry, UpsertRoute(e) PROVE FALSE
  BY <1>1, <1>5, UpsertRouteIs, IdleTyped DEF Fail
<1>6. QED
  BY <1>1, <1>2, <1>3, <1>4, <1>5
     DEF Next, Work, Kubernetes, CreateLb, UpdateLb, WriteIngress, Fail, CollectLb, DriftLb, RetypeLb,
       CollectIngress, CollectRoute, EditService, DeleteService, EditConfig, ApiError, Crash,
       Resync, vars

LEMMA VersionsStep == TypeOK /\ Versions /\ [Next]_vars => Versions'
<1> SUFFICES ASSUME TypeOK, Versions, [Next]_vars, wk'.pc = "update"
             PROVE  wk'.snap.rv <= lb'.rv /\ (wk'.snap.rv = lb'.rv => wk'.snap = lb')
  BY DEF Versions
<1>t. lb.rv \in Nat /\ wk.snap.rv \in Nat
  BY DEF TypeOK, LbState, WorkerState
<1>1. CASE wk' = wk
  <2>1. wk.snap.rv <= lb.rv /\ (wk.snap.rv = lb.rv => wk.snap = lb)
    BY <1>1 DEF Versions
  <2>2. QED
    BY <1>1, <1>t, <2>1, VersionSteps
<1>2. CASE wk'.snap = lb /\ lb' = lb
  BY <1>2, <1>t
<1>3. QED
  BY <1>1, <1>2, UpdateSteps

(* SetNodePorts and ApplyConfig for any ports and annotations: an update     *)
(* keeps the node port of every port that stays and the annotations that no  *)
(* configuration has set, as it never writes over a loadbalancer it has not  *)
(* read.                                                                     *)
THEOREM UpdatesConserve == Spec => UpdateConserves
<1> DEFINE A == wk.pc = "update" /\ left' = left /\ lb'.exists =>
          /\ \A p \in PortId : lb.np[p] # 0 /\ lb'.np[p] # 0 => lb'.np[p] = lb.np[p]
          /\ \A k \in AnnKey \ lb.managed :
                wk.cfg.anns[k] = "-" => lb'.ann[k] = lb.ann[k]
<1>1. TypeOK /\ Versions /\ [Next]_vars => A
  <2> SUFFICES ASSUME TypeOK, Versions, [Next]_vars, wk.pc = "update", left' = left, lb'.exists
               PROVE  /\ \A p \in PortId : lb.np[p] # 0 /\ lb'.np[p] # 0 => lb'.np[p] = lb.np[p]
                      /\ \A k \in AnnKey \ lb.managed :
                            wk.cfg.anns[k] = "-" => lb'.ann[k] = lb.ann[k]
    OBVIOUS
  <2>1. CASE lb' = lb
    BY <2>1
  <2>2. CASE lb.exists /\ lb.rv = wk.snap.rv /\ lb' = LbWritten
    <3>1. /\ wk.snap = lb /\ lb \in LbState /\ wk.cfg \in Config
          /\ lb' = Written(lb, wk.cfg, LbPorts(wk.decl)) /\ LbPorts(wk.decl) \in SUBSET PortId
      BY <2>2, PortsTyped DEF Versions, LbWritten, TypeOK, WorkerState
    <3>2. /\ lb'.np = NodePorts(lb, LbPorts(wk.decl))
          /\ lb'.ann = ApplyAnnotations(lb, wk.cfg)
      BY <3>1, WrittenIs
    <3>3. \A p \in PortId : lb.np[p] # 0 /\ lb'.np[p] # 0 => lb'.np[p] = lb.np[p]
      BY <3>1, <3>2, NodePortsTyped
    <3>4. \A k \in AnnKey \ lb.managed : wk.cfg.anns[k] = "-" => lb'.ann[k] = lb.ann[k]
      BY <3>1, <3>2, AnnotationsTyped
    <3>5. QED
      BY <3>3, <3>4
  <2>3. ~DriftLb /\ ~RetypeLb
    <3>1. "drift" \in EventKinds \ {"any"}
      BY DEF EventKinds
    <3>2. QED
      BY <3>1, SpendTyped DEF DriftLb, RetypeLb
  <2>4. ~CollectLb
    <3>1. lb.rv \in Nat
      BY DEF TypeOK, LbState
    <3>2. lb.rv + 1 \in Nat
      BY <3>1
    <3>3. QED
      BY <3>2, NoLbTyped DEF CollectLb
  <2>5. QED
    BY <2>1, <2>2, <2>3, <2>4, LbSteps
<1>2. TypeOK /\ Versions /\ [Next]_vars => (TypeOK /\ Versions)'
  BY NextTyped, VersionsStep
<1>3. Init => TypeOK /\ Versions
  BY InitTyped, IdleTyped DEF Init, Versions
<1>4. TypeOK /\ Versions /\ [Next]_vars => [A]_vars
  BY <1>1
<1>5. QED
  BY <1>2, <1>3, <1>4, PTL DEF Spec, UpdateConserves

---------------------------------------------------------------------------
(* No trigger is lost.                                                     *)

(* Without others' annotations, what no configuration has set is not there. *)
OwnAnnotations == \A k \in AnnKey \ Foreign : k \notin lb.managed => lb.ann[k] = "-"

(* Services carry what they may, or nothing.                               *)
Tidy == \A s \in Service : svc[s].decl \in Declarations[s] \cup {Absent}

(* What a worker on its way to write has read is current, or it is to be     *)
(* read again.                                                               *)
Fresh ==
    wk.pc \in {"get", "create", "update"} =>
        (wk.cfg = cfg /\ wk.decl = DeclOf) \/ queue \/ dropped

TriggerInv == TypeOK /\ Versions /\ OwnAnnotations /\ Tidy /\ Fresh /\ NoLostUpdate

LEMMA WrittenOwn ==
    ASSUME NEW l \in LbState, NEW c \in Config, NEW P \in SUBSET PortId,
           \A k \in AnnKey \ Foreign : k \notin l.managed => l.ann[k] = "-",
           NEW k \in AnnKey \ Foreign, k \notin Written(l, c, P).managed
    PROVE  Written(l, c, P).ann[k] = "-"
<1> DEFINE w == Written(l, c, P)
<1>1. w.managed = Managed(c) /\ w.ann = ApplyAnnotations(l, c)
  BY WrittenIs
<1>2. k \notin w.managed
  OBVIOUS
<1> HIDE DEF w
<1>3. c.anns[k] = "-"
  BY <1>1, <1>2 DEF Managed
<1>4. w.ann[k] = "-"
  BY <1>1, <1>3, AnnotationsTyped
<1>5. QED
  BY <1>4 DEF w

LEMMA OwnAnnotationsStep == TypeOK /\ Versions /\ OwnAnnotations /\ [Next]_vars => OwnAnnotations'
<1> SUFFICES ASSUME TypeOK, Versions, OwnAnnotations, [Next]_vars PROVE OwnAnnotations'
  OBVIOUS
<1>t. /\ lb \in LbState /\ lb.rv \in Nat /\ wk.cfg \in Config
      /\ LbPorts(wk.decl) \in SUBSET PortId
  BY PortsTyped DEF TypeOK, LbState, WorkerState
<1>n. \A n \in Nat : NoLb(n) \in LbState /\ \A k \in AnnKey : NoLb(n).ann[k] = "-"
  BY NoLbTyped DEF NoAnnotations
<1>1. CASE lb' = lb
  BY <1>1 DEF OwnAnnotations
<1>2. CASE lb' = Written(NoLb(lb.rv), wk.cfg, LbPorts(wk.decl))
  <2> DEFINE l == NoLb(lb.rv)
             P == LbPorts(wk.decl)
  <2>1. /\ l \in LbState /\ (\A k \in AnnKey : l.ann[k] = "-") /\ lb' = Written(l, wk.cfg, P)
        /\ P \in SUBSET PortId
    BY <1>t, <1>n, <1>2
  <2> HIDE DEF l, P
  <2>2. QED
    BY <1>t, <2>1, WrittenOwn DEF OwnAnnotations
<1>3. CASE wk.pc = "update" /\ lb.rv = wk.snap.rv /\ lb' = LbWritten
  <2>1. lb' = Written(lb, wk.cfg, LbPorts(wk.decl))
    BY <1>3 DEF Versions, LbWritten
  <2>2. QED
    BY <1>t, <2>1, WrittenOwn DEF OwnAnnotations
<1>4. CASE DriftLb \/ RetypeLb \/ CollectLb
  <2>1. lb.rv + 1 \in Nat
    BY <1>t
  <2>2. CASE lb' = NoLb(lb.rv + 1)
    BY <1>n, <2>1, <2>2 DEF OwnAnnotations
  <2>3. QED
    BY <1>4, <2>2, DriftLbIs DEF OwnAnnotations
<1>5. QED
  BY <1>1, <1>2, <1>3, <1>4, LbSteps

LEMMA SvcSteps ==
    ASSUME [Next]_vars
    PROVE  \/ UNCHANGED svc
           \/ \E s \in Service : EditService(s) \/ DeleteService(s)
BY DEF Next, Work, Kubernetes, Reconcile, GetLb, CreateLb, UpdateLb, UpsertRoute, WriteIngress,
       CollectIngress, CollectRoute, CollectLb, DriftLb, RetypeLb, EditConfig, ApiError, Crash,
       Resync, vars

LEMMA TidyStep == TypeOK /\ Tidy /\ [Next]_vars => Tidy'
<1> SUFFICES ASSUME TypeOK, Tidy, [Next]_vars, NEW t \in Service
             PROVE  svc'[t].decl \in Declarations[t] \cup {Absent}
  BY DEF Tidy
<1>1. CASE svc'[t] = svc[t]
  BY <1>1 DEF Tidy
<1>2. ASSUME NEW s \in Service, EditService(s) PROVE svc'[t].decl \in Declarations[t] \cup {Absent}
  BY <1>1, <1>2, EditServiceIs
<1>3. ASSUME NEW s \in Service, DeleteService(s) PROVE svc'[t].decl \in Declarations[t] \cup {Absent}
  BY <1>1, <1>3, DeleteServiceIs
<1>4. QED
  BY <1>1, <1>2, <1>3, SvcSteps

(* A service that exposes nothing has no ports.                            *)
LEMMA TidyPorts ==
    ASSUME TypeOK, Tidy, NEW s \in Service
    PROVE  /\ svc[s].decl \in Declaration
           /\ svc[s].decl.kind # "ok" => svc[s].decl.ports = {}
BY LoadBalancerAssumption, AbsentTyped DEF TypeOK, Tidy

LEMMA SameDeclaration ==
    ASSUME NEW c \in Declaration, NEW d \in Declaration, c.kind = d.kind, c.ports = d.ports
    PROVE  c = d
BY DEF Declaration

(* A change of what services expose passes the filter, or is one the filter  *)
(* drops.                                                                    *)
LEMMA ChangeIsSeen ==
    ASSUME TypeOK, Tidy, NEW s \in Service, EditService(s) \/ DeleteService(s), ~queue', ~dropped'
    PROVE  DeclOf' = DeclOf /\ ~queue /\ ~dropped
<1>1. svc[s].decl \in Declaration /\ (svc[s].decl.kind # "ok" => svc[s].decl.ports = {})
  BY TidyPorts
<1>t. DeclOf = [t \in Service |-> svc[t].decl] /\ DeclOf' = [t \in Service |-> svc'[t].decl]
  BY DEF DeclOf
<1>2. CASE EditService(s)
  <2> DEFINE c == svc[s].decl
             d == svc'[s].decl
  <2>1. d \in Declarations[s] /\ d \in Declaration /\ (d.kind # "ok" => d.ports = {})
    BY <1>2, EditServiceIs, LoadBalancerAssumption
  <2>2. ~Passes(c, d) /\ "invalid" \notin {c.kind, d.kind} /\ ~queue /\ ~dropped
    BY <1>2, EditServiceIs
  <2>3. c \in Declaration /\ (c.kind # "ok" => c.ports = {})
    BY <1>1
  <2>4. c = d
    <3> HIDE DEF c, d
    <3>1. c.kind = d.kind /\ c.ports = d.ports
      BY <2>1, <2>2, <2>3 DEF Passes, Declaration
    <3>2. QED
      BY <2>1, <2>3, <3>1, SameDeclaration
  <2>5. \A t \in Service : svc'[t].decl = svc[t].decl
    BY <1>2, <2>4, EditServiceIs
  <2>6. QED
    BY <1>t, <2>2, <2>5
<1>3. CASE DeleteService(s)
  <2>1. svc[s].decl.kind = "absent" /\ ~queue /\ ~dropped
    BY <1>3, DeleteServiceIs DEF DeleteService
  <2>2. svc[s].decl = Absent
    BY <1>1, <2>1, AbsentTyped, SameDeclaration
  <2>3. \A t \in Service : svc'[t].decl = svc[t].decl
    BY <1>3, <2>2, DeleteServiceIs
  <2>4. QED
    BY <1>t, <2>1, <2>3
<1>4. QED
  BY <1>2, <1>3

(* Steps that leave what the worker and the invariant look at.             *)
Idling == UNCHANGED <<svc, cfg, lb, queue, wk, dropped>>

LEMMA OtherSteps ==
    ASSUME [Next]_vars
    PROVE  \/ Reconcile \/ GetLb \/ CreateLb \/ UpdateLb \/ \E e \in Entry : UpsertRoute(e)
           \/ Idling /\ UNCHANGED vars
           \/ Idling /\ \E s \in Service : WriteIngress(s) \/ CollectIngress(s)
           \/ Idling /\ \E n \in RouteName : CollectRoute(n)
           \/ CollectLb \/ RetypeLb
           \/ queue' /\ (EditConfig \/ DriftLb \/ Resync \/ ApiError)
           \/ Crash
           \/ \E s \in Service : EditService(s) \/ DeleteService(s)
<1>1. CASE UNCHANGED vars
  BY <1>1 DEF vars, Idling
<1>2. CASE Kubernetes
  BY <1>2 DEF Kubernetes, WriteIngress, CollectIngress, CollectRoute, Idling
<1>3. CASE EditConfig \/ DriftLb \/ Resync \/ ApiError
  BY <1>3 DEF EditConfig, DriftLb, Resync, ApiError, Fail
<1>4. QED
  BY <1>1, <1>2, <1>3 DEF Next, Work

LEMMA FreshStep == TypeOK /\ Tidy /\ Fresh /\ [Next]_vars => Fresh'
<1> SUFFICES ASSUME TypeOK, Tidy, Fresh, [Next]_vars, wk'.pc \in {"get", "create", "update"},
                    ~queue', ~dropped'
             PROVE  wk'.cfg = cfg' /\ wk'.decl = DeclOf'
  BY DEF Fresh
<1>i. wk' # Idle
  BY IdleTyped
<1>1. CASE Reconcile
  BY <1>1, ReconcileIs DEF Reconcile, DeclOf
<1>2. CASE GetLb
  <2>1. /\ wk'.cfg = wk.cfg /\ wk'.decl = wk.decl /\ wk.pc = "get" /\ queue' = queue
        /\ UNCHANGED <<svc, cfg, dropped>>
    BY <1>2, <1>i, GetLbIs DEF GetLb, Fail
  <2>2. QED
    BY <2>1 DEF Fresh, DeclOf
<1>3. CASE CreateLb \/ UpdateLb
  BY <1>3, <1>i, ToRoutesIs DEF CreateLb, UpdateLb, Fail
<1>4. ASSUME NEW e \in Entry, UpsertRoute(e) PROVE FALSE
  BY <1>4, <1>i, UpsertRouteIs DEF Fail
<1>5. CASE CollectLb \/ RetypeLb \/ Idling
  BY <1>5 DEF CollectLb, RetypeLb, Idling, Fresh, DeclOf
<1>6. CASE Crash
  BY <1>6, <1>i DEF Crash
<1>7. ASSUME NEW s \in Service, EditService(s) \/ DeleteService(s)
      PROVE  wk'.cfg = cfg' /\ wk'.decl = DeclOf'
  <2>1. DeclOf' = DeclOf /\ ~queue /\ ~dropped /\ wk' = wk /\ cfg' = cfg
    BY <1>7, ChangeIsSeen DEF EditService, DeleteService
  <2>2. QED
    BY <2>1 DEF Fresh
<1>8. QED
  BY <1>1, <1>2, <1>3, <1>4, <1>5, <1>6, <1>7, OtherSteps

(* A write of what the ConfigMap and the services call for is in sync.     *)
LEMMA WrittenInSync ==
    ASSUME TypeOK, OwnAnnotations, NEW l \in LbState,
           \A k \in AnnKey \ Foreign : k \notin l.managed => l.ann[k] = "-",
           lb' = Written(l, cfg, LbPorts(DeclOf)), UNCHANGED <<svc, cfg>>
    PROVE  InSync'
<1> DEFINE P == LbPorts(DeclOf)
<1>1. cfg \in Config /\ DeclOf \in [Service -> Declaration]
  BY DeclOfTyped DEF TypeOK
<1>2. P \in SUBSET PortId
  BY <1>1, PortsTyped
<1>3. /\ lb'.exists = TRUE /\ lb'.right = TRUE /\ lb'.np = NodePorts(l, P)
      /\ lb'.ann = ApplyAnnotations(l, cfg) /\ lb'.managed = Managed(cfg)
      /\ lb'.external = External(cfg)
  <2> HIDE DEF P
  <2>1. lb' = Written(l, cfg, P)
    BY DEF P
  <2> DEFINE w == Written(l, cfg, P)
  <2>2. /\ w.exists = TRUE /\ w.right = TRUE /\ w.np = NodePorts(l, P)
        /\ w.ann = ApplyAnnotations(l, cfg) /\ w.managed = Managed(cfg)
        /\ w.external = External(cfg)
    BY <1>1, <1>2, WrittenIs
  <2>3. lb' = w
    BY <2>1
  <2> HIDE DEF w
  <2>4. QED
    BY <2>2, <2>3
<1>4. {p \in PortId : lb'.np[p] # 0} = P
  <2> HIDE DEF P
  <2>1. QED
    BY <1>2, <1>3, NodePortsTyped
<1>5. \A k \in AnnKey : cfg.anns[k] # "-" \/ k \notin Foreign => lb'.ann[k] = cfg.anns[k]
  BY <1>1, <1>3, AnnotationsTyped
<1>6. DeclOf' = DeclOf
  BY DEF DeclOf
<1>7. External(cfg') = External(cfg) /\ Managed(cfg') = Managed(cfg)
  OBVIOUS
<1>8. QED
  BY <1>3, <1>4, <1>5, <1>6, <1>7 DEF InSync

LEMMA NoLostUpdateStep == TriggerInv /\ [Next]_vars => NoLostUpdate'
<1> SUFFICES ASSUME TriggerInv, [Next]_vars, Possible', ~InSync', ~queue', ~dropped'
             PROVE  Current'
  BY DEF NoLostUpdate
<1>t. TypeOK /\ Versions /\ OwnAnnotations /\ Tidy /\ Fresh /\ NoLostUpdate /\ wk.cfg \in Config
  BY DEF TriggerInv, TypeOK, WorkerState
<1>l. lb \in LbState /\ lb.rv \in Nat
  BY <1>t DEF TypeOK, LbState
<1>s. ASSUME UNCHANGED <<lb, cfg, queue, dropped>>, DeclOf' = DeclOf
      PROVE  Current
  <2>1. InSync' <=> InSync
    BY <1>s DEF InSync
  <2>2. \A s \in Service : svc'[s].decl = svc[s].decl
    <3>1. \A s \in Service : DeclOf[s] = svc[s].decl /\ DeclOf'[s] = svc'[s].decl
      BY DEF DeclOf
    <3>2. QED
      BY <1>s, <3>1
  <2>3. Possible
    BY <1>s, <2>2 DEF Possible, Readable
  <2>4. QED
    BY <1>s, <1>t, <2>1, <2>3 DEF NoLostUpdate
<1>f. ~Fail
  BY DEF Fail
<1>1. CASE Reconcile
  BY <1>1, <1>t, ReconcileIs DEF Reconcile, Current, DeclOf
<1>2. CASE GetLb
  <2>1. /\ wk'.cfg = wk.cfg /\ wk'.decl = wk.decl /\ wk'.pc \in {"create", "update"} /\ queue' = queue
        /\ UNCHANGED <<svc, cfg, lb, dropped>>
    BY <1>2, <1>f, <1>t, GetLbIs DEF GetLb
  <2>2. DeclOf' = DeclOf
    BY <2>1 DEF DeclOf
  <2>3. QED
    BY <1>s, <2>1, <2>2 DEF Current
<1>3. CASE CreateLb
  <2>1. /\ lb' = Written(NoLb(lb.rv), wk.cfg, LbPorts(wk.decl)) /\ ~queue /\ ~dropped
        /\ wk.pc = "create" /\ UNCHANGED <<svc, cfg>>
    BY <1>3, <1>f DEF CreateLb
  <2>2. wk.cfg = cfg /\ wk.decl = DeclOf
    BY <1>t, <2>1 DEF Fresh
  <2>3. NoLb(lb.rv) \in LbState /\ \A k \in AnnKey : NoLb(lb.rv).ann[k] = "-"
    BY <1>l, NoLbTyped DEF NoAnnotations
  <2> DEFINE l == NoLb(lb.rv)
  <2>4. l \in LbState /\ (\A k \in AnnKey : l.ann[k] = "-") /\ lb' = Written(l, cfg, LbPorts(DeclOf))
    BY <2>1, <2>2, <2>3
  <2> HIDE DEF l
  <2>5. QED
    BY <1>t, <2>1, <2>4, WrittenInSync
<1>4. CASE UpdateLb
  <2>1. /\ lb' = LbWritten /\ ~queue /\ ~dropped /\ lb.rv = wk.snap.rv
        /\ wk.pc = "update" /\ UNCHANGED <<svc, cfg>>
    BY <1>4, <1>f DEF UpdateLb, Stale
  <2>2. wk.cfg = cfg /\ wk.decl = DeclOf /\ wk.snap = lb
    BY <1>t, <2>1 DEF Fresh, Versions
  <2>3. lb' = Written(lb, cfg, LbPorts(DeclOf))
    BY <2>1, <2>2 DEF LbWritten
  <2>4. QED
    BY <1>t, <1>l, <2>1, <2>3, WrittenInSync DEF OwnAnnotations
<1>5. ASSUME NEW e \in Entry, UpsertRoute(e) PROVE FALSE
  <2>1. UNCHANGED <<lb, cfg, queue, dropped, svc>> /\ wk.pc = "routes"
    BY <1>5, <1>f DEF UpsertRoute
  <2>2. DeclOf' = DeclOf
    BY <2>1 DEF DeclOf
  <2>3. QED
    BY <1>s, <2>1, <2>2 DEF Current
<1>6. CASE Idling
  <2>1. DeclOf' = DeclOf
    BY <1>6 DEF Idling, DeclOf
  <2>2. QED
    BY <1>6, <1>s, <2>1 DEF Current, Idling
<1>7. ~CollectLb /\ ~RetypeLb
  <2>1. ~CollectLb
    BY DEF CollectLb, Possible, Readable
  <2>2. CASE RetypeLb
    <3>1. lb'.exists = lb.exists /\ lb'.right = FALSE /\ lb.exists
      BY <1>l, <2>2 DEF RetypeLb, LbState
    <3>2. QED
      BY <3>1 DEF Possible
  <2>3. QED
    BY <2>1, <2>2
<1>8. ~Crash
  BY DEF Crash, Possible, Readable
<1>9. ASSUME NEW s \in Service, EditService(s) \/ DeleteService(s) PROVE Current'
  <2>1. DeclOf' = DeclOf /\ ~queue /\ ~dropped /\ UNCHANGED <<wk, cfg, lb>>
    BY <1>9, <1>t, ChangeIsSeen DEF EditService, DeleteService
  <2>2. \A t \in Service : svc'[t].decl = svc[t].decl
    <3>1. \A t \in Service : DeclOf[t] = svc[t].decl /\ DeclOf'[t] = svc'[t].decl
      BY DEF DeclOf
    <3>2. QED
      BY <2>1, <3>1
  <2>3. Possible /\ ~InSync
    BY <2>1, <2>2 DEF Possible, Readable, InSync
  <2>4. QED
    BY <1>t, <2>1, <2>3 DEF NoLostUpdate, Current
<1>10. QED
  BY <1>1, <1>2, <1>3, <1>4, <1>5, <1>6, <1>7, <1>8, <1>9, OtherSteps

LEMMA TriggerInvHolds == Spec => []TriggerInv
<1>1. Init => TriggerInv
  <2> SUFFICES ASSUME Init PROVE TriggerInv
    OBVIOUS
  <2>1. wk.pc = "idle" /\ lb.ann = NoAnnotations
    BY IdleTyped, NoLbTyped DEF Init
  <2>2. Versions /\ OwnAnnotations /\ Fresh
    BY <2>1 DEF Versions, OwnAnnotations, Fresh, NoAnnotations
  <2>3. Tidy
    BY LoadBalancerAssumption DEF Init, Tidy
  <2>4. NoLostUpdate
    BY DEF Init, NoLostUpdate, Possible, Readable
  <2>5. QED
    BY <2>2, <2>3, <2>4, InitTyped DEF TriggerInv
<1>2. TriggerInv /\ [Next]_vars => TriggerInv'
  BY NextTyped, VersionsStep, OwnAnnotationsStep, TidyStep, FreshStep, NoLostUpdateStep DEF TriggerInv
<1>3. QED
  BY <1>1, <1>2, PTL DEF Spec

(* No trigger of the loadbalancer is lost, whatever services and             *)
(* configurations there are: as long as it is not what ConfigMap and         *)
(* services call for, the request is queued or Reconcile is about to write   *)
(* it from what they say now, unless the event filter dropped the change.    *)
THEOREM NoTriggerIsLost == Spec => []NoLostUpdate
<1>1. TriggerInv => NoLostUpdate
  BY DEF TriggerInv
<1>2. QED
  BY <1>1, TriggerInvHolds, PTL

---------------------------------------------------------------------------
(* Every exposed port has its route.                                       *)

(* A service created again is another one; nothing is owned by one that was  *)
(* never there.                                                              *)
Uids ==
    /\ \A s \in Service : /\ svc[s].last >= 1 /\ svc[s].uid \in {0, svc[s].last}
                          /\ ing[s] <= svc[s].last
    /\ \A n \in RouteName : routes[n].owner <= svc[n[1]].last

(* Only ports that get along with each other are being served.             *)
Serving ==
    wk.pc = "routes" =>
        Acceptable(LbPorts(wk.decl)) /\ wk.todo \subseteq RoutePorts(wk.decl)

Routed(e) == svc[Info[e].svc].uid = 1 => routes[RouteOf(e)].port = e

(* With nothing queued and nothing dropped, the worker has yet to write the  *)
(* loadbalancer, or the ports it is done with have their routes.             *)
Served ==
    ~queue /\ ~dropped =>
        \/ Current
        \/ /\ wk.pc = "routes" /\ wk.decl = DeclOf
           /\ \A e \in RoutePorts(wk.decl) \ wk.todo : Routed(e)
        \/ wk.pc = "idle" /\ \A e \in RoutePorts(DeclOf) : Routed(e)

LEMMA RouteNameIs == ASSUME NEW n \in RouteName PROVE n[1] \in Service
BY LoadBalancerAssumption DEF RouteName, PortInfo

LEMMA LastGrows ==
    ASSUME TypeOK, Uids, [Next]_vars, NEW s \in Service
    PROVE  /\ svc[s].last \in Nat /\ svc'[s].last \in Nat /\ svc[s].last <= svc'[s].last
           /\ svc'[s].uid \in {0, svc'[s].last}
           /\ svc'[s].uid = 1 => svc[s].uid = 1
<1>t. svc[s].last \in Nat /\ svc[s].uid \in Nat
  BY DEF TypeOK
<1>u. svc[s].last >= 1 /\ svc[s].uid \in {0, svc[s].last}
  BY DEF Uids
<1>1. CASE svc'[s] = svc[s]
  BY <1>1, <1>t, <1>u
<1>2. CASE EditService(s)
  <2>1. /\ svc'[s].uid = IF svc[s].uid = 0 THEN svc[s].last + 1 ELSE svc[s].uid
        /\ svc'[s].last = IF svc[s].uid = 0 THEN svc[s].last + 1 ELSE svc[s].last
    BY <1>2, EditServiceIs
  <2>2. QED
    BY <1>t, <1>u, <2>1
<1>3. CASE DeleteService(s)
  <2>1. svc'[s].uid = 0 /\ svc'[s].last = svc[s].last
    BY <1>3, DeleteServiceIs
  <2>2. QED
    BY <1>t, <1>u, <2>1
<1>4. ASSUME NEW r \in Service, r # s, EditService(r) \/ DeleteService(r) PROVE svc'[s] = svc[s]
  BY <1>4, EditServiceIs, DeleteServiceIs
<1>5. QED
  BY <1>1, <1>2, <1>3, <1>4, SvcSteps

LEMMA IngSteps ==
    ASSUME [Next]_vars
    PROVE  ing' = ing \/ \E s \in Service : WriteIngress(s) \/ CollectIngress(s)
BY DEF Next, Work, Kubernetes, Reconcile, GetLb, CreateLb, UpdateLb, UpsertRoute, DeleteService,
       EditService, CollectRoute, CollectLb, DriftLb, RetypeLb, EditConfig, ApiError, Crash,
       Resync, vars

(* A route is written or goes.                                             *)
LEMMA RouteSteps ==
    ASSUME [Next]_vars
    PROVE  \/ routes' = routes
           \/ \E n \in RouteName : Garbage(n) /\ routes' = [routes EXCEPT ![n] = NoRoute]
           \/ \E e \in Entry :
                 /\ UpsertRoute(e)
                 /\ routes' = [routes EXCEPT ![RouteOf(e)] =
                                  [port |-> e, owner |-> ing[Info[e].svc]]]
<1>1. ASSUME NEW e \in Entry, UpsertRoute(e), Garbage(RouteOf(e)),
             routes' = [routes EXCEPT ![RouteOf(e)] = NoRoute]
      PROVE  \E n \in RouteName : Garbage(n) /\ routes' = [routes EXCEPT ![n] = NoRoute]
  BY <1>1, RouteNamed
<1>2. ASSUME NEW e \in Entry, UpsertRoute(e)
      PROVE  \/ \E n \in RouteName : Garbage(n) /\ routes' = [routes EXCEPT ![n] = NoRoute]
             \/ routes' = [routes EXCEPT ![RouteOf(e)] = [port |-> e, owner |-> ing[Info[e].svc]]]
  BY <1>1, <1>2 DEF UpsertRoute
<1>3. ASSUME NEW n \in RouteName, CollectRoute(n)
      PROVE  Garbage(n) /\ routes' = [routes EXCEPT ![n] = NoRoute]
  BY <1>3 DEF CollectRoute
<1>4. QED
  BY <1>2, <1>3 DEF Next, Work, Kubernetes, Reconcile, GetLb, CreateLb, UpdateLb, DeleteService,
       EditService, WriteIngress, CollectIngress, CollectLb, DriftLb, RetypeLb, EditConfig, ApiError,
       Crash, Resync, vars

LEMMA UidsStep == TypeOK /\ Uids /\ [Next]_vars => Uids'
<1> SUFFICES ASSUME TypeOK, Uids, [Next]_vars PROVE Uids'
  OBVIOUS
<1>t. /\ ing \in [Service -> Nat] /\ routes \in [RouteName -> RouteState]
      /\ \A s \in Service : svc[s].uid \in Nat /\ svc[s].last \in Nat
  BY DEF TypeOK, RouteState
<1>1. ASSUME NEW s \in Service PROVE svc'[s].last >= 1 /\ svc'[s].uid \in {0, svc'[s].last}
  <2>1. svc[s].last >= 1
    BY DEF Uids
  <2>2. QED
    BY <2>1, LastGrows
<1>2. ASSUME NEW s \in Service PROVE ing'[s] <= svc'[s].last
  <2>1. ing[s] <= svc[s].last /\ ing[s] \in Nat /\ svc[s].uid <= svc[s].last
    BY <1>t DEF Uids
  <2>2. ing'[s] = ing[s] \/ ing'[s] = svc[s].uid \/ ing'[s] = 0
    BY <1>t, IngSteps DEF WriteIngress, CollectIngress
  <2>3. QED
    BY <1>t, <2>1, <2>2, LastGrows
<1>3. ASSUME NEW n \in RouteName PROVE routes'[n].owner <= svc'[n[1]].last
  <2>1. n[1] \in Service
    BY RouteNameIs
  <2>2. routes[n].owner \in Nat /\ routes[n].owner <= svc[n[1]].last
    BY <1>t DEF Uids, RouteState
  <2>3. \/ routes'[n].owner = routes[n].owner \/ routes'[n].owner = 0
        \/ routes'[n].owner = ing[n[1]]
    <3>1. NoRoute.owner = 0
      BY DEF NoRoute
    <3>2. ASSUME NEW e \in Entry,
                 routes' = [routes EXCEPT ![RouteOf(e)] = [port |-> e, owner |-> ing[Info[e].svc]]]
          PROVE  routes'[n].owner = routes[n].owner \/ routes'[n].owner = ing[n[1]]
      <4> DEFINE r == [port |-> e, owner |-> ing[Info[e].svc]]
      <4>1. r.owner = ing[Info[e].svc] /\ routes' = [routes EXCEPT ![RouteOf(e)] = r]
        BY <3>2
      <4> HIDE DEF r
      <4>2. CASE n = RouteOf(e)
        <5>1. routes'[n] = r
          BY <1>t, <4>1, <4>2
        <5>2. n[1] = Info[e].svc
          BY <4>2, RouteNamed
        <5>3. QED
          BY <4>1, <5>1, <5>2
      <4>3. CASE n # RouteOf(e)
        BY <1>t, <4>1, <4>3
      <4>4. QED
        BY <4>2, <4>3
    <3>3. ASSUME NEW l \in RouteName, routes' = [routes EXCEPT ![l] = NoRoute]
          PROVE  routes'[n].owner = routes[n].owner \/ routes'[n].owner = 0
      BY <1>t, <3>1, <3>3
    <3>4. QED
      BY <3>2, <3>3, RouteSteps
  <2>4. ing[n[1]] \in Nat /\ ing[n[1]] <= svc[n[1]].last
    BY <1>t, <2>1 DEF Uids
  <2>5. QED
    BY <1>t, <2>1, <2>2, <2>3, <2>4, LastGrows
<1>4. QED
  BY <1>1, <1>2, <1>3 DEF Uids

(* The route of a service that was never created again is no garbage, and    *)
(* is written for another port only.                                         *)
LEMMA RoutedStays ==
    ASSUME TypeOK, Uids, [Next]_vars, NEW e \in Entry, Routed(e),
           \A f \in Entry : UpsertRoute(f) /\ f # e => RouteOf(f) # RouteOf(e)
    PROVE  Routed(e)'
<1> SUFFICES ASSUME svc'[Info[e].svc].uid = 1 PROVE routes'[RouteOf(e)].port = e
  BY DEF Routed
<1>t. /\ RouteOf(e) \in RouteName /\ RouteOf(e)[1] = Info[e].svc /\ Info[e].svc \in Service
      /\ routes \in [RouteName -> RouteState]
  BY RouteNamed DEF TypeOK, RouteState
<1>u. svc[Info[e].svc].uid = 1 /\ routes[RouteOf(e)].port = e
  BY <1>t, LastGrows DEF Routed
<1>g. ~Garbage(RouteOf(e))
  <2>1. routes[RouteOf(e)].owner \in Nat /\ routes[RouteOf(e)].owner <= svc[Info[e].svc].last
    BY <1>t DEF Uids, RouteState
  <2>2. svc[Info[e].svc].last = 1
    BY <1>t, <1>u DEF Uids
  <2>3. QED
    BY <1>t, <1>u, <2>1, <2>2 DEF Garbage
<1>1. ASSUME NEW n \in RouteName, Garbage(n), routes' = [routes EXCEPT ![n] = NoRoute]
      PROVE  routes'[RouteOf(e)] = routes[RouteOf(e)]
  BY <1>1, <1>g, <1>t
<1>2. ASSUME NEW f \in Entry, UpsertRoute(f),
             routes' = [routes EXCEPT ![RouteOf(f)] = [port |-> f, owner |-> ing[Info[f].svc]]]
      PROVE  routes'[RouteOf(e)].port = e
  <2> DEFINE r == [port |-> f, owner |-> ing[Info[f].svc]]
  <2>1. r.port = f /\ routes' = [routes EXCEPT ![RouteOf(f)] = r]
    BY <1>2
  <2> HIDE DEF r
  <2>2. CASE f = e
    BY <1>t, <2>1, <2>2
  <2>3. CASE f # e
    <3>1. RouteOf(f) # RouteOf(e)
      BY <1>2, <2>3
    <3>2. QED
      BY <1>t, <1>u, <2>1, <3>1
  <2>4. QED
    BY <2>2, <2>3
<1>3. QED
  BY <1>1, <1>2, <1>u, RouteSteps

(* The API server accepts no two ports with the same route.                *)
LEMMA RoutesApart ==
    ASSUME NEW D \in [Service -> Declaration], Acceptable(LbPorts(D)),
           NEW e \in RoutePorts(D), NEW f \in RoutePorts(D), RouteOf(e) = RouteOf(f)
    PROVE  e = f
<1>1. /\ e \in Entry /\ f \in Entry /\ e \in LbPorts(D) /\ f \in LbPorts(D)
  BY PortsTyped
<1>2. Info[e].svc = Info[f].svc /\ Info[e].number = Info[f].number
  BY DEF RouteOf
<1>3. NameOf(e) = NameOf(f)
  BY <1>1, <1>2 DEF NameOf
<1>4. Clash(e, f)
  BY <1>3 DEF Clash
<1>5. QED
  BY <1>1, <1>4 DEF Acceptable

LEMMA ServingStep == TypeOK /\ Serving /\ [Next]_vars => Serving'
<1> SUFFICES ASSUME TypeOK, Serving, [Next]_vars, wk'.pc = "routes"
             PROVE  Acceptable(LbPorts(wk'.decl)) /\ wk'.todo \subseteq RoutePorts(wk'.decl)
  BY DEF Serving
<1>i. wk' # Idle
  BY IdleTyped
<1>1. CASE wk' = wk
  BY <1>1 DEF Serving
<1>2. ~Reconcile /\ ~GetLb
  BY <1>i, ReconcileIs, GetLbIs DEF Fail
<1>3. CASE CreateLb \/ UpdateLb
  <2>1. wk' = ToRoutes /\ Acceptable(LbPorts(wk.decl))
    BY <1>3, <1>i DEF CreateLb, UpdateLb, Fail
  <2>2. wk'.decl = wk.decl /\ wk'.todo = RoutePorts(wk.decl)
    BY <1>i, <2>1, ToRoutesIs
  <2>3. QED
    BY <2>1, <2>2
<1>4. ASSUME NEW e \in Entry, UpsertRoute(e)
      PROVE  Acceptable(LbPorts(wk'.decl)) /\ wk'.todo \subseteq RoutePorts(wk'.decl)
  <2>1. wk'.decl = wk.decl /\ wk'.todo = wk.todo \ {e} /\ wk.pc = "routes"
    BY <1>4, <1>i, UpsertRouteIs DEF Fail
  <2>2. QED
    BY <2>1 DEF Serving
<1>5. QED
  BY <1>1, <1>2, <1>3, <1>4, <1>i, OtherSteps
     DEF Idling, CollectLb, RetypeLb, EditConfig, DriftLb, Resync, ApiError, Fail, Crash,
         EditService, DeleteService

RouteInv == TriggerInv /\ Uids /\ Serving /\ Served

LEMMA NoRoutePorts ==
    ASSUME TypeOK, Tidy, \A s \in Service : svc[s].decl.kind = "absent"
    PROVE  RoutePorts(DeclOf) = {}
<1>1. \A s \in Service : DeclOf[s] = svc[s].decl /\ svc[s].decl.ports = {}
  BY TidyPorts DEF DeclOf
<1>2. QED
  BY <1>1 DEF RoutePorts, DoguPorts

LEMMA ServedStep == RouteInv /\ [Next]_vars => Served'
<1> SUFFICES ASSUME RouteInv, [Next]_vars, ~queue', ~dropped'
             PROVE  \/ Current'
                    \/ /\ wk'.pc = "routes" /\ wk'.decl = DeclOf'
                       /\ \A e \in RoutePorts(wk'.decl) \ wk'.todo : Routed(e)'
                    \/ wk'.pc = "idle" /\ \A e \in RoutePorts(DeclOf') : Routed(e)'
  BY DEF Served
<1> DEFINE G == \/ Current'
                \/ /\ wk'.pc = "routes" /\ wk'.decl = DeclOf'
                   /\ \A e \in RoutePorts(wk'.decl) \ wk'.todo : Routed(e)'
                \/ wk'.pc = "idle" /\ \A e \in RoutePorts(DeclOf') : Routed(e)'
<1>t. /\ TypeOK /\ Tidy /\ Fresh /\ Uids /\ Serving /\ Served
      /\ wk.decl \in [Service -> Declaration]
  BY DEF RouteInv, TriggerInv, TypeOK, WorkerState
<1>f. ~Fail
  BY DEF Fail
<1>d. DeclOf \in [Service -> Declaration] /\ RoutePorts(DeclOf) \subseteq Entry
  BY <1>t, DeclOfTyped, PortsTyped
<1>1. CASE Reconcile
  BY <1>1, <1>t, ReconcileIs DEF Reconcile, Current, DeclOf
<1>2. CASE GetLb
  <2>1. /\ wk'.cfg = wk.cfg /\ wk'.decl = wk.decl /\ wk'.pc \in {"create", "update"} /\ queue' = queue
        /\ UNCHANGED <<svc, cfg, lb, dropped>> /\ wk.pc = "get"
    BY <1>2, <1>f, <1>t, GetLbIs DEF GetLb
  <2>2. QED
    BY <1>t, <2>1 DEF Fresh, Current, DeclOf
<1>3. CASE CreateLb \/ UpdateLb
  <2>1. /\ wk' = ToRoutes /\ ~queue /\ ~dropped /\ UNCHANGED <<svc, cfg>>
        /\ wk.pc \in {"create", "update"}
    <3>1. CASE CreateLb
      BY <1>f, <3>1 DEF CreateLb
    <3>2. CASE UpdateLb
      BY <1>f, <3>2 DEF UpdateLb
    <3>3. QED
      BY <1>3, <3>1, <3>2
  <2>2. wk.decl = DeclOf /\ DeclOf' = DeclOf
    BY <1>t, <2>1 DEF Fresh, DeclOf
  <2>3. CASE RoutePorts(wk.decl) = {}
    BY <1>t, <2>1, <2>2, <2>3, ToRoutesIs, IdleTyped
  <2>4. CASE RoutePorts(wk.decl) # {}
    BY <1>t, <2>1, <2>2, <2>4, ToRoutesIs
  <2>5. QED
    BY <2>3, <2>4
<1>4. ASSUME NEW f \in Entry, UpsertRoute(f) PROVE G
  <2>1. /\ routes' = [routes EXCEPT ![RouteOf(f)] = [port |-> f, owner |-> ing[Info[f].svc]]]
        /\ wk.pc = "routes" /\ f \in wk.todo /\ ~queue /\ ~dropped /\ UNCHANGED <<svc, cfg>>
    BY <1>4, <1>f DEF UpsertRoute
  <2>2. /\ wk.decl = DeclOf /\ DeclOf' = DeclOf
        /\ \A e \in RoutePorts(DeclOf) \ wk.todo : Routed(e)
    BY <1>t, <2>1 DEF Served, Current, DeclOf
  <2>3. Acceptable(LbPorts(DeclOf)) /\ wk.todo \subseteq RoutePorts(DeclOf)
    BY <1>t, <2>1, <2>2 DEF Serving
  <2>4. routes'[RouteOf(f)].port = f
    <3> DEFINE r == [port |-> f, owner |-> ing[Info[f].svc]]
    <3>1. r.port = f /\ routes' = [routes EXCEPT ![RouteOf(f)] = r]
      BY <2>1
    <3>2. RouteOf(f) \in RouteName /\ routes \in [RouteName -> RouteState]
      BY <1>t, RouteNamed DEF TypeOK, RouteState
    <3> HIDE DEF r
    <3>3. QED
      BY <3>1, <3>2
  <2>5. ASSUME NEW e \in RoutePorts(DeclOf), e \notin wk.todo \/ e = f PROVE Routed(e)'
    <3>1. CASE e = f
      BY <2>4, <3>1 DEF Routed
    <3>2. CASE e # f
      <4>1. Routed(e) /\ e \in Entry
        BY <1>d, <2>2, <2>5, <3>2
      <4>2. ASSUME NEW h \in Entry, UpsertRoute(h), h # e PROVE RouteOf(h) # RouteOf(e)
        <5>1. h \in RoutePorts(DeclOf)
          BY <2>3, <4>2 DEF UpsertRoute
        <5>2. QED
          BY <1>d, <2>3, <4>2, <5>1, RoutesApart
      <4>3. QED
        BY <1>t, <4>1, <4>2, RoutedStays
    <3>3. QED
      BY <3>1, <3>2
  <2>6. CASE wk.todo = {f} /\ wk' = Idle
    <3>1. \A e \in RoutePorts(DeclOf) : Routed(e)'
      BY <2>5, <2>6
    <3>2. QED
      BY <2>2, <2>6, <3>1, IdleTyped
  <2>7. CASE wk'.pc = "routes" /\ wk'.decl = wk.decl /\ wk'.todo = wk.todo \ {f}
    <3>1. \A e \in RoutePorts(DeclOf) \ wk'.todo : Routed(e)'
      BY <2>5, <2>7
    <3>2. QED
      BY <2>2, <2>7, <3>1
  <2>8. QED
    BY <1>4, <1>f, <1>t, <2>6, <2>7, UpsertRouteIs
<1>5. ASSUME UNCHANGED <<cfg, wk>>, DeclOf' = DeclOf, ~queue, ~dropped,
             \A e \in Entry : ~UpsertRoute(e)
      PROVE  G
  <2>1. \A e \in Entry : Routed(e) => Routed(e)'
    BY <1>5, <1>t, RoutedStays
  <2>2. RoutePorts(wk.decl) \subseteq Entry
    BY <1>t, PortsTyped
  <2>3. Current => Current'
    BY <1>5 DEF Current
  <2>4. QED
    BY <1>5, <1>d, <1>t, <2>1, <2>2, <2>3 DEF Served
<1>6. CASE Idling \/ CollectLb \/ RetypeLb
  <2>1. CASE \E e \in Entry : UpsertRoute(e)
    BY <1>4, <2>1
  <2>2. CASE \A e \in Entry : ~UpsertRoute(e)
    <3>1. UNCHANGED <<svc, cfg, wk, dropped>> /\ ~queue
      <4>1. CASE CollectLb
        BY <4>1 DEF CollectLb
      <4>2. CASE Idling \/ RetypeLb
        BY <4>2 DEF Idling, RetypeLb
      <4>3. QED
        BY <1>6, <4>1, <4>2
    <3>2. DeclOf' = DeclOf
      BY <3>1 DEF DeclOf
    <3>3. QED
      BY <1>5, <2>2, <3>1, <3>2
  <2>3. QED
    BY <2>1, <2>2
<1>7. CASE Crash
  <2>1. wk' = Idle /\ svc' = svc /\ \A s \in Service : svc[s].decl.kind = "absent"
    BY <1>7 DEF Crash
  <2>2. RoutePorts(DeclOf) = {} /\ DeclOf' = DeclOf
    BY <1>t, <2>1, NoRoutePorts DEF DeclOf
  <2>3. QED
    BY <2>1, <2>2, IdleTyped
<1>8. ASSUME NEW s \in Service, EditService(s) \/ DeleteService(s) PROVE G
  <2>1. DeclOf' = DeclOf /\ ~queue /\ ~dropped /\ UNCHANGED <<wk, cfg>>
    BY <1>8, <1>t, ChangeIsSeen DEF EditService, DeleteService
  <2>2. CASE \E e \in Entry : UpsertRoute(e)
    BY <1>4, <2>2
  <2>3. QED
    BY <1>5, <2>1, <2>2
<1>9. QED
  BY <1>1, <1>2, <1>3, <1>4, <1>6, <1>7, <1>8, OtherSteps

(* ExposePorts serves every port, for any services and ports: when nothing   *)
(* is left to do, each exposed TCP or UDP port of a service that was never    *)
(* created again has its route with its target port, whatever failed before.  *)
THEOREM ExposedPortsAreRouted == Spec => []RoutesServed
<1>1. Init => Uids /\ Serving /\ Served
  <2> SUFFICES ASSUME Init PROVE Uids /\ Serving /\ Served
    OBVIOUS
  <2>1. TypeOK /\ Tidy
    BY InitTyped, LoadBalancerAssumption DEF Init, Tidy
  <2>2. Uids
    <3>1. NoRoute.owner = 0 /\ \A n \in RouteName : n[1] \in Service
      BY RouteNameIs DEF NoRoute
    <3>2. QED
      BY <3>1 DEF Init, Uids
  <2>3. Serving
    BY IdleTyped DEF Init, Serving
  <2>4. Served
    BY <2>1, IdleTyped, NoRoutePorts DEF Init, Served
  <2>5. QED
    BY <2>2, <2>3, <2>4
<1>2. RouteInv /\ [Next]_vars /\ TriggerInv' => (Uids /\ Serving /\ Served)'
  BY UidsStep, ServingStep, ServedStep DEF RouteInv, TriggerInv
<1>3. RouteInv => RoutesServed
  BY DEF RouteInv, Served, RoutesServed, Quiet, Current, Routed
<1>4. QED
  BY <1>1, <1>2, <1>3, TriggerInvHolds, PTL DEF Spec, RouteInv
=============================================================================
