---------------------------- MODULE LoadBalancer ----------------------------
(***************************************************************************)
(* The loadbalancer controller: one worker with one request, which reads   *)
(* the ConfigMap and the exposed ports of all dogu services, writes the    *)
(* Service ces-loadbalancer, and then one Traefik route per exposed port.  *)
(***************************************************************************)
EXTENDS Integers, FiniteSets

CONSTANTS
    Service,        \* dogu services
    Entry,          \* exposed ports that services may declare
    Info,           \* Info[e]: service, number, protocol and target port of e
    Declarations,   \* Declarations[s]: the annotations s may carry
    InitDecl,       \* InitDecl[s]: the annotation s starts with
    AnnKey,         \* keys of annotations of the loadbalancer
    Configs,        \* the contents the ConfigMap may have
    InitConfig,     \* the ConfigMap at the start
    Foreign,        \* annotation keys that others set on the loadbalancer
    ResyncOn,       \* do behaviours reach as far as the informers' resync?
    Budget          \* bounds on what the environment does, by kind

EventKinds == {"edit", "config", "drift", "fault", "crash", "any"}
Protocols == {"TCP", "UDP", "SCTP"}
PortInfo == [svc : Service, number : Nat, proto : Protocols, target : Nat]

(* absent: no annotation, no service, or not a dogu's ClusterIP service.   *)
Declaration == [kind : {"absent", "invalid", "ok"}, ports : SUBSET Entry]
Absent == [kind |-> "absent", ports |-> {}]

Value == {"-", "a", "b"}        \* of an annotation; "-" when it is not there
Annotations == [AnnKey -> Value]
Config == [kind : {"absent", "invalid", "ok"}, anns : Annotations,
           external : {"unset", "Local", "Cluster"}]

ASSUME LoadBalancerAssumption ==
    /\ Info \in [Entry -> PortInfo]
    /\ \A e, f \in Entry : Info[e] = Info[f] => e = f
    /\ Declarations \in [Service -> SUBSET Declaration]
    /\ \A s \in Service : \A d \in Declarations[s] :
          /\ d.kind # "ok" => d.ports = {}
          /\ \A e \in d.ports : Info[e].svc = s
    /\ InitDecl \in [Service -> Declaration]
    /\ \A s \in Service : InitDecl[s] \in Declarations[s] \cup {Absent}
    /\ Entry \cap {"http", "https"} = {}
    /\ Configs \subseteq Config /\ InitConfig \in Configs
    /\ Foreign \subseteq AnnKey
    /\ ResyncOn \in BOOLEAN
    /\ Budget \in [EventKinds -> Nat]

VARIABLES
    svc,        \* svc[s]: uid (0 if deleted) and annotation of s
    ing,        \* ing[s]: the owner of the ingress named s, 0 without one
    cfg,        \* the ConfigMap
    lb,         \* the Service ces-loadbalancer
    routes,     \* the IngressRouteTCP or IngressRouteUDP of a port
    queue,      \* is the request queued?
    wk,         \* the worker
    dropped,    \* history: has the filter dropped a change that was not read since?
    left        \* what the environment may still do

vars == <<svc, ing, cfg, lb, routes, queue, wk, dropped, left>>

---------------------------------------------------------------------------
(* Ports.                                                                  *)

PortId == Entry \cup {"http", "https"}

(* name, number and protocol; a port of a dogu is named after its service   *)
(* and its number.                                                          *)
NameOf(p) == IF p \in Entry THEN <<Info[p].svc, Info[p].number>> ELSE <<p, 0>>
NumberOf(p) == IF p \in Entry THEN Info[p].number ELSE IF p = "http" THEN 80 ELSE 443
ProtoOf(p) == IF p \in Entry THEN Info[p].proto ELSE "TCP"

(* A route is named after service, number and protocol.                    *)
RouteName == {<<Info[e].svc, Info[e].number, Info[e].proto>> : e \in Entry}
RouteOf(e) == <<Info[e].svc, Info[e].number, Info[e].proto>>

DoguPorts(D) == {e \in UNION {D[s].ports : s \in Service} : Info[e].number \notin {80, 443}}

(* createLoadBalancerExposedPorts filters the list in place, so the ports    *)
(* for the routes are without 80 and 443 as well.                            *)
LbPorts(D) == {"http", "https"} \cup DoguPorts(D)
RoutePorts(D) == {e \in DoguPorts(D) : Info[e].proto \in {"TCP", "UDP"}}

(* The API server refuses a Service with two ports of the same name or of   *)
(* the same number and protocol.                                            *)
Clash(p, q) == NameOf(p) = NameOf(q) \/ (NumberOf(p) = NumberOf(q) /\ ProtoOf(p) = ProtoOf(q))
Acceptable(P) == {p \in P : \E q \in P \ {p} : Clash(p, q)} = {}

---------------------------------------------------------------------------
(* The loadbalancer.  np[p] is the node port of p, 0 if p is not a port of   *)
(* it; a node port is named after the version at which it was allocated.     *)

NoAnnotations == [k \in AnnKey |-> "-"]
LbState == [exists : BOOLEAN, right : BOOLEAN, np : [PortId -> Nat],
            ann : Annotations, managed : SUBSET AnnKey,
            external : {"-", "Local", "Cluster"}, rv : Nat]

NoLb(rv) == [exists |-> FALSE, right |-> FALSE, np |-> [p \in PortId |-> 0],
             ann |-> NoAnnotations, managed |-> {}, external |-> "-", rv |-> rv]

Managed(c) == {k \in AnnKey : c.anns[k] # "-"}

(* Defect: the ConfigMap without a traffic policy gets no default.         *)
ExternalRaw(c) == c.external

(* ParseLoadbalancerConfig's default.                                      *)
External(c) == IF c.external = "unset" THEN "Local" ELSE c.external

(* ApplyConfig: what the last configuration set goes, the new one's comes,   *)
(* the annotations of others stay.                                           *)
ApplyAnnotations(l, c) ==
    [k \in AnnKey |-> IF c.anns[k] # "-" THEN c.anns[k]
                      ELSE IF k \in l.managed THEN "-" ELSE l.ann[k]]

(* Defect: SetNodePorts is not called.                                     *)
NodePortsFresh(l, P) == [p \in PortId |-> IF p \in P THEN l.rv + 1 ELSE 0]

(* SetNodePorts: a port with name, number, protocol and target port of an    *)
(* old one keeps its node port, others get one from the API server.          *)
NodePorts(l, P) ==
    [p \in PortId |-> IF p \notin P THEN 0
                      ELSE IF l.np[p] # 0 THEN l.np[p] ELSE l.rv + 1]

(* The loadbalancer l becomes under configuration c with ports P, by Create  *)
(* from nothing and by Update.  Without a change the version stays.          *)
Written(l, c, P) ==
    LET w == [l EXCEPT !.exists = TRUE, !.right = TRUE, !.np = NodePorts(l, P),
                       !.ann = ApplyAnnotations(l, c), !.managed = Managed(c),
                       !.external = External(c)]
    IN  IF w = l THEN l ELSE [w EXCEPT !.rv = @ + 1]

---------------------------------------------------------------------------
(* Reconcile.                                                              *)

WorkerState == [pc : {"idle", "get", "create", "update", "routes"}, cfg : Config,
                decl : [Service -> Declaration], snap : LbState, todo : SUBSET Entry]

NoConfig == [kind |-> "absent", anns |-> NoAnnotations, external |-> "unset"]
Idle == [pc |-> "idle", cfg |-> NoConfig, decl |-> [s \in Service |-> Absent],
         snap |-> NoLb(0), todo |-> {}]

DeclOf == [s \in Service |-> svc[s].decl]
Readable == cfg.kind = "ok" /\ \A s \in Service : svc[s].decl.kind # "invalid"

Fail == queue' = TRUE /\ wk' = Idle

(* With an unreadable ConfigMap or service the reconcile fails and the       *)
(* request stays queued.                                                     *)
Reconcile ==
    /\ wk.pc = "idle" /\ queue /\ Readable
    /\ queue' = FALSE
    /\ wk' = [Idle EXCEPT !.pc = "get", !.cfg = cfg, !.decl = DeclOf]
    /\ dropped' = FALSE
    /\ UNCHANGED <<svc, ing, cfg, lb, routes, left>>

GetLb ==
    /\ wk.pc = "get"
    /\ \/ lb.exists /\ ~lb.right /\ Fail
       \/ /\ lb.exists => lb.right
          /\ wk' = [wk EXCEPT !.pc = IF lb.exists THEN "update" ELSE "create", !.snap = lb]
          /\ UNCHANGED queue
    /\ UNCHANGED <<svc, ing, cfg, lb, routes, dropped, left>>

(* The worker after the loadbalancer has been written.                     *)
ToRoutes ==
    LET todo == RoutePorts(wk.decl)
    IN  IF todo = {} THEN Idle ELSE [wk EXCEPT !.pc = "routes", !.todo = todo]

LbWritten == Written(wk.snap, wk.cfg, LbPorts(wk.decl))

(* No event follows a creation.                                            *)
CreateLb ==
    /\ wk.pc = "create"
    /\ \/ /\ lb.exists \/ ~Acceptable(LbPorts(wk.decl))
          /\ Fail /\ UNCHANGED lb
       \/ /\ ~lb.exists /\ Acceptable(LbPorts(wk.decl))
          /\ lb' = Written(NoLb(lb.rv), wk.cfg, LbPorts(wk.decl))
          /\ wk' = ToRoutes /\ UNCHANGED queue
    /\ UNCHANGED <<svc, ing, cfg, routes, dropped, left>>

Stale == ~lb.exists \/ lb.rv # wk.snap.rv

(* A conflict is an error here.  Equals compares the addresses of the        *)
(* traffic policies, so any change of the loadbalancer queues the request.   *)
UpdateLb ==
    /\ wk.pc = "update"
    /\ \/ /\ Stale \/ ~Acceptable(LbPorts(wk.decl))
          /\ Fail /\ UNCHANGED lb
       \/ /\ ~Stale /\ Acceptable(LbPorts(wk.decl))
          /\ lb' = LbWritten
          /\ queue' = (queue \/ lb' # lb)
          /\ wk' = ToRoutes
    /\ UNCHANGED <<svc, ing, cfg, routes, dropped, left>>

(* Defect: ExposePorts returns after the first route.                      *)
UpsertFirstRoute(e) ==
    /\ wk.pc = "routes" /\ e \in wk.todo
    /\ routes' = [routes EXCEPT ![RouteOf(e)] = [port |-> e, owner |-> ing[Info[e].svc]]]
    /\ wk' = Idle
    /\ UNCHANGED <<svc, ing, cfg, lb, queue, dropped, left>>

(* Kubernetes collects what belongs to a deleted service.                  *)
NoRoute == [port |-> "-", owner |-> 0]
Garbage(n) == routes[n].owner # 0 /\ routes[n].owner # svc[n[1]].uid

(* Create, or else Get and Update: one route is written at a time, with the  *)
(* owner of the ingress of its service, if there is one.  It is an error if  *)
(* Kubernetes collects the route between Create and Update.                  *)
UpsertRoute(e) ==
    /\ wk.pc = "routes" /\ e \in wk.todo
    /\ \/ /\ routes' = [routes EXCEPT ![RouteOf(e)] = [port |-> e, owner |-> ing[Info[e].svc]]]
          /\ wk' = IF wk.todo = {e} THEN Idle ELSE [wk EXCEPT !.todo = @ \ {e}]
          /\ UNCHANGED queue
       \/ /\ Garbage(RouteOf(e))
          /\ routes' = [routes EXCEPT ![RouteOf(e)] = NoRoute]
          /\ Fail
    /\ UNCHANGED <<svc, ing, cfg, lb, dropped, left>>

---------------------------------------------------------------------------
(* Environment.                                                            *)

Spend(kind) ==
    /\ left[kind] > 0 /\ left["any"] > 0
    /\ left' = [left EXCEPT ![kind] = @ - 1, !["any"] = @ - 1]

(* Defect: only services that gain or lose the annotation are looked at.   *)
PassesPresence(old, new) == (old.kind = "absent") # (new.kind = "absent")

(* exposedPortServicePredicate: an update from or to an invalid annotation   *)
(* is dropped.                                                               *)
Passes(old, new) ==
    \/ (old.kind = "absent") # (new.kind = "absent")
    \/ old.kind = "ok" /\ new.kind = "ok" /\ old.ports # new.ports

(* A service is created again, or its annotation changes.                  *)
EditService(s) ==
    /\ Spend("edit")
    /\ \E d \in Declarations[s] :
          /\ svc[s].uid = 0 \/ d # svc[s].decl
          /\ svc' = [svc EXCEPT ![s].decl = d,
                                ![s].uid = IF @ = 0 THEN svc[s].last + 1 ELSE @,
                                ![s].last = IF svc[s].uid = 0 THEN @ + 1 ELSE @]
          /\ queue' = (queue \/ Passes(svc[s].decl, d))
          /\ dropped' = (dropped \/ "invalid" \in {svc[s].decl.kind, d.kind})
    /\ UNCHANGED <<ing, cfg, lb, routes, wk>>

DeleteService(s) ==
    /\ Spend("edit") /\ svc[s].uid # 0
    /\ svc' = [svc EXCEPT ![s].decl = Absent, ![s].uid = 0]
    /\ queue' = (queue \/ svc[s].decl.kind # "absent")
    /\ UNCHANGED <<ing, cfg, lb, routes, wk, dropped>>

(* The ingress of a service is written by the other controllers.           *)
WriteIngress(s) ==
    /\ svc[s].uid # 0 /\ ing[s] # svc[s].uid
    /\ ing' = [ing EXCEPT ![s] = svc[s].uid]
    /\ UNCHANGED <<svc, cfg, lb, routes, queue, wk, dropped, left>>

CollectIngress(s) ==
    /\ ing[s] # 0 /\ ing[s] # svc[s].uid
    /\ ing' = [ing EXCEPT ![s] = 0]
    /\ UNCHANGED <<svc, cfg, lb, routes, queue, wk, dropped, left>>

CollectRoute(n) ==
    /\ Garbage(n)
    /\ routes' = [routes EXCEPT ![n] = NoRoute]
    /\ UNCHANGED <<svc, ing, cfg, lb, queue, wk, dropped, left>>

(* Every event of the ConfigMap passes the predicate.                      *)
EditConfig ==
    /\ Spend("config")
    /\ \E c \in Configs \ {cfg} : cfg' = c
    /\ queue' = TRUE
    /\ UNCHANGED <<svc, ing, lb, routes, wk, dropped>>

(* The ConfigMap owns the loadbalancer.                                    *)
CollectLb ==
    /\ cfg.kind = "absent" /\ lb.exists
    /\ lb' = NoLb(lb.rv + 1)
    /\ queue' = (queue \/ lb.right)
    /\ UNCHANGED <<svc, ing, cfg, routes, wk, dropped, left>>

(* Others set an annotation of their own, change or delete the loadbalancer. *)
DriftLb ==
    /\ Spend("drift") /\ lb.exists /\ lb.right
    /\ \/ \E k \in Foreign : lb' = [lb EXCEPT !.ann[k] = "b", !.rv = @ + 1]
       \/ lb' = [lb EXCEPT !.np["https"] = 0, !.external = "Cluster", !.rv = @ + 1]
       \/ lb' = NoLb(lb.rv + 1)
    /\ queue' = TRUE
    /\ UNCHANGED <<svc, ing, cfg, routes, wk, dropped>>

(* Others change the type of the Service, which loadbalancerServicePredicate *)
(* takes for an unrelated Service from then on.                              *)
RetypeLb ==
    /\ Spend("drift") /\ lb.exists /\ lb.right
    /\ lb' = [lb EXCEPT !.right = FALSE, !.rv = @ + 1]
    /\ UNCHANGED <<svc, ing, cfg, routes, queue, wk, dropped>>

(* A call fails, or it succeeds and its answer is lost.                    *)
ApiError ==
    /\ Spend("fault") /\ wk.pc # "idle"
    /\ Fail
    /\ \/ UNCHANGED lb
       \/ /\ wk.pc = "update" /\ ~Stale /\ Acceptable(LbPorts(wk.decl))
          /\ lb' = LbWritten
    /\ UNCHANGED <<svc, ing, cfg, routes, dropped>>

(* A new process gets a create event for every object; the one of the        *)
(* loadbalancer does not pass.                                               *)
Crash ==
    /\ Spend("crash")
    /\ wk' = Idle
    /\ queue' = (cfg.kind # "absent" \/ \E s \in Service : svc[s].decl.kind # "absent")
    /\ UNCHANGED <<svc, ing, cfg, lb, routes, dropped>>

(* Defect: the ConfigMap's does not pass either.                           *)
ResyncFiltered == FALSE /\ UNCHANGED vars

(* Of the update events of a resync only the ConfigMap's passes.  It comes   *)
(* every ten hours, when what came before is done.                           *)
Resync ==
    /\ ResyncOn /\ cfg.kind # "absent" /\ ~queue /\ wk.pc = "idle"
    /\ queue' = TRUE
    /\ UNCHANGED <<svc, ing, cfg, lb, routes, wk, dropped, left>>

---------------------------------------------------------------------------
Init ==
    /\ svc = [s \in Service |-> [uid |-> 1, last |-> 1, decl |-> InitDecl[s]]]
    /\ ing = [s \in Service |-> 0]
    /\ cfg = InitConfig
    /\ lb = NoLb(0)
    /\ routes = [n \in RouteName |-> NoRoute]
    /\ queue = (cfg.kind # "absent" \/ \E s \in Service : svc[s].decl.kind # "absent")
    /\ wk = Idle
    /\ dropped = FALSE
    /\ left = Budget

Work == Reconcile \/ GetLb \/ CreateLb \/ UpdateLb \/ \E e \in Entry : UpsertRoute(e)

Kubernetes ==
    \/ \E s \in Service : WriteIngress(s) \/ CollectIngress(s)
    \/ \E n \in RouteName : CollectRoute(n)
    \/ CollectLb

Next ==
    \/ Work \/ Kubernetes \/ Resync
    \/ \E s \in Service : EditService(s) \/ DeleteService(s)
    \/ EditConfig \/ DriftLb \/ RetypeLb \/ ApiError \/ Crash

Spec == Init /\ [][Next]_vars

(* The worker keeps going, each ingress is written in the end, Kubernetes    *)
(* collects each piece of garbage and the resync comes round.  Nothing is    *)
(* assumed of the rest of the environment.                                   *)
Fairness ==
    /\ WF_vars(Work) /\ WF_vars(Resync) /\ WF_vars(CollectLb)
    /\ \A s \in Service : WF_vars(WriteIngress(s) \/ CollectIngress(s))
    /\ \A n \in RouteName : WF_vars(CollectRoute(n))

LiveSpec == Spec /\ Fairness
---------------------------------------------------------------------------
(* Every variable has its type.                                            *)
TypeOK ==
    /\ svc \in [Service -> [uid : Nat, last : Nat, decl : Declaration]]
    /\ ing \in [Service -> Nat]
    /\ cfg \in Config
    /\ lb \in LbState
    /\ routes \in [RouteName -> [port : Entry \cup {"-"}, owner : Nat]]
    /\ queue \in BOOLEAN /\ dropped \in BOOLEAN
    /\ wk \in WorkerState
    /\ left \in [EventKinds -> Nat]

(* The loadbalancer is what ConfigMap and services call for: ports, traffic  *)
(* policy, and the annotations of the ConfigMap and no former ones.          *)
InSync ==
    /\ lb.exists /\ lb.right
    /\ {p \in PortId : lb.np[p] # 0} = LbPorts(DeclOf)
    /\ lb.external = External(cfg) /\ lb.managed = Managed(cfg)
    /\ \A k \in AnnKey : cfg.anns[k] # "-" \/ k \notin Foreign => lb.ann[k] = cfg.anns[k]

(* A loadbalancer that can be brought into that state.                     *)
Possible == Readable /\ Acceptable(LbPorts(DeclOf)) /\ (lb.exists => lb.right)

Current == wk.pc \in {"get", "create", "update"} /\ wk.cfg = cfg /\ wk.decl = DeclOf

(* No trigger is lost: as long as the loadbalancer is not what it should be, *)
(* the request is queued or Reconcile is about to write it from what it has  *)
(* read, after drift, conflicts, lost answers and restarts too; unless the   *)
(* event filter dropped a change from or to an invalid annotation.           *)
NoLostUpdate == Possible /\ ~InSync => queue \/ Current \/ dropped

(* An update keeps what it does not own: the node port of every port that    *)
(* stays (SetNodePorts), and annotations no configuration has set            *)
(* (ApplyConfig), even if they changed while Reconcile was under way.        *)
UpdateConserves ==
    [][wk.pc = "update" /\ left' = left /\ lb'.exists =>
          /\ \A p \in PortId : lb.np[p] # 0 /\ lb'.np[p] # 0 => lb'.np[p] = lb.np[p]
          /\ \A k \in AnnKey \ lb.managed :
                wk.cfg.anns[k] = "-" => lb'.ann[k] = lb.ann[k]]_vars

Quiet == ~queue /\ wk.pc = "idle"

(* ExposePorts has served every port: when there is nothing left to do, each *)
(* exposed TCP or UDP port of a service that was never created again has its *)
(* route, with its target port, also if one route of several failed before.  *)
RoutesServed ==
    Quiet /\ Readable /\ ~dropped => \A e \in RoutePorts(DeclOf) :
        svc[Info[e].svc].uid = 1 => routes[RouteOf(e)].port = e

(* Once the environment is quiet and ConfigMap and services can be parsed,   *)
(* the loadbalancer is brought in sync for good and every exposed port has   *)
(* its route: what an event filter dropped, the resync makes good.           *)
Converges ==
    <>[](Readable /\ (lb.exists => lb.right) =>
            /\ InSync
            /\ \A e \in RoutePorts(DeclOf) : routes[RouteOf(e)].port = e)
=============================================================================
