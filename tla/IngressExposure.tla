-------------------------- MODULE IngressExposure --------------------------
(***************************************************************************)
(* How the service, the deployment and the maintenance controller keep one *)
(* ingress per ces service.  Each controller is one worker with a queue of *)
(* its own; all three run UpsertIngressForService, so their API calls      *)
(* interleave on the same ingress and middleware objects.                  *)
(*                                                                         *)
(* An object is seen the moment its event is queued: the informer cache    *)
(* and the API server are one state, and what a reconcile holds on to      *)
(* after reading it is its worker record.                                  *)
(***************************************************************************)
EXTENDS Integers, FiniteSets

CONSTANTS
    Service,        \* names of the Services of the namespace
    Ces,            \* names of ces services; each is the name of an ingress
    OwnerOf,        \* OwnerOf[c]: the service whose annotation may declare c
    Declarations,   \* Declarations[s]: the annotations s may carry
    Labelled,       \* objects with a dogu label (HasDoguLabel)
    NameLabelled,   \* services whose dogu.name label is not empty
    Exposed,        \* services that are not of type ClusterIP
    NginxRelated,   \* services whose selector has the prefix nginx-
    NoDogu,         \* services for which no Dogu resource exists
    InitSel,        \* InitSel[s]: the selector s is created with
    InitLive,       \* services that exist when the manager starts
    InitDep,        \* InitDep[s]: the deployment of s at that time
    ResyncOn,       \* do behaviours reach as far as the informers' resync?
    ConfigMapKept,  \* does the maintenance ConfigMap outlive deactivation?
    Budget          \* bounds on what the environment does, by kind and of any kind

Controllers == {"service", "deployment", "maintenance"}
Regular     == {"plain", "pass", "rewrite"}
Kinds       == Regular \cup {"none", "badRewrite"}
Routes      == Regular \cup {"none", "maintenance", "starting"}
Selectors   == {"dogu", "deactivated", "none"}
EventKinds  == {"toggle", "rollout", "edit", "fault", "crash", "any"}

(* An annotation: can it be parsed (or is it missing), which ces services  *)
(* does it declare and how, is the additional ingress annotation valid.    *)
Declaration == [parse : {"ok", "absent", "invalid"}, ces : [Ces -> Kinds],
                extra : BOOLEAN]

ASSUME ConstantsAssumption ==
    /\ OwnerOf \in [Ces -> Service]
    /\ Declarations \in [Service -> SUBSET Declaration]
    /\ \A s \in Service, c \in Ces : \A d \in Declarations[s] :
          d.ces[c] # "none" => OwnerOf[c] = s
    /\ Labelled \subseteq Service /\ NameLabelled \subseteq Service
    /\ Exposed \subseteq Service /\ NginxRelated \subseteq Service
    /\ NoDogu \subseteq Service /\ InitLive \subseteq Service
    /\ InitSel \in [Service -> {"dogu", "none"}]
    /\ InitDep \in [Service -> {"none", "notReady", "ready"}]
    /\ ConfigMapKept \in BOOLEAN /\ ResyncOn \in BOOLEAN
    /\ Budget \in [EventKinds -> Nat]

VARIABLES
    maintenance,    \* is maintenance mode active?
    dep,            \* the deployment of the same name, if any
    svc,            \* the Service objects
    ingress,        \* the ingress of each ces service
    mw,             \* the replace-path middleware of each ces service
    svcQ, depQ,     \* requests queued for the service and the deployment controller
    mntQ,           \* is a request queued for the maintenance controller?
    wk,             \* the worker of each controller
    stale,          \* history: ces services whose last write was out of date
    left            \* what the environment may still do

vars == <<maintenance, dep, svc, ingress, mw, svcQ, depQ, mntQ, wk, stale, left>>
cluster == <<maintenance, dep, svc>>
queues == <<svcQ, depQ, mntQ>>

---------------------------------------------------------------------------
(* Objects.  A uid is the resource version at creation, 0 when absent.     *)

NoDeclaration == [parse |-> "absent", ces |-> [c \in Ces |-> "none"], extra |-> TRUE]
Gone == [uid |-> 0, rv |-> 0, decl |-> NoDeclaration, sel |-> "none"]

ServiceState == [uid : Nat, rv : Nat, decl : Declaration, sel : Selectors]
IngressState == [route : Routes, owner : Nat]
MiddlewareState == [owner : Nat, rv : Nat]

Live(s) == svc[s].uid # 0
LiveServices == {s \in Service : Live(s)}

Declares(v, c) == v.decl.parse = "ok" /\ v.decl.ces[c] # "none"

Writing == {"mwGet", "mwPut", "get", "put"}
WorkerState ==
    [pc   : Writing \cup {"idle", "next", "ces", "rewrite"},
     job  : {"upsert", "activate", "deactivate"},
     todo : SUBSET Service,          \* services still to be handled
     snap : [Service -> ServiceState],  \* the services as they were read
     cur  : Service \cup {"-"},      \* the service being handled
     maint : BOOLEAN,                \* maintenance mode as read for cur
     rest : SUBSET Ces,              \* ces services of cur still to be handled
     c    : Ces \cup {"-"},          \* the ces service being handled
     out  : Routes,                  \* the route that will be written for it
     seen : Nat,                     \* what Get returned: 0 for NotFound
     errs : BOOLEAN]                 \* did a rewrite fail?

Idle == [pc |-> "idle", job |-> "upsert", todo |-> {},
         snap |-> [s \in Service |-> Gone], cur |-> "-", maint |-> FALSE,
         rest |-> {}, c |-> "-", out |-> "none", seen |-> 0, errs |-> FALSE]

(* A worker that has services before it and is at none of them.            *)
Between(pc, job, S, snap) ==
    [Idle EXCEPT !.pc = pc, !.job = job, !.todo = S, !.snap = snap]

(* The services a worker has read, and no more.                            *)
SnapOf(S) == [s \in Service |-> IF s \in S THEN svc[s] ELSE Gone]

---------------------------------------------------------------------------
(* Ends of a reconcile.                                                    *)

(* Defect: the error is logged and nil is returned.                        *)
FailSwallowed(w, s) == wk' = [wk EXCEPT ![w] = Idle] /\ UNCHANGED queues

(* A reconcile that returns an error is queued again: the request of the    *)
(* service and the deployment controller is the service s being handled.    *)
Fail(w, s) ==
    /\ wk' = [wk EXCEPT ![w] = Idle]
    /\ svcQ' = IF w = "service" THEN svcQ \cup {s} ELSE svcQ
    /\ depQ' = IF w = "deployment" THEN depQ \cup {s} ELSE depQ
    /\ mntQ' = (mntQ \/ w = "maintenance")

(* rewriteNonSimpleServiceRoute leaves a service alone unless it is exposed, *)
(* selects a dogu, and is not nginx's.                                       *)
Rewritable(s, v) ==
    v.uid # 0 /\ s \in Exposed /\ v.sel # "none" /\ s \notin NginxRelated

(* What a worker does once the ces services of cur are written: the next    *)
(* service of the sweep, the rewrite of the exposed services, or nothing.   *)
AfterService(r) ==
    LET rewrites == {s \in Service : Rewritable(s, r.snap[s])}
    IN  IF r.todo # {} THEN Between("next", r.job, r.todo, r.snap)
        ELSE IF r.job # "upsert" /\ rewrites # {}
             THEN Between("rewrite", r.job, rewrites, r.snap)
        ELSE Idle

AfterCes(r) ==
    IF r.rest = {} THEN AfterService(r)
    ELSE [r EXCEPT !.pc = "ces", !.c = "-", !.out = "none", !.seen = 0]

---------------------------------------------------------------------------
(* The three Reconcile functions, up to the first service.                 *)

Start(w, job, S) == wk' = [wk EXCEPT ![w] = Between("next", job, S, SnapOf(S))]

(* A deleted service leads to handleDelete, which touches no ingress.      *)
ServiceReconcile(s) ==
    /\ wk["service"].pc = "idle" /\ s \in svcQ
    /\ svcQ' = svcQ \ {s}
    /\ IF Live(s) THEN Start("service", "upsert", {s}) ELSE UNCHANGED wk
    /\ UNCHANGED <<cluster, ingress, mw, depQ, mntQ, stale, left>>

(* No deployment, or one without a dogu label: done.  No service: an error, *)
(* so the request stays queued.                                             *)
DeploymentReconcile(s) ==
    /\ wk["deployment"].pc = "idle" /\ s \in depQ
    /\ \/ /\ dep[s] = "none" \/ s \notin Labelled
          /\ depQ' = depQ \ {s} /\ UNCHANGED wk
       \/ /\ dep[s] # "none" /\ s \in Labelled /\ Live(s)
          /\ depQ' = depQ \ {s} /\ Start("deployment", "upsert", {s})
    /\ UNCHANGED <<cluster, ingress, mw, svcQ, mntQ, stale, left>>

(* The status and the list are read in one step: no other step tells their *)
(* order apart.                                                            *)
MaintenanceReconcile ==
    /\ wk["maintenance"].pc = "idle" /\ mntQ
    /\ mntQ' = FALSE
    /\ IF LiveServices = {} THEN UNCHANGED wk
       ELSE Start("maintenance", IF maintenance THEN "activate" ELSE "deactivate",
                  LiveServices)
    /\ UNCHANGED <<cluster, ingress, mw, svcQ, depQ, stale, left>>

---------------------------------------------------------------------------
(* UpsertIngressForService, one step per API call that can be overtaken.   *)

(* A worker begins a service, chooses a ces service, and gets to a phase.  *)
Begun(r, s, mode) ==
    [r EXCEPT !.cur = s, !.todo = @ \ {s}, !.maint = mode,
              !.rest = {c \in Ces : Declares(r.snap[s], c)}]

(* Defect: the ingress is written without its middleware.                  *)
ChosenBare(r, c, out) ==
    [r EXCEPT !.pc = "get", !.c = c, !.out = out, !.rest = @ \ {c}]

Chosen(r, c, out) ==
    [r EXCEPT !.pc = IF out = "pass" THEN "mwGet" ELSE "get",
              !.c = c, !.out = out, !.rest = @ \ {c}]

At(r, pc, seen) == [r EXCEPT !.pc = pc, !.seen = seen]

(* GetStatus and getCesServices.                                           *)
BeginService(w, s) ==
    /\ wk[w].pc = "next" /\ s \in wk[w].todo
    /\ \/ /\ wk[w].snap[s].decl.parse = "invalid"
          /\ Fail(w, s)
       \/ /\ wk[w].snap[s].decl.parse # "invalid"
          /\ wk' = [wk EXCEPT ![w] = AfterCes(Begun(wk[w], s, maintenance))]
          /\ UNCHANGED queues
    /\ UNCHANGED <<cluster, ingress, mw, stale, left>>

(* Defect: a deployment counts as ready as soon as it exists.              *)
ChosenWhenDeployed(r, c) ==
    IF r.maint THEN "maintenance"
    ELSE IF r.cur \in Labelled /\ dep[r.cur] = "none" THEN "starting"
    ELSE r.snap[r.cur].decl.ces[c]

(* upsertIngressForCesService decides by the mode read for the service and  *)
(* the readiness read now.                                                  *)
ChosenRoute(r, c) ==
    IF r.maint THEN "maintenance"
    ELSE IF r.cur \in Labelled /\ dep[r.cur] # "ready" THEN "starting"
    ELSE r.snap[r.cur].decl.ces[c]

(* Additional annotations are only read for a regular ingress.             *)
Unwritable(r, out) ==
    out \in {"plain", "rewrite"} /\ ~r.snap[r.cur].decl.extra

(* Defect: the error of the rewrite annotation is not returned.            *)
ChooseBadRewrite(w, c) ==
    LET out == ChosenRoute(wk[w], c)
    IN  /\ wk[w].pc = "ces" /\ c \in wk[w].rest
        /\ wk' = [wk EXCEPT ![w] = Chosen(wk[w], c, out)]
        /\ UNCHANGED <<cluster, ingress, mw, queues, stale, left>>

ChooseCes(w, c) ==
    LET out == ChosenRoute(wk[w], c)
    IN  /\ wk[w].pc = "ces" /\ c \in wk[w].rest
        /\ \/ /\ wk[w].cur \in NoDogu \/ out = "badRewrite" \/ Unwritable(wk[w], out)
              /\ Fail(w, wk[w].cur)
           \/ /\ wk[w].cur \notin NoDogu /\ out # "badRewrite" /\ ~Unwritable(wk[w], out)
              /\ wk' = [wk EXCEPT ![w] = Chosen(wk[w], c, out)]
              /\ UNCHANGED queues
        /\ UNCHANGED <<cluster, ingress, mw, stale, left>>

GetMiddleware(w) ==
    /\ wk[w].pc = "mwGet"
    /\ LET m == mw[wk[w].c] IN
       wk' = [wk EXCEPT ![w] = At(wk[w], "mwPut", IF m.owner = 0 THEN 0 ELSE m.rv)]
    /\ UNCHANGED <<cluster, ingress, mw, queues, stale, left>>

(* Create fails if the object exists, Update if it changed since Get.      *)
MiddlewareAccepted(r) ==
    LET m == mw[r.c]
    IN  IF r.seen = 0 THEN m.owner = 0 ELSE m.owner # 0 /\ m.rv = r.seen

(* The additional annotations are parsed after the middleware is written.  *)
PutMiddleware(w) ==
    LET r == wk[w]
        u == r.snap[r.cur].uid
        ok == MiddlewareAccepted(r)
    IN  /\ r.pc = "mwPut"
        /\ mw' = IF ok /\ mw[r.c].owner # u
                 THEN [mw EXCEPT ![r.c] = [owner |-> u, rv |-> @.rv + 1]]
                 ELSE mw
        /\ \/ /\ ~ok \/ ~r.snap[r.cur].decl.extra
              /\ Fail(w, wk[w].cur)
           \/ /\ ok /\ r.snap[r.cur].decl.extra
              /\ wk' = [wk EXCEPT ![w] = At(r, "get", 0)]
              /\ UNCHANGED queues
        /\ UNCHANGED <<cluster, ingress, stale, left>>

GetIngress(w) ==
    /\ wk[w].pc = "get"
    /\ LET seen == IF ingress[wk[w].c].route = "none" THEN 0 ELSE 1 IN
       wk' = [wk EXCEPT ![w] = At(wk[w], "put", seen)]
    /\ UNCHANGED <<cluster, ingress, mw, queues, stale, left>>

(* The route the cluster calls for, and the ingress it amounts to.         *)
Desired(c) ==
    LET s == OwnerOf[c] IN
    IF maintenance THEN "maintenance"
    ELSE IF s \in Labelled /\ dep[s] # "ready" THEN "starting"
    ELSE svc[s].decl.ces[c]

Target(c) == [route |-> Desired(c), owner |-> svc[OwnerOf[c]].uid]
Correct(c) == ingress[c] = Target(c)

(* The update carries no resource version, so it overwrites whatever is     *)
(* there; it fails only if the ingress is gone, as Create does if it exists. *)
PutIngress(w) ==
    LET r == wk[w]
        new == [route |-> r.out, owner |-> r.snap[r.cur].uid]
        ok == (r.seen = 0) <=> (ingress[r.c].route = "none")
    IN  /\ r.pc = "put"
        /\ \/ /\ ~ok
              /\ Fail(w, wk[w].cur)
              /\ UNCHANGED <<ingress, stale>>
           \/ /\ ok
              /\ ingress' = [ingress EXCEPT ![r.c] = new]
              /\ stale' = IF new = Target(r.c) THEN stale \ {r.c} ELSE stale \cup {r.c}
              /\ wk' = [wk EXCEPT ![w] = AfterCes(r)]
              /\ UNCHANGED queues
        /\ UNCHANGED <<cluster, mw, left>>

---------------------------------------------------------------------------
(* defaultServiceRewriter: errors are collected and returned at the end.   *)

RewriteTarget(s, job) ==
    IF job = "activate" THEN "deactivated"
    ELSE IF s \in NameLabelled THEN "dogu" ELSE "none"

(* Defect: the collected errors are not returned.                          *)
EndRewriteSilent(s, failed) ==
    LET r == wk["maintenance"]
    IN  /\ wk' = [wk EXCEPT !["maintenance"] =
                    IF r.todo = {s} THEN Idle
                    ELSE [r EXCEPT !.todo = @ \ {s}, !.errs = r.errs \/ failed]]
        /\ UNCHANGED queues

EndRewrite(s, failed) ==
    LET r == wk["maintenance"]
        errs == r.errs \/ failed
        last == r.todo = {s}
    IN  /\ wk' = [wk EXCEPT !["maintenance"] =
                    IF last THEN Idle ELSE [r EXCEPT !.todo = @ \ {s}, !.errs = errs]]
        /\ mntQ' = (mntQ \/ (last /\ errs))
        /\ UNCHANGED <<svcQ, depQ>>

(* Update carries the resource version of the list: a service changed or    *)
(* deleted since is a conflict.  Annotations do not change, so no event     *)
(* reaches the service controller.                                          *)
RewriteService(s) ==
    LET r == wk["maintenance"]
        v == r.snap[s]
        ok == svc[s].uid = v.uid /\ svc[s].rv = v.rv
        target == RewriteTarget(s, r.job)
    IN  /\ r.pc = "rewrite" /\ s \in r.todo
        /\ svc' = IF ok /\ v.sel # target
                  THEN [svc EXCEPT ![s].sel = target, ![s].rv = @ + 1] ELSE svc
        /\ EndRewrite(s, ~ok)
        /\ UNCHANGED <<maintenance, dep, ingress, mw, stale, left>>

---------------------------------------------------------------------------
(* Environment: administrators, the dogu operator, Kubernetes.             *)

Spend(kind) ==
    /\ left[kind] > 0 /\ left["any"] > 0
    /\ left' = [left EXCEPT ![kind] = @ - 1, !["any"] = @ - 1]

ToggleMaintenance ==
    /\ Spend("toggle")
    /\ maintenance' = ~maintenance
    /\ mntQ' = TRUE
    /\ UNCHANGED <<dep, svc, ingress, mw, svcQ, depQ, wk, stale>>

ChangeDeployment(s) ==
    /\ Spend("rollout")
    /\ \E d \in {"none", "notReady", "ready"} \ {dep[s]} : dep' = [dep EXCEPT ![s] = d]
    /\ depQ' = depQ \cup {s}
    /\ UNCHANGED <<maintenance, svc, ingress, mw, svcQ, mntQ, wk, stale>>

CreateService(s) ==
    /\ Spend("edit") /\ ~Live(s)
    /\ \E d \in Declarations[s] :
          svc' = [svc EXCEPT ![s] = [uid |-> @.rv + 1, rv |-> @.rv + 1,
                                     decl |-> d, sel |-> InitSel[s]]]
    /\ svcQ' = svcQ \cup {s}
    /\ UNCHANGED <<maintenance, dep, ingress, mw, depQ, mntQ, wk, stale>>

(* AnnotationChangedPredicate lets the event of an annotation change pass. *)
AnnotateService(s) ==
    /\ Spend("edit") /\ Live(s)
    /\ \E d \in Declarations[s] \ {svc[s].decl} :
          svc' = [svc EXCEPT ![s].decl = d, ![s].rv = @ + 1]
    /\ svcQ' = svcQ \cup {s}
    /\ UNCHANGED <<maintenance, dep, ingress, mw, depQ, mntQ, wk, stale>>

DeleteService(s) ==
    /\ Spend("edit") /\ Live(s)
    /\ svc' = [svc EXCEPT ![s] = [Gone EXCEPT !.rv = svc[s].rv + 1]]
    /\ svcQ' = svcQ \cup {s}
    /\ UNCHANGED <<maintenance, dep, ingress, mw, depQ, mntQ, wk, stale>>

(* Kubernetes removes an object whose owner is gone.                       *)
CollectIngress(c) ==
    /\ ingress[c].route # "none" /\ ingress[c].owner # svc[OwnerOf[c]].uid
    /\ ingress' = [ingress EXCEPT ![c] = [route |-> "none", owner |-> 0]]
    /\ UNCHANGED <<cluster, mw, queues, wk, stale, left>>

CollectMiddleware(c) ==
    /\ mw[c].owner # 0 /\ mw[c].owner # svc[OwnerOf[c]].uid
    /\ mw' = [mw EXCEPT ![c] = [owner |-> 0, rv |-> @.rv + 1]]
    /\ UNCHANGED <<cluster, ingress, queues, wk, stale, left>>

(* An API call of a reconcile fails for a reason of its own.               *)
ApiError(w) ==
    /\ Spend("fault")
    /\ \/ wk[w].pc = "next" /\ \E s \in wk[w].todo : Fail(w, s)
       \/ wk[w].pc \in Writing \cup {"ces"} /\ Fail(w, wk[w].cur)
    /\ UNCHANGED <<cluster, ingress, mw, stale>>

RewriteError(s) ==
    /\ Spend("fault") /\ wk["maintenance"].pc = "rewrite" /\ s \in wk["maintenance"].todo
    /\ EndRewrite(s, TRUE)
    /\ UNCHANGED <<cluster, ingress, mw, stale>>

(* The process ends and starts again: queues and workers are lost, and the  *)
(* first list of each informer is a create event per existing object.       *)
Crash ==
    /\ Spend("crash")
    /\ wk' = [w \in Controllers |-> Idle]
    /\ svcQ' = LiveServices
    /\ depQ' = {s \in Service : dep[s] # "none"}
    /\ mntQ' = (maintenance \/ ConfigMapKept)
    /\ UNCHANGED <<cluster, ingress, mw, stale>>

(* The informers' periodic resync (SyncPeriod is not set, so the default    *)
(* applies) repeats an update event per object; the service controller's    *)
(* predicate drops its share, as no annotation changed.  It comes every ten  *)
(* hours, when what came before is done.                                     *)
Resync ==
    /\ ResyncOn /\ svcQ = {} /\ depQ = {} /\ ~mntQ
    /\ \A w \in Controllers : wk[w].pc = "idle"
    /\ depQ' = depQ \cup {s \in Service : dep[s] # "none"}
    /\ mntQ' = (mntQ \/ maintenance \/ ConfigMapKept)
    /\ UNCHANGED <<cluster, ingress, mw, svcQ, wk, stale, left>>

---------------------------------------------------------------------------
Init ==
    /\ maintenance = FALSE
    /\ dep = InitDep
    /\ \E d \in [Service -> UNION {Declarations[s] : s \in Service}] :
          /\ \A s \in Service : d[s] \in Declarations[s]
          /\ svc = [s \in Service |-> IF s \in InitLive
                        THEN [uid |-> 1, rv |-> 1, decl |-> d[s], sel |-> InitSel[s]]
                        ELSE Gone]
    /\ ingress = [c \in Ces |-> [route |-> "none", owner |-> 0]]
    /\ mw = [c \in Ces |-> [owner |-> 0, rv |-> 0]]
    /\ svcQ = InitLive
    /\ depQ = {s \in Service : InitDep[s] # "none"}
    /\ mntQ = ConfigMapKept
    /\ wk = [w \in Controllers |-> Idle]
    /\ stale = {}
    /\ left = Budget

(* Everything the worker of controller w may do in the middle of a reconcile. *)
Advance(w) ==
    \/ \E s \in Service : BeginService(w, s)
    \/ \E c \in Ces : ChooseCes(w, c)
    \/ GetMiddleware(w) \/ PutMiddleware(w)
    \/ GetIngress(w) \/ PutIngress(w)

Environment ==
    \/ ToggleMaintenance \/ Crash
    \/ \E s \in Service :
          \/ ChangeDeployment(s) \/ CreateService(s)
          \/ AnnotateService(s) \/ DeleteService(s) \/ RewriteError(s)
    \/ \E c \in Ces : CollectIngress(c) \/ CollectMiddleware(c)
    \/ \E w \in Controllers : ApiError(w)

Next ==
    \/ \E s \in Service :
          ServiceReconcile(s) \/ DeploymentReconcile(s) \/ RewriteService(s)
    \/ MaintenanceReconcile
    \/ \E w \in Controllers : Advance(w)
    \/ Resync
    \/ Environment

Spec == Init /\ [][Next]_vars

(* Every worker keeps going, Kubernetes collects garbage, the resync comes    *)
(* round.  A request is not overtaken for ever, as the work queue is first-in *)
(* first-out: hence strong fairness per request.  Nothing is assumed of the   *)
(* rest of the environment.                                                   *)
Fairness ==
    /\ \A w \in Controllers : WF_vars(Advance(w))
    /\ \A s \in Service : SF_vars(ServiceReconcile(s)) /\ SF_vars(DeploymentReconcile(s))
    /\ WF_vars(MaintenanceReconcile)
    /\ WF_vars(\E s \in Service : RewriteService(s))
    /\ WF_vars(\E c \in Ces : CollectIngress(c) \/ CollectMiddleware(c))
    /\ WF_vars(Resync)

LiveSpec == Spec /\ Fairness

---------------------------------------------------------------------------
(* Every variable has its type: a worker that handles a ces service knows   *)
(* which, of which service, and holds a route the API server accepts.       *)
TypeOK ==
    /\ maintenance \in BOOLEAN
    /\ dep \in [Service -> {"none", "notReady", "ready"}]
    /\ svc \in [Service -> ServiceState]
    /\ ingress \in [Ces -> IngressState]
    /\ mw \in [Ces -> MiddlewareState]
    /\ svcQ \in SUBSET Service /\ depQ \in SUBSET Service /\ mntQ \in BOOLEAN
    /\ wk \in [Controllers -> WorkerState]
    /\ stale \in SUBSET Ces
    /\ left \in [EventKinds -> Nat]
    /\ \A w \in Controllers :
          /\ wk[w].pc \in Writing \cup {"ces"} => wk[w].cur \in Service
          /\ wk[w].pc \in Writing => wk[w].c \in Ces

(* A worker with record r is still going to write the ingress of c.        *)
WillWrite(r, c) ==
    LET s == OwnerOf[c] IN
    /\ r.pc \notin {"idle", "rewrite"}
    /\ \/ s \in r.todo /\ Declares(r.snap[s], c)
       \/ r.cur = s /\ c \in r.rest
       \/ r.cur = s /\ r.c = c /\ r.pc \in Writing

(* A request is queued, or work is under way, that ends in writing c.      *)
Pending(c) ==
    \/ OwnerOf[c] \in svcQ
    \/ OwnerOf[c] \in depQ /\ OwnerOf[c] \in Labelled
    \/ mntQ
    \/ \E w \in Controllers : WillWrite(wk[w], c)

HasDeployment(s) == s \in Labelled => dep[s] # "none"

(* No update is lost: when the ingress of a declared ces service is not what *)
(* maintenance mode, readiness and annotation call for, then a request or a  *)
(* reconcile that will write it is outstanding, unless the last write of     *)
(* UpsertIngressForService was itself out of date when it landed.  Error     *)
(* paths, the event filter, restarts and garbage collection included.        *)
NoLostUpdate ==
    \A c \in Ces :
        (/\ Live(OwnerOf[c]) /\ Declares(svc[OwnerOf[c]], c)
         /\ HasDeployment(OwnerOf[c]) /\ ~Correct(c))
        => Pending(c) \/ c \in stale

(* upsertDoguIngressObject writes the middleware first: the ingress of a     *)
(* service that was never re-created refers to a middleware that exists.     *)
RewriteBacked ==
    \A c \in Ces :
        ingress[c].route = "pass" /\ svc[OwnerOf[c]].uid = 1 => mw[c].owner # 0

(* Deactivation is not lost: "Maintenance mode was deactivated, restoring     *)
(* exposed service": once maintenance mode is off and its controller has     *)
(* nothing to do, every exposed service has its own selector again,          *)
(* conflicts in rewriteNonSimpleServiceRoute included.                       *)
SelectorsRestored ==
    ~maintenance /\ ~mntQ /\ wk["maintenance"].pc = "idle" =>
        \A s \in Service : Live(s) => svc[s].sel = InitSel[s]

(* Once the environment is quiet the three controllers and the resync bring *)
(* every ingress that can be written to what the cluster calls for and keep *)
(* it there: after stale writes, and after the garbage collection that      *)
(* follows when a service is created again.                                 *)
Converges ==
    <>[](\A c \in Ces :
            LET v == svc[OwnerOf[c]] IN
            /\ Live(OwnerOf[c]) /\ Declares(v, c)
            /\ v.decl.ces[c] # "badRewrite" /\ v.decl.extra
            => Correct(c))

---------------------------------------------------------------------------
(* What the repository's documents say of the quiet system.                *)

Quiet ==
    /\ svcQ = {} /\ depQ = {} /\ ~mntQ
    /\ \A w \in Controllers : wk[w].pc = "idle"

(* "While maintenance mode is activated, a maintenance page is returned for *)
(* each access to a Dogus": no ingress of UpsertIngressForService leads to  *)
(* a dogu during maintenance, once there is nothing left to do.             *)
MaintenancePageServed ==
    Quiet /\ maintenance => \A c \in Ces : ingress[c].route \notin Regular
=============================================================================
