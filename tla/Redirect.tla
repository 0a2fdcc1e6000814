------------------------------ MODULE Redirect ------------------------------
(***************************************************************************)
(* The redirect of alternative FQDNs to the FQDN: an ingress, owned by the *)
(* global config, and the middleware alternative-fqdn, owned by the        *)
(* ingress.  A change of the global config or of the ingress queues the    *)
(* one request of the redirect controller.                                 *)
(***************************************************************************)
EXTENDS GlobalConfig, FiniteSets, SequencesExt

CONSTANTS
    InitSettings,   \* the settings the manager starts with
    Edits,          \* the settings others may write
    ResyncOn,       \* do behaviours reach as far as the informers' resync?
    Budget          \* bounds on what the environment does, by kind and of any kind

EventKinds == {"edit", "drift", "middleware", "fault", "crash", "any"}

(* The alternative FQDNs are one text, so that there are finitely many.    *)
ASSUME RedirectAssumption ==
    /\ InitSettings \in Settings /\ Edits \subseteq Settings
    /\ \A S \in Edits \cup {InitSettings} : IsFiniteSet(S.alts)
    /\ ResyncOn \in BOOLEAN
    /\ Budget \in [EventKinds -> Nat]

VARIABLES
    config,     \* the global config
    ingress,    \* the ingress redirect-alt-fqdn
    mw,         \* the middleware alternative-fqdn
    queue,      \* is the request queued?
    wk,         \* the worker
    drifted,    \* history: have others changed the middleware since it was written?
    left        \* what the environment may still do

redirectVars == <<ingress, mw, queue, wk, drifted>>
vars == <<config, ingress, mw, queue, wk, drifted, left>>

---------------------------------------------------------------------------
(* Objects.  uid grows with each ingress, rv with each write of the         *)
(* middleware.                                                              *)

Host == Name \cup TlsSecret \cup {""}
Group == [secret : TlsSecret \cup Name, hosts : SUBSET Host]

IngressState == [exists : BOOLEAN, uid : Nat, tls : Seq(Group)]
NoIngress(uid) == [exists |-> FALSE, uid |-> uid, tls |-> << >>]

MiddlewareState == [exists : BOOLEAN, from : SUBSET Host, to : Name \cup {""},
                    owner : Nat, rv : Nat]
NoMiddleware(rv) == [exists |-> FALSE, from |-> {}, to |-> "", owner |-> 0, rv |-> rv]

(* tls, to: the ingress and the target of the redirect, as computed from    *)
(* the global config; uid, rv: of the ingress and the middleware.           *)
WorkerState == [pc : {"idle", "read", "delete", "create", "update", "get", "createMw", "updateMw"},
                tls : Seq(Group), to : Name \cup {""}, uid : Nat, rv : Nat]
Idle == [pc |-> "idle", tls |-> << >>, to |-> "", uid |-> 0, rv |-> 0]

(* Defect: no default.                                                     *)
NoDefaultCertSecrets(A) == A

assignDefaultCertSecrets(A) ==
    {[a EXCEPT !.secret = IF HasCertificate(a) THEN a.secret ELSE "ecosystem-certificate"] : a \in A}

(* groupFQDNsBySecretName.                                                 *)
Groups(S) ==
    LET A == assignDefaultCertSecrets(Parse(S.alts))
    IN  {[secret |-> s, hosts |-> {a.fqdn : a \in {b \in A : b.secret = s}}] :
            s \in {a.secret : a \in A}}

(* createRedirectIngress goes over a map: the groups come in any order.    *)
Orders(S) == SetToSeqs(Groups(S))

HostsOf(tls) == UNION {g.hosts : g \in Range(tls)}

(* The API server refuses a TLS host that is no host name.                 *)
Acceptable(S) == \A g \in Groups(S) : g.hosts \subseteq Name

Readable(S) == S.fqdn # ""

---------------------------------------------------------------------------
(* Reconcile.                                                              *)

Complete == wk' = Idle /\ UNCHANGED queue
Fail == wk' = Idle /\ queue' = TRUE

Reconcile ==
    /\ wk.pc = "idle" /\ queue
    /\ wk' = [wk EXCEPT !.pc = "read"] /\ queue' = FALSE
    /\ UNCHANGED <<config, ingress, mw, drifted, left>>

(* The ingress is computed with the groups in the order tls.               *)
ReadConfig(tls) ==
    /\ wk.pc = "read"
    /\ tls \in Orders(config.set)
    /\ \/ ~Readable(config.set) /\ Fail
       \/ /\ Readable(config.set) /\ tls = << >>
          /\ wk' = [wk EXCEPT !.pc = "delete"] /\ UNCHANGED queue
       \/ /\ Readable(config.set) /\ tls # << >>
          /\ wk' = [wk EXCEPT !.pc = "create", !.tls = tls, !.to = config.set.fqdn]
          /\ UNCHANGED queue
    /\ UNCHANGED <<config, ingress, mw, drifted, left>>

(* The event of the deletion passes the filter.                            *)
DeleteIngress ==
    /\ wk.pc = "delete"
    /\ wk' = Idle
    /\ ingress' = NoIngress(ingress.uid) /\ queue' = (queue \/ ingress.exists)
    /\ UNCHANGED <<config, mw, drifted, left>>

Creates == wk.pc = "create" /\ ~ingress.exists /\ HostsOf(wk.tls) \subseteq Name
NewIngress == [exists |-> TRUE, uid |-> ingress.uid + 1, tls |-> wk.tls]

(* upsertIngress creates; the event of a creation is dropped.              *)
CreateIngress ==
    /\ wk.pc = "create"
    /\ \/ /\ Creates /\ ingress' = NewIngress
          /\ wk' = [wk EXCEPT !.pc = "get", !.uid = ingress.uid + 1] /\ UNCHANGED queue
       \/ /\ ingress.exists /\ HostsOf(wk.tls) \subseteq Name
          /\ wk' = [wk EXCEPT !.pc = "update"] /\ UNCHANGED <<ingress, queue>>
       \/ ~(HostsOf(wk.tls) \subseteq Name) /\ Fail /\ UNCHANGED ingress
    /\ UNCHANGED <<config, mw, drifted, left>>

(* Defect: each write makes the ingress another, as a time stamp would.    *)
AlwaysChanged(tls) == TRUE

(* redirectIngressPredicate: only a change of the ingress is an event.     *)
Changed(tls) == ingress.tls # tls

(* ... or else updates, without a resource version.                        *)
UpdateIngress ==
    /\ wk.pc = "update"
    /\ \/ ~ingress.exists /\ Fail /\ UNCHANGED ingress
       \/ /\ ingress.exists
          /\ ingress' = [ingress EXCEPT !.tls = wk.tls]
          /\ queue' = (queue \/ Changed(wk.tls))
          /\ wk' = [wk EXCEPT !.pc = "get", !.uid = ingress.uid]
    /\ UNCHANGED <<config, mw, drifted, left>>

(* CreateOrUpdateAlternativeFQDNRedirectMiddleware.                        *)
GetMiddleware ==
    /\ wk.pc = "get"
    /\ wk' = [wk EXCEPT !.pc = IF mw.exists THEN "updateMw" ELSE "createMw", !.rv = mw.rv]
    /\ UNCHANGED <<config, ingress, mw, queue, drifted, left>>

(* The API server leaves the resource version when nothing changes.        *)
WriteMiddleware ==
    /\ LET new == [exists |-> TRUE, from |-> HostsOf(wk.tls), to |-> wk.to, owner |-> wk.uid,
                   rv |-> mw.rv]
       IN  mw' = IF new = mw THEN mw ELSE [new EXCEPT !.rv = @ + 1]
    /\ drifted' = FALSE

CreateMiddleware ==
    /\ wk.pc = "createMw"
    /\ \/ ~mw.exists /\ WriteMiddleware /\ Complete
       \/ mw.exists /\ Fail /\ UNCHANGED <<mw, drifted>>
    /\ UNCHANGED <<config, ingress, left>>

(* Defect: a conflict is taken for success.                                *)
ConflictIgnored == Complete

(* An error, a conflict too, queues the request again.                     *)
ConflictFails == Fail

Updates == wk.pc = "updateMw" /\ mw.exists /\ mw.rv = wk.rv

UpdateMiddleware ==
    /\ wk.pc = "updateMw"
    /\ \/ Updates /\ WriteMiddleware /\ Complete
       \/ ~Updates /\ ConflictFails /\ UNCHANGED <<mw, drifted>>
    /\ UNCHANGED <<config, ingress, left>>

---------------------------------------------------------------------------
(* Environment.                                                            *)

Spend(kind) ==
    /\ left[kind] > 0 /\ left["any"] > 0
    /\ left' = [left EXCEPT ![kind] = @ - 1, !["any"] = @ - 1]

(* Others write the global config, which is an event.                      *)
EditConfig ==
    /\ Spend("edit")
    /\ \E S \in Edits \ {config.set} : config' = [config EXCEPT !.set = S, !.rv = @ + 1]
    /\ queue' = TRUE
    /\ UNCHANGED <<ingress, mw, wk, drifted>>

(* Others change the ingress, or delete it.                                *)
DriftIngress ==
    /\ Spend("drift") /\ ingress.exists
    /\ \/ ingress.tls # << >> /\ ingress' = [ingress EXCEPT !.tls = << >>]
       \/ ingress' = NoIngress(ingress.uid)
    /\ queue' = TRUE
    /\ UNCHANGED <<config, mw, wk, drifted>>

(* Others create, change or delete the middleware.  The controller has no  *)
(* events of middlewares.                                                  *)
DriftMiddleware ==
    /\ Spend("middleware")
    /\ \/ mw' = [mw EXCEPT !.exists = TRUE, !.from = {}, !.rv = @ + 1]
       \/ mw.exists /\ mw' = NoMiddleware(mw.rv + 1)
    /\ drifted' = TRUE
    /\ UNCHANGED <<config, ingress, queue, wk>>

(* Kubernetes deletes a middleware whose owner is gone.                    *)
CollectGarbage ==
    /\ mw.exists /\ mw.owner # 0 /\ ~(ingress.exists /\ mw.owner = ingress.uid)
    /\ mw' = NoMiddleware(mw.rv + 1)
    /\ UNCHANGED <<config, ingress, queue, wk, drifted, left>>

(* A call fails, or it has its effect and the answer is lost.              *)
CallError ==
    /\ Spend("fault")
    /\ wk.pc # "idle" /\ Fail
    /\ UNCHANGED <<config, ingress, mw, drifted>>

AnswerLost ==
    /\ Spend("fault")
    /\ wk' = Idle /\ queue' = TRUE
    /\ \/ /\ \/ wk.pc = "delete" /\ ingress' = NoIngress(ingress.uid)
             \/ Creates /\ ingress' = NewIngress
             \/ wk.pc = "update" /\ ingress.exists /\ ingress' = [ingress EXCEPT !.tls = wk.tls]
          /\ UNCHANGED <<mw, drifted>>
       \/ ((wk.pc = "createMw" /\ ~mw.exists) \/ Updates) /\ WriteMiddleware /\ UNCHANGED ingress
    /\ UNCHANGED config

(* The manager ends and is started again; the cache delivers the global     *)
(* config as created.                                                       *)
Restarted == wk' = Idle /\ queue' = TRUE /\ UNCHANGED <<ingress, mw, drifted>>

Crash == Spend("crash") /\ Restarted /\ UNCHANGED config

(* Defect: the predicate lets only changes through.                        *)
ResyncFiltered == FALSE /\ UNCHANGED vars

(* The resync repeats an update event of the global config.  It comes every  *)
(* ten hours, when what came before is done.                                 *)
Resync ==
    /\ ResyncOn /\ wk.pc = "idle" /\ ~queue
    /\ queue' = TRUE
    /\ UNCHANGED <<config, ingress, mw, wk, drifted, left>>

---------------------------------------------------------------------------
RedirectInit ==
    /\ ingress = NoIngress(0)
    /\ mw = NoMiddleware(0)
    /\ queue = TRUE
    /\ wk = Idle
    /\ drifted = FALSE

Init ==
    /\ config = [set |-> InitSettings, crt |-> NoCertificate, key |-> FALSE, rv |-> 1]
    /\ RedirectInit
    /\ left = Budget

Read == \E tls \in Orders(config.set) : ReadConfig(tls)

(* The map comes in the order the ingress has already.                     *)
ReadInOrder == ReadConfig(ingress.tls)

Write ==
    \/ DeleteIngress \/ CreateIngress \/ UpdateIngress
    \/ GetMiddleware \/ CreateMiddleware \/ UpdateMiddleware

Disturb == DriftIngress \/ DriftMiddleware \/ CallError \/ AnswerLost

Work == Reconcile \/ Read \/ Write

Next == Work \/ CollectGarbage \/ Resync \/ EditConfig \/ Disturb \/ Crash

Spec == Init /\ [][Next]_vars

(* The worker keeps going, garbage is collected, the resync comes round,    *)
(* and no order of the map is avoided for ever.                             *)
RedirectFairness ==
    /\ WF_vars(Work) /\ WF_vars(CollectGarbage) /\ WF_vars(Resync)
    /\ SF_vars(ReadInOrder)

LiveSpec == Spec /\ RedirectFairness

---------------------------------------------------------------------------
(* Every variable has its type.                                            *)
TypeOK ==
    /\ config \in ConfigState
    /\ ingress \in IngressState
    /\ mw \in MiddlewareState
    /\ queue \in BOOLEAN /\ drifted \in BOOLEAN
    /\ wk \in WorkerState
    /\ left \in [EventKinds -> Nat]

Wanted == Readable(config.set) /\ Acceptable(config.set)

(* Which host is to be served with which secret.                           *)
Redirects(S) ==
    {<<IF HasCertificate(a) THEN a.secret ELSE "ecosystem-certificate", a.fqdn>> : a \in Parse(S.alts)}
Served(tls) == UNION {{g.secret} \X g.hosts : g \in Range(tls)}

IngressInSync ==
    /\ ingress.exists <=> Redirects(config.set) # {}
    /\ Served(ingress.tls) = Redirects(config.set)

MiddlewareInSync ==
    Redirects(config.set) # {} =>
        /\ mw.exists /\ mw.owner = ingress.uid /\ mw.to = config.set.fqdn
        /\ mw.from = {r[2] : r \in Redirects(config.set)}

(* What the worker still does leads to the settings of the global config.   *)
Current ==
    \/ wk.pc = "read"
    \/ wk.pc = "delete" /\ Redirects(config.set) = {}
    \/ /\ wk.pc \in {"create", "update"}
       /\ Served(wk.tls) = Redirects(config.set) /\ wk.to = config.set.fqdn
    \/ /\ wk.pc \in {"get", "createMw", "updateMw"} /\ IngressInSync /\ wk.uid = ingress.uid
       /\ Served(wk.tls) = Redirects(config.set) /\ wk.to = config.set.fqdn

(* The redirect is never forgotten: as long as the ingress or the middleware *)
(* do not say what the global config says, the request is queued or the      *)
(* worker is about to write it, though it works in six calls, the ingress    *)
(* and its middleware are changed, deleted and collected meanwhile, and      *)
(* calls fail.  The middleware's own changes by others are not noticed.      *)
NoLostUpdate ==
    Wanted /\ ~(IngressInSync /\ (MiddlewareInSync \/ drifted)) => queue \/ Current

(* In the end the ingress and the middleware say what the global config      *)
(* says, for good, also when the middleware was changed by others.           *)
Converges == <>[](Wanted => IngressInSync /\ MiddlewareInSync)

(* The controller comes to rest again and again, though its own update of    *)
(* the ingress, in another order of the same map, queues the next request.   *)
Settles == []<>(Wanted => ~queue /\ wk.pc = "idle")
=============================================================================
