# Verification of k8s-service-discovery

TLA+ models of the controllers of k8s-service-discovery, their model-checking
runs, and proofs of what matters most about them. Paths below are relative to
the root of the repository.

## The system

One process, the manager (`main.go`), runs several controllers against the
Kubernetes API. It has no leader election and is deployed with the default
rolling update, so that during an upgrade two managers are at work. Each
controller has one worker and one work queue without duplicates; a reconcile
that returns an error is queued again. Nothing is kept in memory between two
reconciles: all state is in objects of the API server.

| Component | State it keeps | Operations | Correct means |
|---|---|---|---|
| Service controller (`controllers/serviceController.go`) | none of its own | reconcile a service: policy removal if disabled, ingress, policy | what a service declares comes into force, also after errors and restarts |
| Deployment controller (`controllers/deploymentController.go`) | none | reconcile the service of a dogu deployment | the "dogu is starting" page comes and goes with the readiness |
| Maintenance mode controller (`controllers/maintenanceModeController.go`) | none | sweep over all services, rewrite of selectors of exposed services | all ingresses switch; selectors are restored on deactivation |
| Ingress updater (`controllers/expose/ingressUpdater.go`) | ingresses, owned by their service | maintenance, starting or regular ingress per ces service | the ingress is what mode, readiness and annotation call for |
| Middleware manager (`controllers/expose/middleware_manager.go`) | replace-path middlewares, and the one of the redirect | create or update with a resource version | an ingress never refers to a missing middleware |
| Network policy handler (`controllers/expose/networkPolicyHandler.go`) | the one policy with all exposed ports, and the annotations that say whose they are | create, update and remove with OnConflict, delete | open ports are exactly the recorded ones; no update of another service is lost |
| Loadbalancer controller (`controllers/loadbalancerController.go`) and `internal/types` | the Service `ces-loadbalancer`, its node ports and annotations | read ConfigMap and services, write the loadbalancer, then the routes | drift is corrected, foreign annotations and node ports are kept |
| Port exposer (`controllers/expose/ingressController/traefik/portExposer.go`) | IngressRouteTCP and IngressRouteUDP | upsert one route per port | every exposed port has its route |
| Redirect controller (`controllers/redirectController.go`, `.../traefik/redirector.go`, `internal/types/alternativeFQDN.go`) | the ingress `redirect-alt-fqdn` and the middleware `alternative-fqdn` | rebuild both from the global config | both say what the global config says; the controller's own updates do not queue it for ever |
| Self-signed certificate updater, creator, writer (`controllers/selfsignedCertificateUpdater.go`, `controllers/ssl`) | secret `ecosystem-certificate` | check at the start, watch, regenerate | a self-signed certificate has the names and the domain of the global config |
| Certificate synchronizer and reconciler (`controllers/ssl/certificateSynchronizer.go`, `controllers/ecosystemCertificateReconciler.go`) | the certificate in the global config | copy it from the secret, at the start and on events | the global config follows the secret, and nothing else in it is touched |
| Manager start, configuration, logging, labels, mocks, chart | flags and environment | start, wire, log | see below |

How they interact: the service, the deployment and the maintenance controller
all call `UpsertIngressForService` and so write the same ingresses and
middlewares; only the middleware writes carry a resource version. The service
controller goes on to the network policy. The loadbalancer controller reads the
owner of the ingress of each dogu for its routes. Garbage collection by
Kubernetes removes ingresses, middlewares, routes and the loadbalancer when
their owner goes. The global config is read by redirect and certificate code
and written by the synchronizer; each of these writes is an event for the
redirect controller. The updater and the first Synchronize are runnables of the
manager and not controllers: nothing queues them again, and an error of the
latter ends the manager.

What is hard: interleaved writes to one ingress; the mode read before, and used
after, other calls; conflicts and lost answers on the one policy; partial
failures of sweeps and of loops; event filters that drop events; crashes between
two writes, made good by the first list of the informers; garbage collection
after an object was created again; a certificate that is computed from a config
read twice and published by two callers; an updater whose errors are only
logged. PROJECT.json lists each hazard at its line.

## Modules

| Module | Models |
|---|---|
| `IngressExposure` | service controller (ingress half), deployment controller, maintenance controller, ingress updater, middleware manager |
| `NetworkPolicy` | service controller (policy half) and network policy handler, any number of managers |
| `PortLedger` | abstract specification of the network policy: one book with a page per service |
| `LoadBalancer` | loadbalancer controller, its types, port exposer |
| `GlobalConfig` | the global config and the parsing of alternative FQDNs |
| `Certificates` | updater, creator, writer, synchronizer, reconciler |
| `Redirect` | redirect controller, redirector, its half of the middleware manager |
| `Ecosystem` | `Certificates` and `Redirect` in one manager, on one global config |
| `IngressExposure_proofs`, `IngressObjects_proofs` | theorems about `IngressExposure`: the ingresses; middlewares and selectors |
| `NetworkPolicy_proofs`, `PolicyRequests_proofs` | theorems about `NetworkPolicy`: what the policy says; whose requests it meets |
| `LoadBalancer_proofs`, `Certificates_proofs`, `Redirect_proofs` | theorems about the module of that name |
| `Ecosystem_proofs` | theorems about the composition |
| `MCIngress`, `MCPolicy`, `MCLb`, `MCCert`, `MCRedirect`, `MCEco` | values of the constants for the runs |

Operators named "Defect: ..." in a comment are broken versions of the definition
that follows them. No specification uses them; they are for trying out whether
the properties notice a mistake (the mutants of PROJECT.json).

### IngressExposure

The cluster is `maintenance`, `dep` (the deployment of each service) and `svc`;
`ingress` and `mw` are what the controllers write. An ingress is abstracted to
the kind of its route (`plain`, `pass` through a middleware, `rewrite`,
`starting`, `maintenance`) and the uid of its owner. A worker record holds what
the Go stack of a reconcile holds: the services it has listed (`snap`), the mode
it has read, the ces service at hand, and what `Get` has returned. There is one
action per API call another controller can overtake: `BeginService` (GetStatus,
parsing), `ChooseCes` (readiness), `GetMiddleware`, `PutMiddleware`,
`GetIngress`, `PutIngress`, and `RewriteService` for the selectors. Every error
path ends in `Fail`, which queues the request of the controller again. The order
in which a sweep or a loop over ces services goes is left open: the code lists
services in the order of the API and a map decides some of the rest.
`Crash` loses queues and workers and queues a request per existing object.
An object is visible as soon as its event is queued, so staleness of the
informer cache itself is not modelled, only what reconciles hold on to.

`stale` is a history variable: ces services whose last write was out of date the
moment it landed.

### NetworkPolicy

`policy` has the ports of the rule, the annotation keys and what each records,
the CIDR and a resource version. `Probe`, `CreatePolicy`, `GetPolicy`,
`PutPolicy`, `LookForPolicy` and `DeletePolicy` are the API calls; `Retry` is
one turn of `OnConflict`, which reads the policy again and keeps the declaration
it was called with. `ApiError` covers calls that fail and calls that succeed
with the answer lost. `StartManager` and `StopManager` are restarts and, with
`Overlap`, the rolling update. `Enabled` and `CidrOf` are the environment
variables of each manager. `CanDelete` tells whether the role may allow to delete
the policy. The role of the chart does not (`CanDelete = FALSE`); with `TRUE` each
call may succeed or be forbidden, so that the runs and theorems with `TRUE` cover
the chart's role and a wider one. An error of `RemoveNetworkPolicy` also takes the
place of the error of `getService` (`serviceController.go:51`); with policies
disabled neither way on from there touches the policy.

`Sole` are the ports that appear under one annotation key only (`Claims`): two
services may expose the same port, and then the handler closes it for both.

`lost` is a history variable: the services that no manager with network policies
attends to although what they ask for may not be in the policy. A service gets
there when a manager ends (its queue goes with it, and its last write may have
been of a declaration that changed meanwhile), when the policy is deleted, or
when it is changed or deleted while no such manager runs. It leaves when a
manager has a request for it again: by an event of its own or by the first list
of a manager that starts. The resync does not help, as
`AnnotationChangedPredicate` lets only changed annotations through.

`early` is a history variable: the services that were dealt with when a manager
ended whose CIDR the policy has and no running manager has. The policy keeps that
CIDR although a new manager has already been through all services.

### LoadBalancer

`lb` has node ports per port, annotations, the keys the last configuration set,
the traffic policy, a resource version and `right` (type and labels are those of
the operator's loadbalancer). `Reconcile` reads ConfigMap and services in one
step, as the reads come from one cache; `GetLb`, `CreateLb`, `UpdateLb` and one
`UpsertRoute` per port follow. `Passes` is the event filter for services.
Refusal of a Service with two ports of one name or of one number and protocol
(`Acceptable`) is behaviour of the API server and marked external. The history
variable `dropped` tells that the filter has dropped an update to or from an
annotation that cannot be parsed.

### GlobalConfig

`Settings` is what others write: FQDN, domain, alternative FQDNs and the type of
the certificate, each possibly missing (`""`). An entry of the alternative FQDNs
is the sequence of the parts between its colons, and a part is a text with or
without spaces around it: that is what `Parse` tells apart, since the code tests
for an empty name before it trims. The order of the entries is left out.

### Certificates

`upd` is the updater: its `pc` goes through the check at the start
(`CheckType`, `CompareCertificate`), `handleFqdnChange` (`HandleFqdnChange`,
`ReadPrevious`, `CreateCertificate`, which reads the global config again,
`UpdateSecret`, `CreateSecret`), the watch and its loop (`StartWatch`,
`ReceiveEvent`). `events` counts what the watch has still to deliver; `Watched`
are its three keys. `sync` are the two callers of Synchronize, the runnable
(`"start"`) and the reconciler, with `ReadSecret`, `GetConfig` and `PutConfig`;
a conflict repeats the last two for the certificate read before. `StartFails`,
`StartError` and `Crash` end the manager, which is started again at once.
`UploadSecret` writes certificates of others, a secret without `tls.crt`, or
deletes it. Two history variables: `missed` (the updater has dropped a change:
by an error, which is only logged; by an error or the end of the watch; a change
between the check and the watch; a change of the type alone, which is not
watched) until a certificate that fits is written; `overtaken` (the first
Synchronize wrote last, a certificate the secret no longer had). A certificate is
its kind, names, organisation and a number that tells it from others; subject,
validity and keys are left out.

### Redirect

`ingress` has its uid and its TLS groups as a sequence, as `reflect.DeepEqual` in
the event filter looks at their order, and the code builds them in the order of a
Go map: `ReadConfig` takes any order. `mw` has the hosts it matches, the target,
the uid of its owner and a resource version. One action per API call:
`ReadConfig`, `DeleteIngress`, `CreateIngress`, `UpdateIngress` (without a
resource version), `GetMiddleware`, `CreateMiddleware`, `UpdateMiddleware`. The
refusal of a host `""` in an ingress is behaviour of the API server, marked
external. `drifted` is a history variable: others have changed the middleware
since the controller wrote it. The two reads of the global config in `Reconcile`
are one step: only the uid of the owner comes from the first.

### Ecosystem

Every step of `Certificates` that changes the global config queues the request
of `Redirect`; every end of the manager loses the worker and the queue of both.
The other steps are interleaved.

## Runs

All bounds are in `Budget`: how often the environment may do something of each
kind, and in most modules how often in all (`any`). Workers, queues, retries and
garbage collection are not bounded. Counters grow only with what the budget
allows, so that the state spaces are finite. `CHECK_DEADLOCK FALSE` everywhere:
a system whose environment has nothing left to do is idle, and that is right.

| Run | Bounds | Shows |
|---|---|---|
| `ingress_faults` | one dogu, any 2 of: switch, rollout (to no deployment too), two edits, error, crash; annotations that pass, cannot be parsed, cannot be written; resync and fairness | `TypeOK`, `NoLostUpdate`: an ingress that is out of date will be written again or was last written by an outdated reconcile; `RewriteBacked`; `Converges`: stale writes and services created again are made good by requests or by the resync |
| `ingress_sweep` | two services, one exposed; any 3 of: two switches, edit, error, crash | `SelectorsRestored`: no conflict or error between activation and deactivation loses a selector |
| `maintenance_page` | two events without resync | a finding, below |
| `traefik_restored` | two switches | a finding, below |
| `policy_rolling_update` | two services with keys of their own, each with ports of its own and one that both expose; three managers with a CIDR each, one with policies disabled, any of them at once; any 4 of: 3 edits, 1 foreign write, 1 deletion by others, 1 error or lost answer, 3 starts or stops; deletion by the manager allowed or forbidden; fairness | `TypeOK`, `NoLostUpdate`, `ExposedPortsOpen`, `NoLeftover`, `NoOrphanPort`, `CidrApplied`; the policy implements `PortLedger` (`BookKept`); `Converges` |
| `policy_disabled` | the role of the chart; 1 edit | a finding, below |
| `policy_last_port` | 3 edits | a finding, below |
| `lb_drift` | two dogus with five ports (one SCTP, one on 443), one with an annotation that may be invalid, three ConfigMaps (one absent), any 3 of: two edits, config change, drift, error, crash; resync and fairness | `TypeOK`, `NoLostUpdate`, `RoutesServed`, `UpdateConserves`, `Converges` |
| `certificates` | any 2 of: two edits (FQDN, alternative FQDNs, missing domain, missing type, external type), two uploads (another certificate, none, a secret without `tls.crt`), error, broken watch, crash; a private key to remove; resync and fairness | `TypeOK`, `NoLostUpdate`, `CertificateFollows`, `OncePerChange`, `SettingsKept`, `Converges` |
| `redirect` | any 3 of: three edits (with an own secret, without FQDN, without or with blank entries), two changes of the ingress, one of the middleware, error or lost answer, crash; resync and fairness | `TypeOK`, `NoLostUpdate`, `Converges`, `Settles` |
| `ecosystem` | one edit of FQDN and alternative FQDNs or one crash, at any point of both; fairness, no resync | `NoLostUpdate` of `Redirect` in the composition; `CoveredAtRest`: with redirect controller and updater at rest, the certificate names the hosts redirected under it; `RedirectsCovered`: they come to that |
| `lb_twin` | one edit | a finding, below |

Why the bounds are enough: every race in these controllers is between one
outstanding write and one event, and the runs allow two to four events (`ecosystem`: one) around
each write, with the actors that can meet (three controllers, or two managers).
Two services are needed where a shared object or a sweep is at stake, one
elsewhere. `Attempts` is 2, so that OnConflict and OnError both repeat and give
up. The passing runs reach between 36,000 (`redirect`) and 1,500,000
states (`ingress_sweep`).

Fairness: a worker that is not blocked goes on (weak fairness of its steps).
A work queue is first-in first-out, so a request is served even if others keep
coming back: strong fairness per request. Kubernetes collects garbage. The
informers' resync comes round, as `SyncPeriod` is not set and the library's
default of ten hours applies; because of this length it is taken to come when
what came before it is done, except in `Certificates`, where it may come at any
time. The order of a Go map is random on purpose, so that no order is avoided for
ever: strong fairness of `ReadInOrder`, the read that happens on the order the
redirect ingress has already. Without it `Settles` fails, and with a fixed order
it would hold anyhow. A manager that has ended is started again by Kubernetes.
Errors, edits, crashes and drift are never assumed to happen or to stop by
fairness; they are bounded by the budget.

`NoLostUpdate` of `IngressExposure` excepts writes that were out of date when
they landed (`stale`) and a service whose deployment was deleted. Both are real:
`maintenance_page` shows the first, the list below names the second.
`Converges`, which needs the resync, excepts neither; it asks for nothing while an
annotation cannot be written as an ingress, as the code only reports that.
`RewriteBacked` speaks of services that were never created again: after that,
garbage collection may remove the middleware of the old owner before the next
reconcile. `NoLostUpdate`, `NoLeftover` and `Converges` of `NetworkPolicy` except
`lost`; `ExposedPortsOpen`, `Converges` and `PortLedger` leave the ports open that
several services may expose, and `CidrApplied` excepts `early`. Without this last
exception TLC finds the old manager of a rolling update writing last. `NoLostUpdate` and `RoutesServed` of `LoadBalancer` except what the
event filter has dropped (`dropped`), and `Converges` shows that the resync makes
it good. `NoLostUpdate` of `Certificates` excepts `overtaken`, `Converges` does
not; `CertificateFollows` and the second half of `Converges` except `missed`,
because nothing in the code makes up for a dropped change before the next change
or restart. `NoLostUpdate` of `Redirect` excepts `drifted`, `Converges` does not.
Both ask for nothing while the global config has no FQDN or an entry the API
server refuses (`Wanted`).

`CertificateFollows` is the property about the updater that is hardest to see
from the code: the global config is read twice per certificate, so that a
certificate may be written with a new FQDN and old alternative names. It holds,
because whatever changed between the two reads has an event of its own, which is
handled later. `OncePerChange` says that publishing the certificate, which
writes the very object the updater watches, does not cause the next certificate.
`Settles` is the same question for the redirect ingress, where the answer rests
on the random order of maps. `CoveredAtRest` and `RedirectsCovered` relate the two
controllers. With its one event the `ecosystem` run never has the two reads of the
updater differ; that case is covered by `CertificateFollows` in `certificates`,
which has two events, and in the composition by the theorem `RedirectsAreCovered`.
Two events in the composition are more than a million states, too many for
`RedirectsCovered`.

## What the findings show

* `maintenance_page`: a service or deployment reconcile that has read the mode
  before maintenance begins writes the regular ingress after the sweep has
  passed. The ingress update has no resource version, nothing is queued, and the
  dogu stays reachable until the resync.
* `traefik_restored`: deactivation sets the selector of an exposed service from
  its `dogu.name` label. `ces-loadbalancer` has none and selects Traefik, which
  `isServiceNginxRelated` does not know, so that its selector ends up empty. This
  takes `INGRESS_CONTROLLER=traefik`. The chart's default is `k8s-ces-gateway`,
  whose selector has no `dogu.name`; the sweep leaves such a loadbalancer alone.
* `policy_last_port`: when the last port is removed, the rule stays with an
  empty list of ports, which in a NetworkPolicy means all ports.
* `policy_disabled`: `networkpolicy-role.yaml:13-16` grants `get`, `create` and
  `update`. With network policies disabled the deletion of the policy is
  forbidden, the error is only logged, and the policy stays with its ports.
  `serviceController.go:90`: "Do not remove ports if networkpolicies are not
  enabled because the policy should be deleted anyway."
* `lb_twin`: a number exposed for TCP and for UDP gives two ports of one name.
  The API server refuses the loadbalancer, for the ports of all other dogus too.

Other divergences met while modelling. The models behave like the code in each of
them; they have no run of their own:

* The deletion of a deployment is no reason to update the ingress
  (`deploymentController.go:39`): the regular route stays until the resync of the
  maintenance ConfigMap.
* An exposed service created during maintenance mode is not rewritten.
* A port that two services declare is closed when one of them gives it up
  (`networkPolicyHandler.go:341`: ports are removed by number and protocol).
* With network policies disabled the error of `RemoveNetworkPolicy` replaces the
  one of `getService` (`serviceController.go:48-60`). If the policy goes between
  its read and its `Delete`, the wrapped NotFound (`networkPolicyHandler.go:370`)
  sends a service that exists to `handleDelete`: its ingress is not written and
  nothing is queued. This takes a role that may delete; under the chart's every
  such call is forbidden, so `IngressExposure` does not model it. The other way
  round, the NotFound of a deleted service is lost and an empty service goes to
  `handleUpsert`, which does nothing with it.
* An update from or to an invalid annotation does not pass
  `exposedPortServicePredicate`; what it changed waits for the resync.
* A loadbalancer whose type is changed by others is not corrected.
* Routes of ports that are no longer exposed are not deleted.
* A service deleted while no manager runs, or whose deletion is still queued when
  the managers end, leaves its ports in the policy.
* The old manager of a rolling update may write the policy last, with its CIDR
  (`early`), and with what a service declared before: it would handle the newer declaration
  next, but ends first, and the new manager has dealt with the service already.
  Nothing makes that good before the next change of the service or the next start
  of a manager. The proof attempt of `NoLostUpdate` of `NetworkPolicy` showed
  this; it takes two managers and the end of one of them.
* Names of services are cut for annotation keys; two may share a key, and then
  one overwrites the record of the other. The theorem `OpenPortsAreRecorded` shows
  that even so no port is open that is not recorded.
* The first Synchronize of a manager may read the secret, be overtaken by the
  updater and the reconciler, and publish the old certificate last; nothing is
  queued then. `docs/operations/ssl_en.md:19`: "The secret with the certificate
  is therefore leading in relation to the global config." The resync makes it good.
* A change of the FQDN after the check at the start and before the watch, a change
  while the watch is broken, and a regeneration that fails are not made good
  before the next change or restart. `docs/operations/ssl_en.md:24`: "If the FQDN
  is changed and a self-signed SSL certificate is used, this is automatically
  regenerated and applied." A change of `certificate/type` to `selfsigned` alone
  regenerates nothing.
* A secret without `tls.crt` makes the first Synchronize fail, and with it the
  manager, as often as it is started, until the secret is repaired.
* In `shouldUpdateCurrentCertificate` the test for an empty domain looks at the
  FQDN instead (`selfsignedCertificateUpdater.go:206`).
* An entry of spaces among the alternative FQDNs (a comma and a space at the end
  of the list) becomes the host `""`, for which the API server refuses the whole
  redirect ingress. `docs/operations/alternative_fqdns_en.md:14`: "Spaces around
  entries are tolerated (e.g., after the comma)".
* An alternative FQDN with the explicit secret `ecosystem-certificate` is served
  with that certificate, but is not among the names it is regenerated with.
* The middleware of the redirect is not watched; others' changes stay until the
  resync or the next change of the global config.

## What is proved

For every value of the constants that satisfies the named assumptions, with any
number of services, ces services, ports and managers and any budget:

* `IngressExposure_proofs!TypeCorrect`: `TypeOK`. It is inductive as it stands.
* `IngressExposure_proofs!UpdatesAreNotLost`: `NoLostUpdate`. The inductive
  invariant adds `OneRequest`: the service and the deployment worker handle one
  service at a time, so that the request `Fail` queues again, which names the
  service at hand, covers all the worker still had to do. Without it a worker
  that fails might forget other services. (A worker of the maintenance
  controller queues the request for the whole sweep.) The proof goes action by
  action: an action changes the target of an ingress and queues a request for it,
  or it ends a worker's intention by writing the ingress or by queueing again.
* `NetworkPolicy_proofs!PolicyTypeCorrect`: `TypeOK`; in particular OnConflict
  stays within its attempts.
* `NetworkPolicy_proofs!OpenPortsAreRecorded`: `NoOrphanPort`, with shared ports
  and colliding keys. The invariant also accounts for the policies the workers
  hold (`Accounted`), since these are what gets written.
* `NetworkPolicy_proofs!PolicyIsABook`: the policy implements `PortLedger`, with
  shared ports and colliding keys. The invariant `BookInv` adds that a held policy
  of the current version is the current policy (`Versions`), that workers want what
  their services may declare, that each page holds `Claims` of its key, and that the
  recorded ports which only one page may have are open.
* `Certificates_proofs!CertificateTypes`: `TypeOK`, inductive as it stands.
* `Certificates_proofs!SynchronizeKeepsSettings`: `SettingsKept`. The invariant
  `Copies`: a copy of the global config that has the current resource version is
  the current global config, so that an update without a conflict writes back the
  settings that are there.
* `Certificates_proofs!SecretLeads`: `NoLostUpdate`. The invariant adds `Reasked`:
  a reconciler that holds a certificate the secret no longer has was queued again
  when the secret changed. This is what the first Synchronize lacks, and why the
  property needs its exception (`overtaken`).
* `Certificates_proofs!CertificateFollowsConfig`: `CertificateFollows`. The
  invariant `FollowInv` says, for each step of the updater, that what it has read
  is still so or that a change is noted (queued as an event, or missed). It needs
  `Copies`, as publishing a certificate must not count as a change.

* `Certificates_proofs!WritesArePaidFor`: `OncePerChange`. An account: what was
  written plus what is still `Due` never exceeds what was paid for. Due is one
  write if the updater is at work (`AtWork`), plus the events it has still to
  handle, or one if there are none and the certificate will not fit (`Outdated`),
  since a restart would then write it. It needs `FollowInv` and `Copies`: publishing
  pays for nothing and must not be owed anything.
* `IngressObjects_proofs!PassIngressesAreBacked`: `RewriteBacked`. The invariant
  `BackedInv`: a worker handles ces services of a service it has read alive, and
  of a service that was never deleted all workers have read the same uid, so that
  no middleware of it ever has an owner that is gone.
* `IngressObjects_proofs!ExposedServicesAreRestored`: `SelectorsRestored`, under
  `Restorable`: the maintenance ConfigMap is kept on deactivation, and an exposed
  service that selects a dogu has the label `dogu.name`. The second is what
  `traefik_restored` shows to be necessary. The invariant `SelectorInv`: a selector
  is the original one or was taken by an activation; a sweep that takes selectors
  has its mode confirmed or is repeated; and when mode and queue are at rest, a
  hidden service is one the sweep under way has still to restore or has failed at.
* `PolicyRequests_proofs!DeclarationsAreRecorded` and
  `!DeletedServicesLeaveNothing`: `NoLostUpdate` and `NoLeftover` for services with
  keys of their own (`OwnKeys`). The invariant `RequestInv` joins them (`Met`) and adds
  `Behind` (a worker with an outdated declaration has the next request behind it),
  `Posts` (which manager may be at which call), `Shape` and `Versions`.
* `PolicyRequests_proofs!DeclaredPortsAreOpen`: `ExposedPortsOpen`, from the former
  and from `BookInv`, under `OwnKeys`.
* `PolicyRequests_proofs!CidrOfARunningManagerApplies`: `CidrApplied`, for any
  managers, overlapping or not. `CidrInv`: as long as the policy has the CIDR of no
  running manager, every service with ports is `early` or has a request at one that
  keeps the policy.
* `LoadBalancer_proofs!LoadBalancerTypeCorrect`: `TypeOK`.
* `LoadBalancer_proofs!UpdatesConserve`: `UpdateConserves`, since a copy of the
  current resource version is the current loadbalancer (`Versions`).
* `LoadBalancer_proofs!NoTriggerIsLost`: `NoLostUpdate`. `TriggerInv` adds `Fresh` (what
  a worker on its way to write has read is current, or is to be read again) and
  `OwnAnnotations` (an annotation that no configuration has set and that others may
  not set is not there, so that removing the managed ones leaves none over).
* `LoadBalancer_proofs!ExposedPortsAreRouted`: `RoutesServed`. `RouteInv` adds that
  only ports that get along are served (`Serving`, which makes the names of routes
  distinct) and that the ports the worker is done with have their routes (`Served`).
* `Redirect_proofs!RedirectTypeCorrect`: `TypeOK`. It needs that a list of
  alternative FQDNs is finite, as the groups come in an order of their set.
* `Redirect_proofs!RedirectIsNotForgotten`: `NoLostUpdate`. `RedirectInv` says more of
  a state in sync: a worker on its way with old settings has the request queued
  behind it.

* `Ecosystem_proofs!EcosystemRunsCertificates`: the composition implements the
  specification of `Certificates`; what is proved of the latter holds in it.
* `Ecosystem_proofs!RedirectSurvivesCertificates`: `NoLostUpdate` of `Redirect` in the
  composition, where the certificate code writes the global config and ends the
  manager under the worker. `EcoInv` joins `RedirectInv` with the invariants of
  `Certificates` and with `Given` (the global config has settings others wrote, so
  that the alternatives are finite). The prover does not instantiate the theorems
  of a module, so `Ecosystem_proofs` states the invariants `Copies` and `FollowInv`
  once more for the instance `C` and proves them the same way.
* `Ecosystem_proofs!RedirectsAreCovered`: `CoveredAtRest`, under `NoneExplicit`: no
  alternative FQDN names the secret `ecosystem-certificate`; such a name is served
  with that certificate and left out of it (see the divergences).

Each invariant above was checked with TLC on the instances of the runs before it
was proved.

Only model-checked: what must eventually happen (`Converges`, five times, `Settles`,
`RedirectsCovered`). Liveness under fairness is out of the prover's reach. Every
invariant and action property of the passing runs is proved.

## What is not modelled

* Facade of the Traefik controller, environment variables, logging, interfaces
  and mocks, generation of certificates: no control of their own, or a library.
  What they decide is in the constants.
* Flags, schemes, clients and health checks of `main.go`: wiring without state.
* `WaitForReady` of the readiness checker, which the program does not call.
* A composition of `IngressExposure` with `LoadBalancer`: the only thing that
  passes between them is the owner of an ingress, which `LoadBalancer` changes by
  itself (`WriteIngress`, `CollectIngress`) in every way the former can.
* Texts of paths, middlewares, annotations and names, except where two names
  may collide.
* Staleness of the informer cache beyond what reconciles hold on to.

## Plan

Done: `IngressExposure`, `NetworkPolicy` with `PortLedger`, `LoadBalancer`,
`GlobalConfig`, `Certificates`, `Redirect` and their composition `Ecosystem`; every
invariant and action property of their runs is proved.

What is left is beyond the prover: the liveness properties.
