--------------------------- MODULE NetworkPolicy ---------------------------
(***************************************************************************)
(* The service controller and the network policy handler.  One policy      *)
(* holds the exposed ports of all services; its annotations record which   *)
(* service asked for which port.  The Deployment has no leader election     *)
(* and rolls over, so that two managers may work on the policy at once.    *)
(***************************************************************************)
EXTENDS Integers, FiniteSets

CONSTANTS
    Manager,        \* the processes that run the service controller
    Service,        \* names of the Services of the namespace
    Key,            \* annotation keys
    KeyOf,          \* KeyOf[s]: the key of s, its name cut at 63 characters
    Entry,          \* exposed ports, target port included
    PortOf,         \* PortOf[e]: the protocol and port of e
    Declarations,   \* Declarations[s]: the annotations s may carry
    CidrOf,         \* CidrOf[m]: the allowed CIDR manager m is started with
    Enabled,        \* the managers started with network policies enabled
    CanDelete,      \* may the role allow to delete a policy?  The chart's does not
    Overlap,        \* may a manager start before the other one has ended?
    Attempts,       \* how often OnConflict tries
    InitPolicy,     \* the policy an earlier manager has left
    Budget          \* bounds on what the environment does, by kind

Port == {PortOf[e] : e \in Entry}
Cidr == {CidrOf[m] : m \in Manager}
EventKinds == {"edit", "touch", "drop", "fault", "restart", "any"}

(* valid: the ingress is written without an error, the annotation can be    *)
(* parsed and its ports are ports of the service.                           *)
Declaration == [valid : BOOLEAN, ports : SUBSET Entry]

ASSUME PolicyAssumption ==
    /\ KeyOf \in [Service -> Key]
    /\ Declarations \in [Service -> SUBSET Declaration]
    /\ Attempts \in Nat \ {0}
    /\ Enabled \subseteq Manager /\ CanDelete \in BOOLEAN /\ Overlap \in BOOLEAN
    /\ Budget \in [EventKinds -> Nat]

(* ports is a set: entries are removed all at once and nothing tells two    *)
(* equal ones from one.  map[k] is empty for a key that is not there.       *)
PolicyState ==
    [exists : BOOLEAN, ports : SUBSET Port, keys : SUBSET Key,
     map : [Key -> SUBSET Entry], cidr : Cidr \cup {"-"}, rv : Nat]

NoPolicy(rv) ==
    [exists |-> FALSE, ports |-> {}, keys |-> {}, map |-> [k \in Key |-> {}],
     cidr |-> "-", rv |-> rv]

Ports(E) == {PortOf[e] : e \in E}

(* The ports the annotations account for.                                  *)
Recorded(p) == Ports(UNION {p.map[k] : k \in Key})

(* The entries that the page of k may hold: what its services declare and    *)
(* what an earlier manager has left.  A port in the claims of one key only   *)
(* is not shared.                                                            *)
Claims(k) ==
    {e \in Entry : \/ e \in InitPolicy.map[k]
                   \/ \E s \in Service : KeyOf[s] = k /\ \E d \in Declarations[s] : e \in d.ports}

Sole == {p \in Port : \A k, l \in Key : p \in Ports(Claims(k)) \cap Ports(Claims(l)) => k = l}

ASSUME InitPolicyAssumption ==
    /\ InitPolicy \in PolicyState
    /\ InitPolicy.ports = Recorded(InitPolicy)
    /\ InitPolicy.exists \/ InitPolicy = NoPolicy(InitPolicy.rv)
    /\ \A k \in Key \ InitPolicy.keys : InitPolicy.map[k] = {}

VARIABLES
    svc,        \* svc[s]: does s exist, and what does it declare?
    policy,     \* the network policy
    up,         \* the managers that run
    queue,      \* queue[m]: the services queued at m
    wk,         \* wk[m]: the worker of m
    lost,       \* history: the services whose request, or whose ports, were lost
    early,      \* history: the services dealt with before a manager ended whose
                \* CIDR the policy has kept
    left        \* what the environment may still do

vars == <<svc, policy, up, queue, wk, lost, early, left>>

---------------------------------------------------------------------------
(* Objects.                                                                *)

NoPorts == [valid |-> TRUE, ports |-> {}]
ServiceState == [live : BOOLEAN, decl : Declaration]
Gone == [live |-> FALSE, decl |-> NoPorts]

WorkerState ==
    [pc   : {"idle", "probe", "create", "get", "put", "delGet", "delete"},
     job  : {"upsert", "remove"},
     s    : Service \cup {"-"},     \* the service being handled
     want : Declaration,            \* what it declared when it was read
     snap : PolicyState,            \* the policy as Get returned it
     try  : 1 .. Attempts]

Idle == [pc |-> "idle", job |-> "upsert", s |-> "-", want |-> NoPorts,
         snap |-> NoPolicy(0), try |-> 1]

---------------------------------------------------------------------------
(* Requests.                                                               *)

(* The worker of m handles what s declares now.                            *)
Current(m, s) ==
    /\ wk[m].pc # "idle" /\ wk[m].s = s /\ wk[m].want = svc[s].decl
    /\ wk[m].job = IF svc[s].live THEN "upsert" ELSE "remove"

Requested(m, s) == s \in queue[m] \/ Current(m, s)

(* A running manager has a request for s, or works on what s declares now, *)
(* and so does one that keeps the policy.                                   *)
Pending(s) == \E m \in up : Requested(m, s)
Attended(s) == \E m \in up \cap Enabled : Requested(m, s)

(* The services S have lost a request or their ports, unless some manager   *)
(* attends to them all the same: nothing but an event of their own, or a     *)
(* manager that starts, brings them back.                                    *)
Lose(S) == lost' = {s \in lost \cup S : ~Attended(s)'}

(* The policy has the CIDR of a manager that runs.                         *)
CidrInForce == \E m \in up : policy.cidr = CidrOf[m]

(* Services in early that a manager attends to again may expect its CIDR.   *)
Reattend == early' = {s \in early : ~Attended(s)'}

(* The policy goes, with the ports of the services there are.              *)
Discard ==
    /\ policy' = NoPolicy(policy.rv + 1)
    /\ Lose({s \in Service : svc[s].live})

---------------------------------------------------------------------------
(* Reconcile.                                                              *)

Fail(m) ==
    /\ queue' = [queue EXCEPT ![m] = @ \cup {wk[m].s}]
    /\ wk' = [wk EXCEPT ![m] = Idle]

Done(m) == wk' = [wk EXCEPT ![m] = Idle] /\ UNCHANGED queue

Goto(m, r) == wk' = [wk EXCEPT ![m] = r] /\ UNCHANGED queue

(* The ingress is written before the policy: until the probe the two can    *)
(* only fail alike.  A missing service leads to handleDelete.               *)
Reconcile(m, s) ==
    /\ m \in up /\ wk[m].pc = "idle" /\ s \in queue[m]
    /\ queue' = [queue EXCEPT ![m] = @ \ {s}]
    /\ wk' = [wk EXCEPT ![m] = [Idle EXCEPT
                !.pc = IF m \notin Enabled THEN "delGet"
                       ELSE IF svc[s].live THEN "probe" ELSE "get",
                !.job = IF svc[s].live THEN "upsert" ELSE "remove",
                !.s = s, !.want = svc[s].decl]]
    /\ UNCHANGED <<svc, policy, up, lost, early, left>>

(* UpsertNetworkPoliciesForService parses the annotation and looks whether  *)
(* there is a policy; createNetworkPolicy does nothing without ports.       *)
Probe(m) ==
    LET r == wk[m]
    IN  /\ r.pc = "probe"
        /\ \/ ~r.want.valid /\ Fail(m)
           \/ r.want.valid /\ policy.exists /\ Goto(m, [r EXCEPT !.pc = "get"])
           \/ r.want.valid /\ ~policy.exists /\ r.want.ports = {} /\ Done(m)
           \/ r.want.valid /\ ~policy.exists /\ r.want.ports # {}
              /\ Goto(m, [r EXCEPT !.pc = "create"])
        /\ UNCHANGED <<svc, policy, up, lost, early, left>>

FirstPolicy(m) ==
    LET k == KeyOf[wk[m].s] IN
    [exists |-> TRUE, ports |-> Ports(wk[m].want.ports), keys |-> {k},
     map |-> [l \in Key |-> IF l = k THEN wk[m].want.ports ELSE {}],
     cidr |-> CidrOf[m], rv |-> policy.rv + 1]

CreatePolicy(m) ==
    /\ wk[m].pc = "create"
    /\ \/ policy.exists /\ Fail(m) /\ UNCHANGED policy
       \/ ~policy.exists /\ policy' = FirstPolicy(m) /\ Done(m)
    /\ UNCHANGED <<svc, up, lost, early, left>>

(* The Get inside of OnConflict.  Without a policy an update is an error;    *)
(* without the key there may be nothing to do.                               *)
GetPolicy(m) ==
    LET r == wk[m]
        known == KeyOf[r.s] \in policy.keys
        nothing == ~known /\ (r.job = "remove" \/ r.want.ports = {})
    IN  /\ r.pc = "get"
        /\ \/ ~policy.exists /\ r.job = "upsert" /\ Fail(m)
           \/ ~policy.exists /\ r.job = "remove" /\ Done(m)
           \/ policy.exists /\ nothing /\ Done(m)
           \/ policy.exists /\ ~nothing /\ Goto(m, [r EXCEPT !.pc = "put", !.snap = policy])
        /\ UNCHANGED <<svc, policy, up, lost, early, left>>

(* Defects: nothing is deleted, ports are added before others are deleted,  *)
(* updateCIDR is not called.                                                *)
UpdatedAddOnly(p, k, E, cidr) ==
    [p EXCEPT !.ports = @ \cup Ports(E), !.keys = @ \cup {k}, !.map[k] = E, !.cidr = cidr]

UpdatedAddFirst(p, k, E, cidr) ==
    [p EXCEPT !.ports = (@ \cup Ports(E)) \ Ports(p.map[k] \ E),
              !.keys = @ \cup {k}, !.map[k] = E, !.cidr = cidr]

UpdatedOldCidr(p, k, E, cidr) ==
    [p EXCEPT !.ports = (@ \ Ports(p.map[k] \ E)) \cup Ports(E),
              !.keys = @ \cup {k}, !.map[k] = E]

(* updateNetworkPolicy: ports no longer wanted go, missing ones are added. *)
Updated(p, k, E, cidr) ==
    [p EXCEPT !.ports = (@ \ Ports(p.map[k] \ E)) \cup Ports(E),
              !.keys = @ \cup {k}, !.map[k] = E, !.cidr = cidr]

(* Defect: the annotation is not deleted.                                  *)
RemovedPortsOnly(p, k) == [p EXCEPT !.ports = @ \ Ports(p.map[k])]

(* RemoveExposedPorts.                                                     *)
Removed(p, k) ==
    [p EXCEPT !.ports = @ \ Ports(p.map[k]), !.keys = @ \ {k}, !.map[k] = {}]

Revised(m) ==
    LET k == KeyOf[wk[m].s] IN
    IF wk[m].job = "upsert" THEN Updated(wk[m].snap, k, wk[m].want.ports, CidrOf[m])
    ELSE Removed(wk[m].snap, k)

(* The API server leaves the resource version when nothing changes.        *)
Stored(p) == IF p = policy THEN p ELSE [p EXCEPT !.rv = policy.rv + 1]

(* Defect: the update carries no resource version.                         *)
NoConflict(m) == FALSE

Conflict(m) == policy.rv # wk[m].snap.rv

(* Defects: one attempt too many, and the policy read only once.           *)
RetryOnceMore(m) ==
    IF wk[m].try > Attempts THEN Fail(m)
    ELSE Goto(m, [wk[m] EXCEPT !.pc = "get", !.snap = NoPolicy(0), !.try = @ + 1])

RetryStale(m) == Goto(m, [wk[m] EXCEPT !.pc = "put"])

(* OnConflict repeats the closure, which reads the policy again but keeps   *)
(* the declaration it was called with.                                      *)
Retry(m) ==
    IF wk[m].try = Attempts THEN Fail(m)
    ELSE Goto(m, [wk[m] EXCEPT !.pc = "get", !.snap = NoPolicy(0), !.try = @ + 1])

PutPolicy(m) ==
    /\ wk[m].pc = "put"
    /\ \/ ~policy.exists /\ Fail(m) /\ UNCHANGED policy
       \/ policy.exists /\ Conflict(m) /\ Retry(m) /\ UNCHANGED policy
       \/ policy.exists /\ ~Conflict(m) /\ policy' = Stored(Revised(m)) /\ Done(m)
    /\ UNCHANGED <<svc, up, lost, early, left>>

(* RemoveNetworkPolicy.  Its error is logged, and it also takes the place of *)
(* the error of getService that decides between handleDelete and             *)
(* handleUpsert.  With network policies disabled neither of the two touches  *)
(* the policy, so that the worker is done with it either way.                *)
LookForPolicy(m) ==
    /\ wk[m].pc = "delGet"
    /\ IF policy.exists THEN Goto(m, [wk[m] EXCEPT !.pc = "delete"]) ELSE Done(m)
    /\ UNCHANGED <<svc, policy, up, lost, early, left>>

(* Without the permission the call is forbidden.                           *)
DeletePolicy(m) ==
    /\ wk[m].pc = "delete"
    /\ Done(m) /\ UNCHANGED <<svc, up, early, left>>
    /\ \/ UNCHANGED <<policy, lost>>
       \/ CanDelete /\ policy.exists /\ Discard

---------------------------------------------------------------------------
(* Environment.                                                            *)

Spend(kind) ==
    /\ left[kind] > 0 /\ left["any"] > 0
    /\ left' = [left EXCEPT ![kind] = @ - 1, !["any"] = @ - 1]

(* An event reaches every manager that runs.                               *)
Notify(s) ==
    /\ queue' = [m \in Manager |-> IF m \in up THEN queue[m] \cup {s} ELSE queue[m]]
    /\ UNCHANGED <<policy, up, wk>>
    /\ Lose({s}) /\ Reattend

(* A service is created, or its annotation changes.                        *)
Declare(s) ==
    /\ Spend("edit")
    /\ \E d \in Declarations[s] :
          /\ svc[s] # [live |-> TRUE, decl |-> d]
          /\ svc' = [svc EXCEPT ![s] = [live |-> TRUE, decl |-> d]]
    /\ Notify(s)

DeleteService(s) ==
    /\ Spend("edit") /\ svc[s].live
    /\ svc' = [svc EXCEPT ![s] = Gone]
    /\ Notify(s)

(* Somebody else changes what the handler ignores, or deletes the policy.  *)
TouchPolicy ==
    /\ Spend("touch") /\ policy.exists
    /\ policy' = [policy EXCEPT !.rv = @ + 1]
    /\ UNCHANGED <<svc, up, queue, wk, lost, early>>

DropPolicy ==
    /\ Spend("drop") /\ policy.exists
    /\ UNCHANGED <<svc, up, queue, wk, early>>
    /\ Discard

(* A call fails, or it succeeds and its answer is lost.  An error of        *)
(* RemoveNetworkPolicy does not bring the request back, but an error of the *)
(* ingress update that follows it does.                                     *)
ApiError(m) ==
    /\ Spend("fault") /\ wk[m].pc # "idle"
    /\ Fail(m) \/ (wk[m].pc \in {"delGet", "delete"} /\ Done(m))
    /\ UNCHANGED <<svc, up, early>>
    /\ \/ UNCHANGED <<policy, lost>>
       \/ /\ wk[m].pc = "create" /\ ~policy.exists
          /\ policy' = FirstPolicy(m) /\ UNCHANGED lost
       \/ /\ wk[m].pc = "put" /\ policy.exists /\ ~Conflict(m)
          /\ policy' = Stored(Revised(m)) /\ UNCHANGED lost
       \/ wk[m].pc = "delete" /\ CanDelete /\ policy.exists /\ Discard

(* The first list of the informer is a create event per existing service.  *)
StartManager(m) ==
    /\ Spend("restart") /\ m \notin up /\ (Overlap \/ up = {})
    /\ up' = up \cup {m}
    /\ queue' = [queue EXCEPT ![m] = {s \in Service : svc[s].live}]
    /\ UNCHANGED <<svc, policy, wk>>
    /\ Lose({}) /\ Reattend

(* Requests that no other manager has are lost: its last write may be of a  *)
(* declaration that is outdated.  If it has written the policy last, its     *)
(* CIDR stays for the services that the others are done with.                *)
StopManager(m) ==
    /\ Spend("restart") /\ m \in up
    /\ up' = up \ {m}
    /\ queue' = [queue EXCEPT ![m] = {}]
    /\ wk' = [wk EXCEPT ![m] = Idle]
    /\ UNCHANGED <<svc, policy>>
    /\ Lose({s \in Service : Attended(s)})
    /\ early' = {s \in Service : ~CidrInForce' /\ ~Attended(s)'}

---------------------------------------------------------------------------
(* One manager has just started.                                           *)
Init ==
    /\ svc = [s \in Service |-> Gone]
    /\ policy = InitPolicy
    /\ \E m \in Manager : up = {m}
    /\ queue = [m \in Manager |-> {}]
    /\ wk = [m \in Manager |-> Idle]
    /\ lost = {s \in Service : KeyOf[s] \in InitPolicy.keys}
    /\ early = {}
    /\ left = Budget

Work(m) ==
    \/ Probe(m) \/ CreatePolicy(m) \/ GetPolicy(m) \/ PutPolicy(m)
    \/ LookForPolicy(m) \/ DeletePolicy(m)

Environment ==
    \/ \E s \in Service : Declare(s) \/ DeleteService(s)
    \/ TouchPolicy \/ DropPolicy
    \/ \E m \in Manager : ApiError(m) \/ StartManager(m) \/ StopManager(m)

Next ==
    \/ \E m \in Manager : Work(m) \/ \E s \in Service : Reconcile(m, s)
    \/ Environment

Spec == Init /\ [][Next]_vars

(* A manager that runs keeps working, and as its queue is first-in first-out *)
(* it gets to every request.  Nothing is assumed of the environment.         *)
Fairness ==
    \A m \in Manager :
        /\ WF_vars(Work(m))
        /\ \A s \in Service : SF_vars(Reconcile(m, s))

LiveSpec == Spec /\ Fairness
---------------------------------------------------------------------------
(* Every variable has its type, and a worker under way has a service.      *)
TypeOK ==
    /\ svc \in [Service -> ServiceState]
    /\ policy \in PolicyState
    /\ up \in SUBSET Manager
    /\ queue \in [Manager -> SUBSET Service]
    /\ wk \in [Manager -> WorkerState]
    /\ lost \in SUBSET Service /\ early \in SUBSET Service
    /\ left \in [EventKinds -> Nat]
    /\ \A m \in Manager : wk[m].pc # "idle" => wk[m].s \in Service

(* Every port that updateNetworkPolicy and RemoveExposedPorts leave in the   *)
(* policy is recorded under the key of a service, so that a later change of  *)
(* that service can close it: whatever ports services share, whoever         *)
(* conflicts, and wherever a manager dies.                                   *)
NoOrphanPort == policy.ports \subseteq Recorded(policy)

InUse == up # {} /\ up \subseteq Enabled

Handled(s) == InUse /\ svc[s].live /\ svc[s].decl.valid /\ ~Pending(s)
Settled(s) == Handled(s) /\ s \notin lost

(* What Reconcile has dealt with is in force: the policy records for a       *)
(* service exactly what its annotation declares, after lost answers, stale   *)
(* retries of OnConflict and concurrent managers too, unless a manager ended  *)
(* with a request that no other one had, or others deleted the policy.        *)
NoLostUpdate ==
    \A s \in Service : Settled(s) => policy.map[KeyOf[s]] = svc[s].decl.ports

(* "It is enabled by default and will allow connections from all external   *)
(* CIDRs on all exposed ports": a port that a service exposes is in the      *)
(* policy once updateNetworkPolicy has dealt with the service, whatever       *)
(* others it is asked to open and close.  Ports that several services may     *)
(* expose are excepted: the handler closes them when one gives them up.       *)
ExposedPortsOpen ==
    \A s \in Service : Settled(s) => Ports(svc[s].decl.ports) \cap Sole \subseteq policy.ports

(* handleDelete leaves nothing behind: a deleted service has no key in the   *)
(* policy once a running manager has dealt with it.  The deletion is lost     *)
(* when no manager runs, or when the ones that do end before.                 *)
NoLeftover ==
    InUse => \A s \in Service \ lost :
        ~svc[s].live /\ ~Pending(s) => KeyOf[s] \notin policy.keys

(* updateCIDR: the policy has the CIDR of a manager that runs as soon as the  *)
(* ones that run have dealt with a service that exposes a port, also when     *)
(* they took over from others by a rolling update.  Excepted are services     *)
(* they had dealt with before a manager ended that has written the policy     *)
(* after them.                                                                *)
CidrApplied ==
    /\ InUse /\ policy.exists
    /\ \E s \in Service \ early : Handled(s) /\ svc[s].decl.ports # {}
    => CidrInForce

(* "Do not remove ports if networkpolicies are not enabled because the       *)
(* policy should be deleted anyway": under a manager with network policies   *)
(* disabled there is no policy once Reconcile has dealt with a service.      *)
DisabledMeansGone ==
    up # {} /\ up \cap Enabled = {} =>
        \A s \in Service : svc[s].live /\ ~Pending(s) => ~policy.exists

(* A rule without ports lets all ports through.                            *)
LetThrough == IF policy.exists /\ policy.ports = {} THEN Port ELSE policy.ports

(* "remove exposed ports": when handleDelete has dealt with every deleted    *)
(* service, the policy lets no port through that no service exposes.         *)
RemovedPortsClosed ==
    InUse /\ (\A s \in Service : ~Pending(s)) =>
        LetThrough \subseteq UNION {Ports(svc[s].decl.ports) : s \in Service}

(* Once the environment is quiet and managers run, every valid declaration   *)
(* is in force for good, but for the lost ones: conflicts exhaust OnConflict, *)
(* not the queue.                                                            *)
Converges ==
    <>[](InUse => \A s \in Service \ lost :
            /\ svc[s].live /\ svc[s].decl.valid =>
                  /\ policy.map[KeyOf[s]] = svc[s].decl.ports
                  /\ Ports(svc[s].decl.ports) \cap Sole \subseteq policy.ports
            /\ ~svc[s].live => KeyOf[s] \notin policy.keys)

(* The policy is a book of exposed ports: every step of a manager writes the *)
(* page of one service and loses no page of another one's; it lets through   *)
(* nothing that is not written, and all that is written of the ports which   *)
(* services do not share.                                                    *)
Ledger == INSTANCE PortLedger WITH
    present <- policy.exists, page <- policy.map, open <- policy.ports
BookKept == Ledger!Spec
=============================================================================
