----------------------------- MODULE Ecosystem -----------------------------
(***************************************************************************)
(* The redirect controller and the certificate code of one manager, which   *)
(* share the global config: the certificate code writes the certificate to   *)
(* it, which queues the request of the redirect controller, and reads the    *)
(* FQDN and the alternative FQDNs that the redirect controller reads too.    *)
(* When the certificate code ends the manager, it ends the worker as well.   *)
(***************************************************************************)
EXTENDS Redirect

CONSTANTS InitKey, InitSecret, Uploads, Attempts, CertBudget

VARIABLES secret, upd, events, sync, certQ, missed, overtaken, certLeft

C == INSTANCE Certificates WITH Budget <- CertBudget, left <- certLeft

ASSUME EcosystemAssumption ==
    /\ InitKey \in BOOLEAN /\ InitSecret \in Certificate
    /\ Uploads \subseteq {"none", "other", "garbage", "missing"}
    /\ Attempts \in Nat \ {0}
    /\ CertBudget \in [C!EventKinds -> Nat]

certVars == <<secret, upd, events, sync, certQ, missed, overtaken, certLeft>>
ecoVars == <<vars, certVars>>

EcoInit == C!Init /\ RedirectInit /\ left = Budget

(* Defect: the redirect controller looks at the creation of the global      *)
(* config only.                                                             *)
UnnoticedStep == C!Proceed /\ UNCHANGED <<ingress, mw, queue, wk, drifted, left>>

(* Every change of the global config is an event for the redirect.         *)
CertificateStep ==
    /\ C!Proceed
    /\ queue' = (queue \/ config' # config)
    /\ UNCHANGED <<ingress, mw, wk, drifted, left>>

RedirectStep == (Work \/ CollectGarbage \/ Resync \/ Disturb) /\ UNCHANGED certVars

(* main starts the manager with both.                                      *)
ManagerRestarts == C!ManagerEnds /\ Restarted /\ UNCHANGED left

EcoNext == CertificateStep \/ RedirectStep \/ ManagerRestarts

EcoSpec == EcoInit /\ [][EcoNext]_ecoVars

(* The fairness of the parts.                                              *)
EcoLiveSpec ==
    /\ EcoSpec
    /\ WF_ecoVars(Work /\ UNCHANGED certVars) /\ WF_ecoVars(CollectGarbage /\ UNCHANGED certVars)
    /\ WF_ecoVars(Resync /\ UNCHANGED certVars) /\ SF_ecoVars(ReadInOrder /\ UNCHANGED certVars)
    /\ WF_ecoVars(C!Update /\ CertificateStep) /\ WF_ecoVars(C!Reconcile /\ CertificateStep)
    /\ \A a \in C!Syncs : WF_ecoVars(C!Synchronize(a) /\ CertificateStep)
    /\ WF_ecoVars(C!StartFails /\ ManagerRestarts) /\ WF_ecoVars(C!Resync /\ CertificateStep)

---------------------------------------------------------------------------
(* The hosts that are served with the certificate of the ecosystem.        *)
DefaultHosts == {r[2] : r \in {q \in Served(ingress.tls) : q[1] = "ecosystem-certificate"}}

Regenerated ==
    /\ config.set.type = "selfsigned" /\ C!Creatable(config.set)
    /\ secret.cert.kind = "self" /\ ~missed

(* Neither the redirect controller nor the updater has anything to do.     *)
Resting == ~queue /\ wk.pc = "idle" /\ ~C!Busy

(* Every host the ingress serves with the certificate of the ecosystem, and   *)
(* the FQDN the middleware redirects to, are names of that certificate as     *)
(* soon as redirect controller and updater are at rest, although each of the  *)
(* two reads the global config by itself, the updater twice, and publishing   *)
(* the certificate writes it; if the updater dropped no change and others     *)
(* left the middleware alone.                                                 *)
CoveredAtRest ==
    Wanted /\ Regenerated /\ Resting /\ ~drifted /\ ingress.exists =>
        DefaultHosts \cup {mw.to} \subseteq secret.cert.names

(* An alternative FQDN without a certificate of its own is redirected under  *)
(* a certificate that names it: in the end the hosts the ingress serves with *)
(* the certificate of the ecosystem, and the FQDN the middleware redirects   *)
(* to, are names of the self-signed certificate, and the global config has   *)
(* that certificate; if the updater dropped no change and the first          *)
(* Synchronize of the manager did not write last.                            *)
RedirectsCovered ==
    <>[](Wanted /\ Regenerated =>
            /\ IngressInSync /\ MiddlewareInSync
            /\ ingress.exists => DefaultHosts \cup {mw.to} \subseteq secret.cert.names
            /\ config.crt = secret.cert \/ overtaken)
=============================================================================
